------------------------------- MODULE Kernel -------------------------------
(***************************************************************************)
(* The RTX kernel as its tasks and its interrupts drive it: the task       *)
(* table, the ring of free task ids, the scheduler (kernel/k_task.c), the  *)
(* mailboxes (kernel/k_msg.c) and the UART receive interrupt               *)
(* (kernel/HAL_CA.c).                                                      *)
(*                                                                         *)
(* A kernel call made by an unprivileged task runs with IRQs masked from   *)
(* the SVC to the switch that ends it, so it is one action.  A call that   *)
(* blocks is two: what runs before k_tsk_switch, and what runs when the    *)
(* task is switched back in.  The interrupt handler is one action for its  *)
(* entry, one for each character it drains and one for the rescheduling    *)
(* that ends it, because characters keep arriving while it runs.  A call   *)
(* that returns RTX_ERR and changes nothing is no action.                  *)
(*                                                                         *)
(* Sizes are in 32-bit words: k_mbx_create and k_send_msg round every      *)
(* length up to a multiple of four bytes.  A mailbox is the sequence of    *)
(* its messages; Mailbox.tla has the ring of bytes under it.               *)
(***************************************************************************)
EXTENDS Integers, Sequences, FiniteSets, ReadyQueue

CONSTANTS
  MAX_TASKS,     \* size of g_tcbs and of the ring of task ids
  TID_KCD,       \* the task id reserved for the KCD task
  PRIO_NULL,     \* the null task's priority
  Prios,         \* the priorities tasks are created with
  NewPrios,      \* the priorities tasks are set to
  BootTasks,     \* the boot table: a sequence of [prio, priv, kcd] records
  MbxSizes,      \* the mailbox capacities tasks ask for, in words
  KCD_MBX_SIZE,  \* the capacity the KCD task asks for, in words
  MsgLens,       \* the lengths of the messages tasks send, in words
  RxMax,         \* characters the UART's receive FIFO holds
  RxInIrq,       \* TRUE if characters may arrive while the handler drains it
  MemMayFail,    \* TRUE if the allocation of a user stack may fail
  CheckedTids    \* TRUE if tasks call tsk_set_prio with ids of tasks only

Tids == 0..(MAX_TASKS - 1)
TID_NULL == 0
TID_UART_IRQ == MAX_TASKS

\* The TCBs are g_tcbs[0..MAX_TASKS-1] and, after them, g_kcd_tcb.
TCBs == 0..MAX_TASKS
NullTcb == 0
KcdTcb == MAX_TASKS

DORMANT == "DORMANT"
READY == "READY"
RUNNING == "RUNNING"
BLK_MSG == "BLK_MSG"
States == {DORMANT, READY, RUNNING, BLK_MSG}

MetaWords == 1   \* mailbox_metadata_t in front of every message
KeyWords == 3    \* a KEY_IN message: RTX_MSG_HDR and one character, rounded up

Messages == [from : Tids \cup {TID_UART_IRQ}, len : MsgLens \cup {KeyWords}]

ASSUME TidAssumption == MAX_TASKS \in Nat /\ TID_KCD \in 1..(MAX_TASKS - 1)

ASSUME PrioAssumption == PRIO_NULL \in Nat /\ Prios \cup NewPrios \subseteq 1..(PRIO_NULL - 1)

ASSUME BootAssumption ==
  /\ BootTasks \in Seq([prio : 1..(PRIO_NULL - 1), priv : BOOLEAN, kcd : BOOLEAN])
  /\ Len(BootTasks) > 0 /\ Len(BootTasks) < MAX_TASKS
  /\ \A i, j \in 1..Len(BootTasks) :
       BootTasks[i].kcd /\ BootTasks[j].kcd => i = j

ASSUME SizeAssumption ==
  /\ MbxSizes \subseteq Nat \ {0} /\ KCD_MBX_SIZE \in Nat \ {0}
  /\ MsgLens \subseteq Nat \ {0} /\ RxMax \in Nat /\ RxInIrq \in BOOLEAN
  /\ MemMayFail \in BOOLEAN /\ CheckedTids \in BOOLEAN

VARIABLES
  boot,                \* 1..Len(BootTasks): the entry k_tsk_init creates next;
                       \* one more: main() is about to enter task_null; two
                       \* more: the system runs
  is_kcd_init,
  gp_current_task,     \* the TCB of the running task
  state, prio, priv,   \* fields of the TCBs
  capacity,            \* mailbox_capacity, 0 while mailbox_lo is NULL
  mail,                \* the messages in the mailbox, oldest first
  receiving,           \* TCBs blocked, or just woken, inside k_recv_msg
  queue,               \* the scheduler's queue; the running task stays in it
  U_TID_Q, U_TID_head, U_TID_tail,   \* the ring of free task ids
  g_num_active_tasks,
  irq,                 \* TRUE inside c_IRQ_Handler
  rx                   \* characters in the UART's receive FIFO

ring == <<U_TID_Q, U_TID_head, U_TID_tail, g_num_active_tasks>>
mbx  == <<capacity, mail, receiving>>
vars == <<boot, is_kcd_init, gp_current_task, state, prio, priv, mbx, queue,
          ring, irq, rx>>

-----------------------------------------------------------------------------
\* k_tsk_get_tcb, and the tid field of a TCB in use.
GetTcb(t) == IF t = TID_KCD /\ is_kcd_init THEN KcdTcb ELSE t
TidOf(p) == IF p = KcdTcb THEN TID_KCD ELSE p

\* The priorities the scheduler's queue reads.
TidPrio(pr) == [t \in Tids |-> pr[GetTcb(t)]]

\* The words in use in a mailbox: mailbox_size.
Used(ms) ==
  LET sum[n \in 0..Len(ms)] ==
        IF n = 0 THEN 0 ELSE sum[n - 1] + MetaWords + ms[n].len
  IN  sum[Len(ms)]

\* How many ids the ring holds, its slots from the head on, and those ids.
\* TID_KCD is outside the ring until a boot entry has taken it.
FreeCount == MAX_TASKS - g_num_active_tasks
               - (IF is_kcd_init \/ boot > Len(BootTasks) THEN 0 ELSE 1)
RingSlots == {s \in Tids : \/ s >= U_TID_head /\ s < U_TID_head + FreeCount
                           \/ s + MAX_TASKS < U_TID_head + FreeCount}
FreeTids == {U_TID_Q[s] : s \in RingSlots}

Booted == boot = Len(BootTasks) + 2

\* The running task executes its own code, outside the kernel.
Running == Booted /\ ~irq /\ gp_current_task \notin receiving

\* Faults in k_tsk_run_new: an exiting task revived, a blocked one revived, and
\* the choice made with the priorities of before the call.
RunNewRevives(st, q, pr) ==
  \E t \in Tids :
    /\ IsTop(q, TidPrio(pr), t)
    /\ gp_current_task' = GetTcb(t)
    /\ state' = IF GetTcb(t) = gp_current_task THEN st
                ELSE [st EXCEPT ![gp_current_task] = IF @ = BLK_MSG THEN @ ELSE READY,
                                ![GetTcb(t)] = RUNNING]
RunNewUnblocks(st, q, pr) ==
  \E t \in Tids :
    /\ IsTop(q, TidPrio(pr), t)
    /\ gp_current_task' = GetTcb(t)
    /\ state' = IF GetTcb(t) = gp_current_task THEN st
                ELSE [st EXCEPT ![gp_current_task] = IF @ = DORMANT THEN @ ELSE READY,
                                ![GetTcb(t)] = RUNNING]
RunNewStale(st, q, pr) ==
  \E t \in Tids :
    /\ IsTop(q, TidPrio(prio), t)
    /\ gp_current_task' = GetTcb(t)
    /\ state' = IF GetTcb(t) = gp_current_task THEN st
                ELSE [st EXCEPT ![gp_current_task] =
                                  IF @ \in {DORMANT, BLK_MSG} THEN @ ELSE READY,
                                ![GetTcb(t)] = RUNNING]

\* k_tsk_run_new on the task states st, the queue q and the priorities pr that
\* the caller has left.
\* The switched-out task becomes READY unless it has stopped or blocked.
RunNew(st, q, pr) ==
  \E t \in Tids :
    /\ IsTop(q, TidPrio(pr), t)
    /\ gp_current_task' = GetTcb(t)
    /\ state' = IF GetTcb(t) = gp_current_task THEN st
                ELSE [st EXCEPT ![gp_current_task] =
                                  IF @ \in {DORMANT, BLK_MSG} THEN @ ELSE READY,
                                ![GetTcb(t)] = RUNNING]

\* k_tsk_create_new: the fields of TCB p, its state apart.
NewTask(p, pr, pv) == /\ prio' = [prio EXCEPT ![p] = pr]
                      /\ priv' = [priv EXCEPT ![p] = pv]
                      /\ capacity' = [capacity EXCEPT ![p] = 0]
                      /\ mail' = [mail EXCEPT ![p] = <<>>]

\* Faults: a freed id always stored in the same slot, and a head that does not
\* wrap.
PushTidInPlace(t) == /\ U_TID_Q' = [U_TID_Q EXCEPT ![U_TID_tail] = t]
                     /\ U_TID_tail' = U_TID_tail
PopTidNoWrap == U_TID_head' = U_TID_head + 1

PushTid(t) == /\ U_TID_Q' = [U_TID_Q EXCEPT ![U_TID_tail] = t]
              /\ U_TID_tail' = (U_TID_tail + 1) % MAX_TASKS
PopTid == U_TID_head' = (U_TID_head + 1) % MAX_TASKS

\* Fault: the copy made into the sender's own mailbox.
DeliverToSelf(r, sender, n) ==
  mail' = [mail EXCEPT ![gp_current_task] = Append(@, [from |-> sender, len |-> n])]

\* k_send_msg's test that mailbox r takes a message of n words, and its copy.
Accepts(r, n) == /\ capacity[r] # 0
                 /\ state[r] # DORMANT
                 /\ n + MetaWords <= capacity[r] - Used(mail[r])
Deliver(r, sender, n) ==
  mail' = [mail EXCEPT ![r] = Append(@, [from |-> sender, len |-> n])]

\* The receiver's half of k_recv_msg: the oldest message leaves the mailbox,
\* copied out or, when the receiver's buffer is too small, discarded.
TakeHead(p) ==
  mail' = [mail EXCEPT ![p] = IF @ = <<>> THEN <<>> ELSE Tail(@)]

-----------------------------------------------------------------------------
\* k_tsk_init up to its loop: the null task, and the ring of free ids.
Init ==
  /\ boot = 1
  /\ is_kcd_init = FALSE
  /\ gp_current_task = NullTcb
  /\ state = [p \in TCBs |-> IF p = NullTcb THEN RUNNING ELSE DORMANT]
  /\ prio = [p \in TCBs |-> IF p = NullTcb THEN PRIO_NULL ELSE 0]
  /\ priv = [p \in TCBs |-> p = NullTcb]
  /\ capacity = [p \in TCBs |-> 0]
  /\ mail = [p \in TCBs |-> <<>>]
  /\ receiving = {}
  /\ queue = Insert(Empty(Tids), TID_NULL)
  /\ U_TID_Q = [s \in Tids |-> IF s \in {0, MAX_TASKS - 1} THEN 0
                               ELSE IF s < TID_KCD THEN s ELSE s + 1]
  /\ U_TID_head = 1
  /\ U_TID_tail = MAX_TASKS - 1
  /\ g_num_active_tasks = 1
  /\ irq = FALSE
  /\ rx = 0

\* The id and the TCB k_tsk_init gives to boot entry i: a KCD entry gets
\* TID_KCD and g_kcd_tcb; the last entry gets TID_KCD if none has it yet.
BootTid(i) ==
  IF \/ BootTasks[i].kcd
     \/ i = Len(BootTasks) /\ ~is_kcd_init
  THEN TID_KCD ELSE U_TID_Q[U_TID_head]
BootTcb(i) == IF BootTasks[i].kcd THEN KcdTcb ELSE BootTid(i)

\* One iteration of k_tsk_init's loop.
BootTask ==
  /\ boot <= Len(BootTasks)
  /\ boot' = boot + 1
  /\ LET info == BootTasks[boot]
         p == BootTcb(boot)
     IN /\ is_kcd_init' = (is_kcd_init \/ info.kcd)
        /\ NewTask(p, info.prio, info.priv)
        /\ state' = [state EXCEPT ![p] = READY]
        /\ queue' = Insert(queue, BootTid(boot))
  /\ IF BootTid(boot) = TID_KCD THEN UNCHANGED U_TID_head ELSE PopTid
  /\ g_num_active_tasks' = g_num_active_tasks + 1
  /\ UNCHANGED <<gp_current_task, receiving, U_TID_Q, U_TID_tail, irq, rx>>

\* Faults: the choice made before the requeueing, and no requeueing at all.
DoYieldLate(st, q) ==
  queue' = Insert(q, TidOf(gp_current_task)) /\ RunNew(st, q, prio)
DoYieldInPlace(st, q) == queue' = q /\ RunNew(st, q, prio)

\* k_tsk_yield: the running task goes behind its equals.
DoYield(st, q) == LET back == Insert(q, TidOf(gp_current_task))
                  IN  queue' = back /\ RunNew(st, back, prio)

\* main() enters task_null, whose first call is k_tsk_yield.
Start == /\ boot = Len(BootTasks) + 1
         /\ boot' = boot + 1
         /\ DoYield(state, queue)
         /\ UNCHANGED <<is_kcd_init, prio, priv, mbx, ring, irq, rx>>

-----------------------------------------------------------------------------
\* The task at the head of every kernel call.  The null task only yields; the
\* KCD task only creates its mailbox, receives and sends.
UserRuns == Running /\ gp_current_task \notin {NullTcb, KcdTcb}
MailerRuns == Running /\ gp_current_task # NullTcb

Yield == /\ Running /\ gp_current_task # KcdTcb
         /\ DoYield(state, queue)
         /\ UNCHANGED <<boot, is_kcd_init, prio, priv, mbx, ring, irq, rx>>

\* k_tsk_create: the new task runs at once only if it is more urgent.
Create(p) ==
  /\ UserRuns
  /\ g_num_active_tasks # MAX_TASKS
  /\ PopTid
  /\ g_num_active_tasks' = g_num_active_tasks + 1
  /\ LET tid == U_TID_Q[U_TID_head]
         ready == [state EXCEPT ![tid] = READY]
     IN /\ NewTask(tid, p, FALSE)
        /\ queue' = Insert(queue, tid)
        /\ IF p < prio[gp_current_task]
           THEN RunNew(ready, Insert(queue, tid), [prio EXCEPT ![tid] = p])
           ELSE state' = ready /\ UNCHANGED gp_current_task
  /\ UNCHANGED <<boot, is_kcd_init, receiving, U_TID_Q, U_TID_tail, irq, rx>>

\* k_tsk_create when k_alloc_p_stack finds no memory: the id goes back to the
\* ring; the fields k_tsk_create_new has written, READY included, stay.
CreateFails(p) ==
  /\ UserRuns /\ MemMayFail
  /\ g_num_active_tasks # MAX_TASKS
  /\ PopTid
  /\ LET tid == U_TID_Q[U_TID_head]
     IN /\ NewTask(tid, p, FALSE)
        /\ state' = [state EXCEPT ![tid] = READY]
        /\ PushTid(tid)
  /\ UNCHANGED <<boot, is_kcd_init, gp_current_task, receiving, queue,
                 g_num_active_tasks, irq, rx>>

Exit ==
  /\ UserRuns
  /\ PushTid(TidOf(gp_current_task))
  /\ g_num_active_tasks' = g_num_active_tasks - 1
  /\ capacity' = [capacity EXCEPT ![gp_current_task] = 0]
  /\ mail' = [mail EXCEPT ![gp_current_task] = <<>>]
  /\ queue' = Remove(queue, TidOf(gp_current_task))
  /\ RunNew([state EXCEPT ![gp_current_task] = DORMANT],
            Remove(queue, TidOf(gp_current_task)), prio)
  /\ UNCHANGED <<boot, is_kcd_init, prio, priv, receiving, U_TID_head, irq, rx>>

\* Fault: a heap_idx that no sift keeps up to date.
RemovedAny(t) == queue.members

\* What k_tsk_set_prio's sched_remove takes out for t: t itself, but when t is
\* not in the heap, whichever member its stale heap_idx leads to.
Removed(t) == IF t \in queue.members THEN {t} ELSE queue.members

\* Fault: the priority written while the task stays where it is in the heap.
SetPrioInPlace(t, p) ==
  LET target == GetTcb(t)
  IN /\ UserRuns
     /\ t # TID_NULL
     /\ priv[gp_current_task] \/ ~priv[target]
     /\ state[target] # DORMANT
     /\ CheckedTids => t \notin FreeTids
     /\ prio' = [prio EXCEPT ![target] = p]
     /\ RunNew(state, queue, prio')
     /\ UNCHANGED <<boot, is_kcd_init, priv, mbx, queue, ring, irq, rx>>

\* k_tsk_set_prio: a task blocked on a message only has its priority written.
SetPrio(t, p) ==
  LET target == GetTcb(t)
  IN /\ UserRuns
     /\ t # TID_NULL
     /\ priv[gp_current_task] \/ ~priv[target]
     /\ state[target] # DORMANT
     /\ CheckedTids => t \notin FreeTids
     /\ prio' = [prio EXCEPT ![target] = p]
     /\ IF state[target] = BLK_MSG
        THEN UNCHANGED <<queue, state, gp_current_task>>
        ELSE \E u \in Removed(t) :
               /\ queue' = Insert(Remove(queue, u), t)
               /\ RunNew(state, Insert(Remove(queue, u), t),
                         [prio EXCEPT ![target] = p])
     /\ UNCHANGED <<boot, is_kcd_init, priv, mbx, ring, irq, rx>>

-----------------------------------------------------------------------------
MbxCreate(n) ==
  /\ MailerRuns
  /\ gp_current_task = KcdTcb => n = KCD_MBX_SIZE
  /\ capacity[gp_current_task] = 0
  /\ capacity' = [capacity EXCEPT ![gp_current_task] = n]
  /\ mail' = [mail EXCEPT ![gp_current_task] = <<>>]
  /\ UNCHANGED <<boot, is_kcd_init, gp_current_task, state, prio, priv,
                 receiving, queue, ring, irq, rx>>

\* k_send_msg by a task.  Waking the receiver costs the sender its place: it
\* yields, even to a receiver less urgent than itself.
Send(t, n) ==
  LET r == GetTcb(t)
  IN /\ MailerRuns
     /\ t # TID_NULL
     /\ Accepts(r, n)
     /\ Deliver(r, TidOf(gp_current_task), n)
     /\ IF state[r] = BLK_MSG
        THEN DoYield([state EXCEPT ![r] = READY], Insert(queue, t))
        ELSE UNCHANGED <<queue, state, gp_current_task>>
     /\ UNCHANGED <<boot, is_kcd_init, prio, priv, capacity, receiving, ring,
                    irq, rx>>

\* k_recv_msg, with a message waiting.
Recv ==
  /\ MailerRuns
  /\ capacity[gp_current_task] # 0
  /\ mail[gp_current_task] # <<>>
  /\ TakeHead(gp_current_task)
  /\ UNCHANGED <<boot, is_kcd_init, gp_current_task, state, prio, priv,
                 capacity, receiving, queue, ring, irq, rx>>

\* k_recv_msg, up to the switch, when the mailbox is empty.
RecvBlocks ==
  /\ MailerRuns
  /\ capacity[gp_current_task] # 0
  /\ mail[gp_current_task] = <<>>
  /\ receiving' = receiving \cup {gp_current_task}
  /\ queue' = Remove(queue, TidOf(gp_current_task))
  /\ RunNew([state EXCEPT ![gp_current_task] = BLK_MSG],
            Remove(queue, TidOf(gp_current_task)), prio)
  /\ UNCHANGED <<boot, is_kcd_init, prio, priv, capacity, mail, ring, irq, rx>>

\* k_recv_msg, from the switch back on: it does not look at mailbox_size again.
RecvResumes ==
  /\ Booted /\ ~irq
  /\ gp_current_task \in receiving
  /\ receiving' = receiving \ {gp_current_task}
  /\ TakeHead(gp_current_task)
  /\ UNCHANGED <<boot, is_kcd_init, gp_current_task, state, prio, priv,
                 capacity, queue, ring, irq, rx>>

-----------------------------------------------------------------------------
\* A character arrives; the FIFO drops it when full.
UartRx == /\ rx < RxMax
          /\ irq => RxInIrq
          /\ rx' = rx + 1
          /\ UNCHANGED <<boot, is_kcd_init, gp_current_task, state, prio, priv,
                         mbx, queue, ring, irq>>

\* Fault: unprivileged tasks started with the I bit set.
IrqEnterMasked == /\ Running /\ gp_current_task # NullTcb
                  /\ priv[gp_current_task]
                  /\ rx > 0
                  /\ irq' = TRUE
                  /\ UNCHANGED <<boot, is_kcd_init, gp_current_task, state, prio,
                                 priv, mbx, queue, ring, rx>>

\* The interrupt is taken in a task's own code, never in the null task's: that
\* one runs main()'s code, with the IRQs masked since the reset.
IrqEnter == /\ Running /\ gp_current_task # NullTcb
            /\ rx > 0
            /\ irq' = TRUE
            /\ UNCHANGED <<boot, is_kcd_init, gp_current_task, state, prio,
                           priv, mbx, queue, ring, rx>>

\* One turn of the drain loop: the character goes to TID_KCD if its mailbox
\* takes it and is lost otherwise.  A woken receiver joins the queue, but the
\* interrupted task does not yield.
IrqChar ==
  /\ irq /\ rx > 0
  /\ rx' = rx - 1
  /\ LET r == GetTcb(TID_KCD)
     IN IF Accepts(r, KeyWords)
        THEN /\ Deliver(r, TID_UART_IRQ, KeyWords)
             /\ IF state[r] = BLK_MSG
                THEN /\ state' = [state EXCEPT ![r] = READY]
                     /\ queue' = Insert(queue, TID_KCD)
                ELSE UNCHANGED <<state, queue>>
        ELSE UNCHANGED <<mail, state, queue>>
  /\ UNCHANGED <<boot, is_kcd_init, gp_current_task, prio, priv, capacity,
                 receiving, ring, irq>>

\* Fault: a handler that ends with a yield.
IrqExitYields == /\ irq /\ rx = 0
                 /\ irq' = FALSE
                 /\ DoYield(state, queue)
                 /\ UNCHANGED <<boot, is_kcd_init, prio, priv, mbx, ring, rx>>

\* The FIFO is empty: the handler reschedules and returns.
IrqExit == /\ irq /\ rx = 0
           /\ irq' = FALSE
           /\ RunNew(state, queue, prio)
           /\ UNCHANGED <<boot, is_kcd_init, prio, priv, mbx, queue, ring, rx>>

-----------------------------------------------------------------------------
Next ==
  \/ BootTask
  \/ Start
  \/ Yield
  \/ \E p \in Prios : Create(p)
  \/ \E p \in Prios : CreateFails(p)
  \/ Exit
  \/ \E t \in Tids, p \in NewPrios : SetPrio(t, p)
  \/ \E n \in MbxSizes \cup {KCD_MBX_SIZE} : MbxCreate(n)
  \/ \E t \in Tids, n \in MsgLens : Send(t, n)
  \/ Recv
  \/ RecvBlocks
  \/ RecvResumes
  \/ UartRx
  \/ IrqEnter
  \/ IrqChar
  \/ IrqExit

Spec == Init /\ [][Next]_vars

-----------------------------------------------------------------------------
\* Every variable has a value the code's declarations allow.
TypeOK ==
  /\ boot \in 1..(Len(BootTasks) + 2)
  /\ is_kcd_init \in BOOLEAN
  /\ gp_current_task \in TCBs
  /\ state \in [TCBs -> States]
  /\ prio \in [TCBs -> 0..PRIO_NULL]
  /\ priv \in [TCBs -> BOOLEAN]
  /\ capacity \in [TCBs -> Nat]
  /\ mail \in [TCBs -> Seq(Messages)]
  /\ receiving \subseteq TCBs
  /\ QueueOK(queue, Tids)
  /\ U_TID_Q \in [Tids -> Tids] /\ U_TID_head \in Tids /\ U_TID_tail \in Tids
  /\ g_num_active_tasks \in 1..MAX_TASKS
  /\ irq \in BOOLEAN
  /\ rx \in 0..RxMax

\* Whenever a task executes its own code it is the one the scheduling policy
\* names: no queued task is more urgent, and no equally urgent one has waited
\* longer (common.h:72).  Every call that queues a task or changes a priority
\* must have rescheduled before it returned.
StrictPriority ==
  Booted /\ ~irq => IsTop(queue, TidPrio(prio), TidOf(gp_current_task))

\* The scheduler's queue and the task states tell the same story: a task is
\* queued exactly when it is READY or RUNNING, the current task alone is
\* RUNNING, and no free id is queued.
QueueMatchesStates ==
  /\ \A t \in Tids \ FreeTids :
       t \in queue.members <=> state[GetTcb(t)] \in {READY, RUNNING}
  /\ \A t \in FreeTids : t \notin queue.members
  /\ \A p \in TCBs : state[p] = RUNNING <=> p = gp_current_task

\* The ring of ids never hands out an id twice and loses none: the ids in it
\* are distinct, never the null task's and never a blocked or running task's,
\* and once the system has booted every id outside it is a task's.
TidPool ==
  /\ Cardinality(FreeTids) = FreeCount
  /\ TID_NULL \notin FreeTids
  /\ \A t \in FreeTids : state[GetTcb(t)] \in {DORMANT, READY}
  /\ \A t \in Tids \ FreeTids : Booted => state[GetTcb(t)] # DORMANT

\* No wake-up is lost and none is false: a task blocked on a message has an
\* empty mailbox, and one that has left that state has a message to take, which
\* k_recv_msg does not check when it resumes (k_msg.c:106-110).
NoLostWakeup ==
  /\ \A p \in TCBs : state[p] = BLK_MSG => p \in receiving /\ mail[p] = <<>>
  /\ \A p \in receiving : state[p] # BLK_MSG => mail[p] # <<>>
  /\ \A p \in receiving : capacity[p] # 0 /\ state[p] # DORMANT

\* g_num_active_tasks is the "number of non-dormant tasks" (k_task.c:73), as
\* long as no creation has failed for lack of memory.
ActiveIsNonDormant ==
  g_num_active_tasks = Cardinality({p \in TCBs : state[p] # DORMANT})

\* "strict-priority, FCFS scheduling" (common.h:72), read off the task states:
\* no live task that is READY is more urgent than the running one.
NoReadyMoreUrgent ==
  Booted /\ ~irq =>
    \A t \in Tids \ FreeTids :
      state[GetTcb(t)] = READY => prio[gp_current_task] <= prio[GetTcb(t)]

\* Only the running task can leave the scheduler's queue: nobody else's call,
\* and no interrupt, takes a queued task out of it (prio_heap.c:111-126).
OnlySelfLeaves ==
  [][\A t \in queue.members \ queue'.members : t = TidOf(gp_current_task)]_vars

\* The scheduler's queue is used as the heap expects it, which checks nothing
\* itself: a task is inserted only while it is out, taken out only while it is
\* in, and the priority of a queued task is written only if it is then put in
\* anew.  Every call makes one of these moves; a send that wakes its receiver
\* makes two, the receiver in and the sender to the back (prio_heap.c:98-126).
QueueContract ==
  [][/\ \/ UNCHANGED queue
        \/ \E t \in Tids \ queue.members : queue' = Insert(queue, t)
        \/ \E t \in queue.members : queue' = Remove(queue, t)
        \/ \E t \in queue.members : queue' = Insert(Remove(queue, t), t)
        \/ \E t \in Tids \ queue.members, u \in queue.members :
             queue' = Insert(Remove(Insert(queue, t), u), u)
     /\ \A t \in queue.members :
          TidPrio(prio)[t] # TidPrio(prio)'[t] => queue' = Insert(Remove(queue, t), t)]_vars

\* Neither an interrupt nor the creation of a task costs a queued task its
\* place among its equals, although both may switch to another task: only a
\* yield, a send that wakes its receiver and a change of priority requeue.
PreemptionKeepsPlace ==
  [][irq \/ g_num_active_tasks' > g_num_active_tasks =>
       \A t, u \in queue.members :
         t \in queue.ahead[u] => t \in queue'.ahead[u]]_vars
=============================================================================
