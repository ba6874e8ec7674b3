-------------------------- MODULE InterruptsProofs --------------------------
(***************************************************************************)
(* Theorems about Interrupts when no task is privileged, for any number of *)
(* tasks, any interrupts and whatever the boot loader leaves behind: the   *)
(* contexts on the kernel stacks nest and match, interrupts end before a   *)
(* task runs, and no READY task is lost.                                   *)
(***************************************************************************)
EXTENDS Interrupts, FiniteSetTheorems, SequenceTheorems, TLAPS

\* What the theorems assume.
NonePrivileged == Priv = {}

Boot == {"GIC_DistInit", "GIC_CPUInterfaceInit", "GIC_EnableIRQ", "UART0_Init",
         "config_timers", "k_tsk_init"}
Handler == {"c_IRQ_Handler", "GIC_EndInterrupt"}
Chosen == {"states", "k_tsk_switch"}
InCall == {"sched_remove", "sched_insert", "scheduler", "states", "k_tsk_switch",
           "k_mbx_create", "k_recv_msg", "k_recv_msg takes"}
Rets == {"return", "k_recv_msg takes"}
Kinds == {"svc", "call", "irq", "switch"}

Contexts == [kind : Kinds, at : Rets \cup {"task"}, masked : BOOLEAN,
             old : TCBs, ret : Rets]

TypeOK ==
  /\ enabled \subseteq IRQs /\ active \subseteq IRQs
  /\ at \in Boot \cup Handler \cup InCall \cup {"return", "task"}
  /\ cpu \in TCBs /\ gp_current_task \in TCBs /\ old \in TCBs
  /\ masked \in BOOLEAN /\ ret \in Rets /\ inbox \in Int
  /\ ksp = [p \in TCBs |-> p]
  /\ kstack \in [TCBs -> Seq(Contexts)]
  /\ state \in [TCBs -> {"DORMANT", "READY", "RUNNING", "BLK_MSG"}]

\* How far the board is set up, and what the interrupt being handled is.
BoardInv ==
  /\ at = "GIC_CPUInterfaceInit" => (enabled \cup active) \cap Shared = {}
  /\ at = "GIC_EnableIRQ" => enabled = {} /\ active = {}
  /\ at \in {"UART0_Init", "config_timers", "k_tsk_init"} => enabled = Ours /\ active = {}
  /\ at = "k_tsk_init" => sources \cap {HPS_TIMER0_IRQ_ID, A9_TIMER_IRQ_ID} = {}
  /\ at \in Boot => /\ masked /\ raised = {} /\ cpu = Null /\ gp_current_task = Null
                    /\ inbox = -1 /\ kstack = [p \in TCBs |-> <<>>]
  /\ at \notin Boot => /\ enabled = Ours /\ raised \subseteq {HPS_TIMER1_IRQ_ID}
                       /\ sources \cap {HPS_TIMER0_IRQ_ID, A9_TIMER_IRQ_ID} = {}
                       /\ at \notin Handler => active = {}
  /\ at \in Handler => active \in {{UART0_Rx_IRQ_ID}, {HPS_TIMER1_IRQ_ID}}

\* The context a task's own code was left with.
Base(p, f) == /\ f.kind # "switch" /\ f.at = "task" /\ (f.masked <=> p = Null)

\* An interrupt of the return from an SVC, before it has restored the task.
Inner(f) == f.kind = "irq" /\ f.at = "return" /\ ~f.masked

\* The n contexts under which a task is in the kernel.
EnteredTo(p, s, n) ==
  \/ n = 1 /\ Base(p, s[1])
  \/ n = 2 /\ p # Null /\ Base(p, s[1]) /\ s[1].kind = "svc" /\ Inner(s[2])
Entered(p, s) == EnteredTo(p, s, Len(s))

\* Such a task when k_tsk_switch has left it, or k_tsk_create_new made it up.
Suspended(p, s) ==
  LET n == Len(s)
      f == s[n]
  IN /\ n \in 2..3 /\ EnteredTo(p, s, n - 1)
     /\ f.kind = "switch" /\ f.at \in Rets
     /\ f.at = "k_recv_msg takes" => p = KCD
     /\ ~f.masked => f.at = "return" /\ p # Null /\ n = 2 /\ s[1].kind = "svc"

StackInv ==
  at \notin Boot =>
    /\ \A p \in TCBs \ {cpu} : Suspended(p, kstack[p])
    /\ at = "task" => kstack[cpu] = <<>> /\ (masked <=> cpu = Null)
    /\ at # "task" => Entered(cpu, kstack[cpu])
    /\ at \in InCall \cup Handler => masked
    /\ at = "return" /\ ~masked =>
         cpu # Null /\ Len(kstack[cpu]) = 1 /\ kstack[cpu][1].kind = "svc"

CurrentInv ==
  at \notin Boot =>
    /\ at \in Chosen => old = cpu /\ gp_current_task # cpu
    /\ at \notin Chosen => gp_current_task = cpu
    /\ at \in {"k_mbx_create", "k_recv_msg", "k_recv_msg takes"} => cpu = KCD
    /\ at \in Chosen \cup {"scheduler"} /\ ret = "k_recv_msg takes" => cpu = KCD
    /\ at = "GIC_EndInterrupt" /\ active = {UART0_Rx_IRQ_ID} => ret = "return"

Ready == {p \in TCBs : state[p] \in {"READY", "RUNNING"}}

SchedInv ==
  /\ inbox # -1 => KCD \in TCBs
  /\ at \notin Boot =>
       /\ at # "sched_insert" => queue.members = Ready
       /\ at = "sched_insert" => queue.members = Ready \ {gp_current_task}
       /\ at # "scheduler" => gp_current_task \in Ready

IInv == TypeOK /\ BoardInv /\ StackInv /\ CurrentInv /\ SchedInv

-----------------------------------------------------------------------------
\* The null task is one of the TCBs, which are numbers.
LEMMA NullIn == Null \in TCBs /\ TCBs \subseteq Int
  BY InterruptAssumption DEF Null, TCBs

\* The lengths of the stacks.
LEMMA Sums ==
  /\ \A n \in Nat : n > 0 /\ ~(1 <= n - 1) => n = 1
  /\ \A n : n \in 2..3 => n > 0 /\ (n = 2 \/ n = 3)
  /\ \A m, n : n \in 1..2 /\ m = n + 1 => m - 1 = n /\ m = n + 1 /\ m \in 2..3
  /\ 2 - 1 = 1 /\ 3 - 1 = 2
  /\ \A n \in Int : n - 1 \in Int
  /\ \A i : i \in 1..1 <=> i = 1
  /\ \A i : i \in 1..2 <=> i = 1 \/ i = 2
  OBVIOUS

\* The last context of a stack, and the ones under it.
LEMMA Pushed ==
  ASSUME NEW s \in Seq(Contexts), NEW f \in Contexts
  PROVE  /\ Append(s, f) \in Seq(Contexts) /\ Len(Append(s, f)) = Len(s) + 1
         /\ \A i \in 1..Len(s) : Append(s, f)[i] = s[i]
         /\ Append(s, f)[Len(s) + 1] = f
  BY AppendProperties

\* What is left of a stack without its last context.
LEMMA Popped ==
  ASSUME NEW s \in Seq(Contexts), Len(s) > 0
  PROVE  /\ Bottom(s) \in Seq(Contexts) /\ Len(Bottom(s)) = Len(s) - 1
         /\ \A i \in 1..(Len(s) - 1) : Bottom(s)[i] = s[i]
         /\ s[Len(s)] \in Contexts
<1>1. Len(s) \in Nat
  BY LenProperties
<1>2. 1 \in 1..(Len(s) + 1) /\ Len(s) - 1 \in 0..Len(s)
  BY <1>1
<1>3. \A i \in 1..Len(s) : s[i] \in Contexts
  BY ElementOfSeq
<1>4. \A i \in 1..(Len(s) - 1) : s[i] \in Contexts
  BY <1>1, <1>3
<1> DEFINE b == SubSeq(s, 1, Len(s) - 1)
<1>5. /\ b \in Seq(Contexts)
      /\ Len(b) = IF 1 <= Len(s) - 1 THEN Len(s) - 1 - 1 + 1 ELSE 0
      /\ \A i \in 1..(Len(s) - 1 - 1 + 1) : b[i] = s[1 + i - 1]
  BY <1>1, <1>4, SubSeqProperties
<1> HIDE DEF b
<1>6. Len(b) = Len(s) - 1
  <2>1. CASE 1 <= Len(s) - 1
    BY <1>1, <1>5, <2>1
  <2>2. CASE ~(1 <= Len(s) - 1)
    <3>1. Len(s) = 1
      BY <1>1, <2>2, Sums, Zenon
    <3> QED BY <1>5, <2>2, <3>1
  <2> QED BY <2>1, <2>2
<1>7. ASSUME NEW i \in 1..(Len(s) - 1) PROVE b[i] = s[i]
  <2>1. i \in 1..(Len(s) - 1 - 1 + 1) /\ 1 + i - 1 = i
    BY <1>1
  <2> QED BY <1>5, <2>1
<1>8. Len(s) \in 1..Len(s)
  BY <1>1
<1> QED BY <1>3, <1>5, <1>6, <1>7, <1>8 DEF Bottom, b

\* The invariant holds at reset.
LEMMA InitInv == Init => IInv
<1> SUFFICES ASSUME Init PROVE IInv
  OBVIOUS
<1>1. TypeOK
  <2>1. <<>> \in Seq(Contexts)
    BY EmptySeq
  <2> QED BY <2>1, NullIn DEF Init, TypeOK, Boot, Rets
<1> QED BY <1>1, NullIn DEF Init, IInv, BoardInv, StackInv, CurrentInv, SchedInv, Boot, Handler

-----------------------------------------------------------------------------
\* The steps of the boot.  GIC_DistInit clears the shared interrupts.
LEMMA DistInitStep == ASSUME IInv, GIC_DistInit PROVE IInv'
<1>1. TypeOK'
  BY DEF IInv, TypeOK, GIC_DistInit, GIC_DisableIRQ, GIC_EndInterrupt, Boot, stack, frame, sched
<1>2. BoardInv'
  BY DEF IInv, BoardInv, GIC_DistInit, GIC_DisableIRQ, GIC_EndInterrupt, Boot, Handler, stack, frame, sched
<1> QED BY <1>1, <1>2 DEF IInv, StackInv, CurrentInv, SchedInv, GIC_DistInit, Boot, sched

\* After GIC_CPUInterfaceInit no interrupt is enabled or active.
LEMMA CPUInitStep == ASSUME IInv, GIC_CPUInterfaceInit PROVE IInv'
<1>1. TypeOK'
  BY DEF IInv, TypeOK, GIC_CPUInterfaceInit, GIC_DisableIRQ, GIC_EndInterrupt, Boot, stack, frame, sched
<1>2. IRQs \subseteq Shared \cup 0..31
  BY InterruptAssumption DEF Shared
<1>3. enabled' = {} /\ active' = {}
  BY <1>2 DEF IInv, TypeOK, BoardInv, GIC_CPUInterfaceInit, GIC_DisableIRQ, GIC_EndInterrupt
<1>4. BoardInv'
  BY <1>3 DEF IInv, BoardInv, GIC_CPUInterfaceInit, Boot, Handler, stack, frame, sched
<1> QED BY <1>1, <1>4 DEF IInv, StackInv, CurrentInv, SchedInv, GIC_CPUInterfaceInit, Boot, sched

\* SystemInit enables the four interrupts the code knows.
LEMMA SystemInitStep == ASSUME IInv, SystemInit PROVE IInv'
<1>1. TypeOK'
  BY InterruptAssumption DEF IInv, TypeOK, SystemInit, GIC_EnableIRQ, Boot, stack, frame, sched
<1>2. BoardInv'
  BY DEF IInv, BoardInv, SystemInit, GIC_EnableIRQ, Boot, Handler, stack, frame, sched
<1> QED BY <1>1, <1>2 DEF IInv, StackInv, CurrentInv, SchedInv, SystemInit, Boot, sched

\* UART0_Init leaves the controller alone.
LEMMA UartInitStep == ASSUME IInv, UART0_Init PROVE IInv'
<1>1. TypeOK'
  BY DEF IInv, TypeOK, UART0_Init, Boot, stack, frame, sched, gic
<1>2. BoardInv'
  BY DEF IInv, BoardInv, UART0_Init, Boot, Handler, stack, frame, sched, gic
<1> QED BY <1>1, <1>2 DEF IInv, StackInv, CurrentInv, SchedInv, UART0_Init, Boot, sched

\* config_timers silences timer 0 and the A9 timer.
LEMMA ConfigTimersStep == ASSUME IInv, ConfigTimers PROVE IInv'
<1>1. TypeOK'
  BY DEF IInv, TypeOK, ConfigTimers, Boot, stack, frame, sched, gic
<1>2. sources' = sources \ {HPS_TIMER0_IRQ_ID, A9_TIMER_IRQ_ID}
  BY DEF ConfigTimers, hps_timer_set_irq_mask, a9_timer_set_irq_bit
<1>3. BoardInv'
  BY <1>2 DEF IInv, BoardInv, ConfigTimers, Boot, Handler, stack, frame, sched, gic
<1> QED BY <1>1, <1>3 DEF IInv, StackInv, CurrentInv, SchedInv, ConfigTimers, Boot, sched

\* A new task's stack looks like that of one switched out in an SVC.
LEMMA FirstContextRight ==
  ASSUME NonePrivileged, NEW p \in TCBs, p # Null
  PROVE  FirstContext(p) \in Seq(Contexts) /\ Suspended(p, FirstContext(p))
<1> DEFINE f(kind_, at_) == [kind |-> kind_, at |-> at_, masked |-> FALSE,
                             old |-> p, ret |-> "return"]
<1>1. FirstContext(p) = <<f("svc", "task"), f("switch", "return")>>
  BY DEF FirstContext, NonePrivileged
<1>2. f("svc", "task") \in Contexts /\ f("switch", "return") \in Contexts
  BY DEF Contexts, Kinds, Rets
<1>3. Suspended(p, <<f("svc", "task"), f("switch", "return")>>)
  <2> DEFINE s == <<f("svc", "task"), f("switch", "return")>>
  <2>1. Len(s) = 2 /\ s[1] = f("svc", "task") /\ s[2] = f("switch", "return")
    OBVIOUS
  <2>2. Base(p, s[1]) /\ s[1].kind = "svc"
    BY <2>1 DEF Base
  <2> HIDE DEF s
  <2>3. EnteredTo(p, s, Len(s) - 1)
    BY <2>1, <2>2 DEF EnteredTo
  <2>4. /\ s[Len(s)].kind = "switch" /\ s[Len(s)].at = "return"
        /\ s[1].kind = "svc" /\ Len(s) \in 2..3
    BY <2>1
  <2>5. Suspended(p, s)
    BY <2>1, <2>3, <2>4 DEF Suspended, Rets
  <2> QED BY <2>5 DEF s
<1> QED BY <1>1, <1>2, <1>3

\* k_tsk_init makes every task READY, queued, and switched out.
LEMMA TskInitStep == ASSUME NonePrivileged, IInv, k_tsk_init PROVE IInv'
<1>1. /\ cpu = Null /\ gp_current_task = Null /\ masked /\ enabled = Ours /\ active = {}
      /\ raised = {} /\ sources \cap {HPS_TIMER0_IRQ_ID, A9_TIMER_IRQ_ID} = {} /\ inbox = -1
  BY DEF IInv, BoardInv, k_tsk_init, Boot
<1>2. at' = "task" /\ UNCHANGED <<board, inbox, gp_current_task, ksp, frame>>
  BY DEF k_tsk_init
<1>3. kstack' = [p \in TCBs |-> IF p = Null THEN <<>> ELSE FirstContext(p)]
  BY DEF k_tsk_init
<1>4. <<>> \in Seq(Contexts)
  BY EmptySeq
<1>5. TypeOK'
  BY <1>2, <1>3, <1>4, FirstContextRight
     DEF IInv, TypeOK, k_tsk_init, board, gic, frame
<1>6. BoardInv'
  BY <1>1, <1>2 DEF BoardInv, board, gic, frame, Boot, Handler
<1>7. StackInv'
  BY <1>1, <1>2, <1>3, FirstContextRight, NullIn
     DEF StackInv, frame, Boot, Handler, InCall
<1>8. CurrentInv'
  BY <1>1, <1>2 DEF CurrentInv, frame, Chosen, Boot
<1>9. SchedInv'
  BY <1>1, <1>2, NullIn DEF SchedInv, k_tsk_init, BootQueue, Ready
<1> QED BY <1>5, <1>6, <1>7, <1>8, <1>9 DEF IInv

-----------------------------------------------------------------------------
\* Where no context is pushed or popped, the stacks stay as the place in the
\* kernel requires.
LEMMA InPlace ==
  ASSUME IInv, at \in InCall \cup Handler, at' \in InCall \cup Handler \cup {"return"},
         UNCHANGED <<stack, cpu, masked>>
  PROVE  StackInv'
  BY DEF IInv, StackInv, stack, InCall, Handler, Boot

\* Where the devices are left alone and no interrupt is involved.
LEMMA BoardLeft ==
  ASSUME IInv, at \notin Boot \cup Handler, at' \notin Boot \cup Handler, UNCHANGED board
  PROVE  BoardInv'
  BY DEF IInv, BoardInv, board, gic, Boot, Handler

-----------------------------------------------------------------------------
\* k_tsk_yield: the yielding task leaves the queue.
LEMMA RemoveStep == ASSUME IInv, SchedRemove PROVE IInv'
<1>1. /\ at = "sched_remove" /\ at' = "sched_insert"
      /\ UNCHANGED <<board, inbox, gp_current_task, state, stack, frame>>
  BY DEF SchedRemove
<1>2. TypeOK'
  BY <1>1 DEF IInv, TypeOK, board, gic, stack, frame, InCall
<1>3. StackInv'
  BY <1>1, InPlace DEF frame, InCall
<1>4. BoardInv'
  BY <1>1, BoardLeft DEF Boot, Handler
<1>5. CurrentInv'
  BY <1>1 DEF IInv, CurrentInv, frame, Chosen, Boot
<1>6. SchedInv'
  BY <1>1 DEF IInv, SchedInv, SchedRemove, Remove, Ready, Boot
<1> QED BY <1>2, <1>3, <1>4, <1>5, <1>6 DEF IInv

\* The yielding task is back in the queue, which holds the ready tasks again.
LEMMA InsertStep == ASSUME IInv, SchedInsert PROVE IInv'
<1>1. /\ at = "sched_insert" /\ at' = "scheduler" /\ ret' = "return"
      /\ UNCHANGED <<board, inbox, gp_current_task, state, stack, cpu, masked, old>>
  BY DEF SchedInsert
<1>2. TypeOK'
  BY <1>1 DEF IInv, TypeOK, board, gic, stack, InCall, Rets
<1>3. StackInv'
  BY <1>1, InPlace DEF InCall
<1>4. BoardInv'
  BY <1>1, BoardLeft DEF Boot, Handler
<1>5. CurrentInv'
  BY <1>1 DEF IInv, CurrentInv, Chosen, Boot
<1>6. SchedInv'
  BY <1>1 DEF IInv, SchedInv, SchedInsert, Insert, Ready, Boot
<1> QED BY <1>2, <1>3, <1>4, <1>5, <1>6 DEF IInv

\* k_tsk_run_new: the next task is one of those in the queue.
LEMMA SchedulerStep == ASSUME IInv, Scheduler PROVE IInv'
<1>1. PICK t \in TCBs :
        /\ at = "scheduler" /\ IsTop(queue, PrioOf, t)
        /\ old' = gp_current_task /\ gp_current_task' = t
        /\ at' = IF t = gp_current_task THEN ret ELSE "states"
        /\ UNCHANGED <<board, inbox, state, queue, stack, cpu, masked, ret>>
  BY DEF Scheduler
<1>2. gp_current_task = cpu /\ queue.members = Ready /\ t \in Ready /\ ret \in Rets
      /\ (ret = "k_recv_msg takes" => cpu = KCD)
  BY <1>1 DEF IInv, TypeOK, CurrentInv, SchedInv, IsTop, Boot, Chosen
<1>3. at' \in {"return", "k_recv_msg takes", "states"}
  BY <1>1, <1>2 DEF Rets
<1>4. TypeOK'
  BY <1>1, <1>3 DEF IInv, TypeOK, board, gic, stack, InCall
<1>5. StackInv'
  BY <1>1, <1>3, InPlace DEF InCall
<1>6. BoardInv'
  BY <1>1, <1>3, BoardLeft DEF Boot, Handler
<1>7. CurrentInv'
  BY <1>1, <1>2 DEF CurrentInv, Chosen, Rets
<1>8. SchedInv'
  BY <1>1, <1>2, <1>3 DEF IInv, SchedInv, Ready
<1> QED BY <1>4, <1>5, <1>6, <1>7, <1>8 DEF IInv

\* The chosen task RUNNING, the old one READY: both were queued, and are.
LEMMA StatesStep == ASSUME IInv, States PROVE IInv'
<1>1. /\ at = "states" /\ at' = "k_tsk_switch"
      /\ state' = [state EXCEPT ![gp_current_task] = "RUNNING",
                                ![old] = IF @ \in {"DORMANT", "BLK_MSG"} THEN @ ELSE "READY"]
      /\ UNCHANGED <<board, inbox, gp_current_task, queue, stack, frame>>
  BY DEF States
<1>2. TypeOK'
  BY <1>1 DEF IInv, TypeOK, board, gic, stack, frame, InCall
<1>3. StackInv'
  BY <1>1, InPlace DEF frame, InCall
<1>4. BoardInv'
  BY <1>1, BoardLeft DEF Boot, Handler
<1>5. CurrentInv'
  BY <1>1 DEF IInv, CurrentInv, frame, Chosen, Boot
<1>6. gp_current_task # old /\ gp_current_task \in Ready
  BY <1>1 DEF IInv, CurrentInv, SchedInv, Chosen, Boot
<1>7. Ready' = Ready
  BY <1>1, <1>6 DEF IInv, TypeOK, Ready
<1>8. SchedInv'
  BY <1>1, <1>6, <1>7 DEF IInv, SchedInv, Boot
<1> QED BY <1>2, <1>3, <1>4, <1>5, <1>8 DEF IInv

\* mbx_create gives the KCD task an empty mailbox.
LEMMA MbxStep == ASSUME IInv, MbxCreate PROVE IInv'
<1>1. /\ at = "k_mbx_create" /\ at' = "return" /\ inbox' = 0
      /\ UNCHANGED <<board, sched, stack, frame>>
  BY DEF MbxCreate
<1>2. TypeOK'
  BY <1>1 DEF IInv, TypeOK, board, gic, sched, stack, frame
<1>3. StackInv'
  BY <1>1, InPlace DEF frame, InCall
<1>4. BoardInv'
  BY <1>1, BoardLeft DEF Boot, Handler
<1>5. CurrentInv' /\ cpu = KCD
  BY <1>1 DEF IInv, CurrentInv, sched, frame, Chosen, Boot
<1>6. SchedInv'
  BY <1>1, <1>5 DEF IInv, TypeOK, SchedInv, sched, Ready, Boot
<1> QED BY <1>2, <1>3, <1>4, <1>5, <1>6 DEF IInv

\* The receiver blocks, and leaves the queue.
LEMMA RecvEmptyStep == ASSUME IInv, RecvEmpty PROVE IInv'
<1>1. /\ at = "k_recv_msg" /\ at' = "scheduler" /\ ret' = "k_recv_msg takes"
      /\ state' = [state EXCEPT ![gp_current_task] = "BLK_MSG"]
      /\ queue' = Remove(queue, gp_current_task)
      /\ UNCHANGED <<board, inbox, gp_current_task, stack, cpu, masked, old>>
  BY DEF RecvEmpty
<1>2. TypeOK'
  BY <1>1 DEF IInv, TypeOK, board, gic, stack, InCall, Rets
<1>3. StackInv'
  BY <1>1, InPlace DEF InCall
<1>4. BoardInv'
  BY <1>1, BoardLeft DEF Boot, Handler
<1>5. CurrentInv'
  BY <1>1 DEF IInv, CurrentInv, Chosen, Boot
<1>6. Ready' = Ready \ {gp_current_task}
  BY <1>1 DEF IInv, TypeOK, Ready
<1>7. SchedInv'
  BY <1>1, <1>6 DEF IInv, SchedInv, Remove, Boot
<1> QED BY <1>2, <1>3, <1>4, <1>5, <1>7 DEF IInv

\* The receiver takes a message.
LEMMA RecvTakesStep == ASSUME IInv, RecvTakes PROVE IInv'
<1>1. /\ at \in {"k_recv_msg", "k_recv_msg takes"} /\ at' = "return" /\ inbox' = inbox - 1
      /\ UNCHANGED <<board, sched, stack, frame>>
  BY DEF RecvTakes
<1>2. TypeOK'
  <2>1. inbox \in Int
    BY DEF IInv, TypeOK
  <2>2. inbox' = inbox - 1
    BY <1>1
  <2>3. inbox' \in Int
    BY <2>1, <2>2, Sums, Zenon
  <2> QED BY <1>1, <2>3 DEF IInv, TypeOK, board, gic, sched, stack, frame
<1>3. StackInv'
  BY <1>1, InPlace DEF frame, InCall
<1>4. BoardInv'
  BY <1>1, BoardLeft DEF Boot, Handler
<1>5. CurrentInv' /\ cpu = KCD
  BY <1>1 DEF IInv, CurrentInv, sched, frame, Chosen, Boot
<1>6. SchedInv'
  BY <1>1, <1>5 DEF IInv, TypeOK, SchedInv, sched, Ready, Boot
<1> QED BY <1>2, <1>3, <1>4, <1>5, <1>6 DEF IInv

\* The drain loop wakes the KCD task and queues it.
LEMMA DrainStep == ASSUME IInv, Drain PROVE IInv'
<1>1. /\ at = "c_IRQ_Handler" /\ active = {UART0_Rx_IRQ_ID}
      /\ UNCHANGED <<gic, sources, raised, gp_current_task, stack, frame, at>>
  BY DEF Drain
<1>2. \/ UNCHANGED <<inbox, state, queue>>
      \/ inbox \in 0..(InboxMax - 1) /\ inbox' = inbox + 1 /\ UNCHANGED <<state, queue>>
      \/ /\ inbox \in 0..(InboxMax - 1) /\ inbox' = inbox + 1
         /\ state[KCD] = "BLK_MSG" /\ state' = [state EXCEPT ![KCD] = "READY"]
         /\ queue' = Insert(queue, KCD)
  BY DEF Drain
<1>3. inbox \in 0..(InboxMax - 1) => KCD \in TCBs /\ inbox' \in Int
  BY <1>2, InterruptAssumption DEF IInv, SchedInv
<1>4. TypeOK'
  BY <1>1, <1>2, <1>3 DEF IInv, TypeOK, gic, stack, frame
<1>5. StackInv'
  BY <1>1, InPlace DEF frame, Handler
<1>6. BoardInv'
  BY <1>1 DEF IInv, BoardInv, gic, frame, Boot, Handler
<1>7. CurrentInv'
  BY <1>1 DEF IInv, CurrentInv, frame, Chosen, Boot
<1>8. SchedInv'
  BY <1>1, <1>2, <1>3 DEF IInv, TypeOK, SchedInv, Insert, Ready, Boot
<1> QED BY <1>4, <1>5, <1>6, <1>7, <1>8 DEF IInv

\* The drain loop ends.
LEMMA DrainedStep == ASSUME IInv, Drained PROVE IInv'
<1>1. /\ at = "c_IRQ_Handler" /\ at' = "GIC_EndInterrupt" /\ ret' = "return"
      /\ UNCHANGED <<board, inbox, sched, stack, cpu, masked, old>>
  BY DEF Drained
<1>2. TypeOK'
  BY <1>1 DEF IInv, TypeOK, board, gic, sched, stack, Handler, Rets
<1>3. StackInv'
  BY <1>1, InPlace DEF Handler
<1>4. BoardInv'
  BY <1>1 DEF IInv, BoardInv, board, gic, sched, stack, Boot, Handler
<1>5. CurrentInv'
  BY <1>1 DEF IInv, CurrentInv, sched, Chosen, Boot
<1>6. SchedInv'
  BY <1>1 DEF IInv, SchedInv, sched, Ready, Boot
<1> QED BY <1>2, <1>3, <1>4, <1>5, <1>6 DEF IInv

\* The branch of timer 1.
LEMMA TimerStep == ASSUME IInv, TimerCleared PROVE IInv'
<1>1. /\ at = "c_IRQ_Handler" /\ at' = "GIC_EndInterrupt" /\ raised' \subseteq raised
      /\ active # {UART0_Rx_IRQ_ID}
      /\ UNCHANGED <<gic, sources, rx, inbox, sched, stack, frame>>
  BY DEF TimerCleared
<1>2. TypeOK'
  BY <1>1 DEF IInv, TypeOK, gic, sched, stack, frame, Handler
<1>3. StackInv'
  BY <1>1, InPlace DEF frame, Handler
<1>4. BoardInv'
  BY <1>1 DEF IInv, BoardInv, gic, sched, stack, frame, Boot, Handler
<1>5. CurrentInv'
  BY <1>1 DEF IInv, BoardInv, CurrentInv, sched, frame, gic, Chosen, Boot
<1>6. SchedInv'
  BY <1>1 DEF IInv, SchedInv, sched, frame, Ready, Boot
<1> QED BY <1>2, <1>3, <1>4, <1>5, <1>6 DEF IInv

\* The interrupt is ended before the handler reschedules.
LEMMA EndStep == ASSUME IInv, EndInterrupt PROVE IInv'
<1>1. /\ at = "GIC_EndInterrupt" /\ active' = {}
      /\ at' = IF active = {UART0_Rx_IRQ_ID} THEN "scheduler" ELSE "return"
      /\ UNCHANGED <<enabled, sources, raised, rx, inbox, sched, stack, frame>>
  BY DEF EndInterrupt, GIC_EndInterrupt
<1>2. at' \in {"scheduler", "return"}
  BY <1>1
<1>3. TypeOK'
  BY <1>1, <1>2 DEF IInv, TypeOK, sched, stack, frame, InCall
<1>4. StackInv'
  BY <1>1, <1>2, InPlace DEF frame, Handler, InCall
<1>5. BoardInv'
  BY <1>1, <1>2 DEF IInv, BoardInv, sched, stack, frame, Boot, Handler
<1>6. CurrentInv'
  BY <1>1, <1>2 DEF IInv, CurrentInv, sched, frame, Chosen, Boot
<1> QED BY <1>1, <1>2, <1>3, <1>4, <1>5, <1>6 DEF IInv, SchedInv, sched, frame, Ready, Boot

-----------------------------------------------------------------------------
\* The steps that push or pop.  What is saved is a context.
LEMMA SavedType ==
  ASSUME TypeOK, NEW k \in Kinds, NEW a \in Rets \cup {"task"}
  PROVE  Saved(k, a) \in Contexts
  BY DEF Saved, Contexts, TypeOK

\* A task enters the kernel: the context of its own code goes on its stack.
LEMMA CallsStep ==
  ASSUME NonePrivileged, IInv, NEW place, Calls(place),
         place \in {"sched_remove", "k_mbx_create", "k_recv_msg"},
         place # "sched_remove" => cpu = KCD
  PROVE  IInv'
<1> DEFINE f == Saved(IF Unprivileged(cpu) THEN "svc" ELSE "call", "task")
<1>1. /\ at = "task" /\ at' = place
      /\ kstack' = [kstack EXCEPT ![cpu] = Append(@, f)]
      /\ masked' = (masked \/ Unprivileged(cpu))
      /\ UNCHANGED <<board, inbox, sched, ksp, cpu, old, ret>>
  BY DEF Calls, Push
<1>2. TypeOK /\ cpu \in TCBs /\ kstack[cpu] = <<>> /\ (masked <=> cpu = Null)
  BY <1>1 DEF IInv, TypeOK, StackInv, Boot
<1>3. Unprivileged(cpu) <=> cpu # Null
  BY DEF Unprivileged, NonePrivileged
<1>4. f \in Contexts /\ Base(cpu, f)
  <2>1. f \in Contexts
    BY <1>2, SavedType DEF Kinds
  <2>2. f.kind # "switch" /\ f.at = "task" /\ f.masked = masked
    BY DEF Saved
  <2> QED BY <1>2, <2>1, <2>2 DEF Base
<1>5. kstack'[cpu] = <<f>> /\ Len(<<f>>) = 1 /\ <<f>>[1] = f /\ <<f>> \in Seq(Contexts)
  <2>1. Append(<<>>, f) = <<f>>
    OBVIOUS
  <2> QED BY <1>1, <1>2, <1>4, <2>1 DEF TypeOK
<1> HIDE DEF f
<1>6. masked'
  BY <1>1, <1>2, <1>3
<1>7. TypeOK'
  BY <1>1, <1>2, <1>5, <1>6 DEF TypeOK, board, gic, sched, InCall
<1>8. BoardInv'
  BY <1>1, BoardLeft DEF Boot, Handler
<1>9. StackInv'
  <2>1. Entered(cpu, kstack'[cpu])
    BY <1>4, <1>5 DEF Entered, EnteredTo
  <2>2. \A p \in TCBs \ {cpu} : kstack'[p] = kstack[p] /\ Suspended(p, kstack[p])
    BY <1>1, <1>2 DEF IInv, StackInv, TypeOK, Boot
  <2> QED BY <1>1, <1>6, <2>1, <2>2 DEF StackInv, InCall
<1>10. CurrentInv'
  BY <1>1 DEF IInv, CurrentInv, sched, Chosen, Boot
<1> QED BY <1>1, <1>7, <1>8, <1>9, <1>10 DEF IInv, SchedInv, sched, Ready, Boot

\* The context saved last is restored.
LEMMA ReturnsStep == ASSUME IInv, Returns PROVE IInv'
<1> DEFINE s == kstack[cpu]
<1> DEFINE f == s[Len(s)]
<1>1. /\ at = "return" /\ kstack' = [kstack EXCEPT ![cpu] = Bottom(s)]
      /\ at' = f.at /\ masked' = f.masked /\ old' = f.old /\ ret' = f.ret
      /\ UNCHANGED <<board, inbox, sched, ksp, cpu>>
  BY DEF Returns, Top
<1>2. TypeOK /\ cpu \in TCBs /\ s \in Seq(Contexts) /\ Entered(cpu, s)
  BY <1>1 DEF IInv, TypeOK, StackInv, Boot
<1>3. Len(s) \in 1..2
  BY <1>2 DEF Entered, EnteredTo
<1>4. /\ Bottom(s) \in Seq(Contexts) /\ Len(Bottom(s)) = Len(s) - 1
      /\ \A i \in 1..(Len(s) - 1) : Bottom(s)[i] = s[i]
      /\ f \in Contexts
  <2>1. Len(s) > 0
    BY <1>3
  <2> HIDE DEF s
  <2> QED BY <1>2, <2>1, Popped
<1> HIDE DEF f, s
<1>5. kstack'[cpu] = Bottom(s) /\ \A p \in TCBs \ {cpu} : kstack'[p] = kstack[p]
  BY <1>1, <1>2 DEF TypeOK
<1>6. \/ Len(s) = 1 /\ f.at = "task" /\ (f.masked <=> cpu = Null) /\ Bottom(s) = <<>>
      \/ /\ Len(s) = 2 /\ f.at = "return" /\ ~f.masked /\ cpu # Null
         /\ Base(cpu, Bottom(s)[1]) /\ Bottom(s)[1].kind = "svc" /\ Len(Bottom(s)) = 1
  <2>1. CASE Len(s) = 1
    <3>1. Base(cpu, f)
      BY <1>2, <2>1 DEF Entered, EnteredTo, f
    <3>2. Bottom(s) = <<>>
      BY <1>4, <2>1, EmptySeq
    <3> QED BY <2>1, <3>1, <3>2 DEF Base
  <2>2. CASE Len(s) = 2
    <3>1. cpu # Null /\ Base(cpu, s[1]) /\ s[1].kind = "svc" /\ Inner(f)
      BY <1>2, <2>2 DEF Entered, EnteredTo, f
    <3>2. Bottom(s)[1] = s[1] /\ Len(Bottom(s)) = 1
      BY <1>4, <2>2
    <3> QED BY <2>2, <3>1, <3>2 DEF Inner
  <2> QED BY <1>3, <2>1, <2>2
<1>7. TypeOK'
  <2>1. f.masked \in BOOLEAN /\ f.old \in TCBs /\ f.ret \in Rets /\ f.at \in Rets \cup {"task"}
    BY <1>4 DEF Contexts
  <2> QED BY <1>1, <1>2, <1>4, <1>5, <1>6, <2>1 DEF TypeOK, board, gic, sched
<1>8. at' \in {"task", "return"}
  BY <1>1, <1>6
<1>9. BoardInv'
  BY <1>1, <1>8, BoardLeft DEF Boot, Handler
<1>10. StackInv'
  <2>1. \A p \in TCBs \ {cpu} : Suspended(p, kstack'[p])
    BY <1>1, <1>5 DEF IInv, StackInv, Boot
  <2>2. at' # "task" => Entered(cpu, kstack'[cpu])
    BY <1>1, <1>5, <1>6 DEF Entered, EnteredTo
  <2> QED BY <1>1, <1>5, <1>6, <1>8, <2>1, <2>2 DEF StackInv, InCall, Handler
<1>11. CurrentInv'
  BY <1>1, <1>8 DEF IInv, CurrentInv, sched, Chosen, Boot
<1> QED BY <1>1, <1>7, <1>8, <1>9, <1>10, <1>11 DEF IInv, SchedInv, sched, Ready, Boot

\* k_tsk_switch: one task's stack gets a context, another's loses one.
LEMMA SwitchStep == ASSUME IInv, Switch PROVE IInv'
<1> DEFINE to == gp_current_task
<1> DEFINE s == kstack[to]
<1> DEFINE f == s[Len(s)]
<1> DEFINE g == Saved("switch", ret)
<1>1. at = "k_tsk_switch" /\ TypeOK /\ cpu \in TCBs /\ to \in TCBs /\ to # cpu
      /\ old = cpu /\ ksp[to] = to /\ masked
      /\ (ret = "k_recv_msg takes" => cpu = KCD) /\ ret \in Rets
  BY DEF IInv, TypeOK, StackInv, CurrentInv, Switch, Boot, Chosen, InCall
<1>2. /\ kstack' = [kstack EXCEPT ![cpu] = Append(@, g), ![to] = Bottom(@)]
      /\ ksp' = [ksp EXCEPT ![cpu] = cpu]
      /\ cpu' = to /\ at' = f.at /\ masked' = f.masked /\ old' = f.old /\ ret' = f.ret
      /\ UNCHANGED <<board, inbox, sched>>
  BY <1>1 DEF Switch, Top
<1>3. Suspended(to, s) /\ Entered(cpu, kstack[cpu])
      /\ s \in Seq(Contexts) /\ kstack[cpu] \in Seq(Contexts)
  BY <1>1 DEF IInv, TypeOK, StackInv, Boot
<1>4. Len(s) \in 2..3 /\ EnteredTo(to, s, Len(s) - 1) /\ f.at \in Rets
      /\ (f.at = "k_recv_msg takes" => to = KCD)
      /\ (~f.masked => f.at = "return" /\ to # Null /\ Len(s) = 2 /\ s[1].kind = "svc")
  BY <1>3 DEF Suspended
<1>5. /\ Bottom(s) \in Seq(Contexts) /\ Len(Bottom(s)) = Len(s) - 1
      /\ \A i \in 1..(Len(s) - 1) : Bottom(s)[i] = s[i]
      /\ f \in Contexts
  <2> HIDE DEF s
  <2>1. Len(s) > 0
    BY <1>4, Sums, Zenon
  <2> QED BY <1>3, <2>1, Popped
<1>6. g \in Contexts /\ g.kind = "switch" /\ g.at = ret /\ g.masked = masked
  BY <1>1, SavedType DEF Saved, Kinds
<1> DEFINE a == Append(kstack[cpu], g)
<1>7. /\ a \in Seq(Contexts) /\ Len(a) = Len(kstack[cpu]) + 1
      /\ \A i \in 1..Len(kstack[cpu]) : a[i] = kstack[cpu][i]
      /\ a[Len(kstack[cpu]) + 1] = g
  <2> HIDE DEF g
  <2> QED BY <1>3, <1>6, Pushed
<1>8. kstack'[cpu] = a /\ kstack'[to] = Bottom(s)
      /\ \A p \in TCBs \ {cpu, to} : kstack'[p] = kstack[p]
  BY <1>1, <1>2 DEF TypeOK
<1> HIDE DEF f, g, a, s
<1>9. Suspended(cpu, a)
  <2>1. Len(kstack[cpu]) \in 1..2
    BY <1>3 DEF Entered, EnteredTo
  <2>2. Len(a) - 1 = Len(kstack[cpu]) /\ Len(a) \in 2..3 /\ a[Len(a)] = g
    BY <1>7, <2>1, Sums, Zenon
  <2>3. EnteredTo(cpu, a, Len(a) - 1)
    <3>1. CASE Len(kstack[cpu]) = 1
      BY <1>3, <1>7, <2>2, <3>1 DEF Entered, EnteredTo
    <3>2. CASE Len(kstack[cpu]) = 2
      BY <1>3, <1>7, <2>2, <3>2 DEF Entered, EnteredTo
    <3> QED BY <2>1, <3>1, <3>2
  <2> QED BY <1>1, <1>6, <2>2, <2>3 DEF Suspended
<1>10. Entered(to, Bottom(s)) /\ (Len(s) = 2 => Len(Bottom(s)) = 1 /\ Bottom(s)[1] = s[1])
  <2>1. CASE Len(s) = 2
    <3>1. Len(Bottom(s)) = 1 /\ Bottom(s)[1] = s[1] /\ EnteredTo(to, s, 1)
      BY <1>4, <1>5, <2>1, Sums, Zenon
    <3> QED BY <3>1 DEF Entered, EnteredTo
  <2>2. CASE Len(s) = 3
    <3>1. /\ Len(Bottom(s)) = 2 /\ EnteredTo(to, s, 2)
          /\ Bottom(s)[1] = s[1] /\ Bottom(s)[2] = s[2]
      BY <1>4, <1>5, <2>2, Sums, Zenon
    <3> QED BY <2>2, <3>1 DEF Entered, EnteredTo
  <2> QED BY <1>4, <2>1, <2>2, Sums, Zenon
<1>11. TypeOK'
  <2>1. f.masked \in BOOLEAN /\ f.old \in TCBs /\ f.ret \in Rets
    BY <1>5 DEF Contexts
  <2>2. kstack' \in [TCBs -> Seq(Contexts)]
    BY <1>1, <1>2, <1>5, <1>7, <1>8 DEF TypeOK, a, s
  <2>3. ksp' = ksp /\ at' \in {"return", "k_recv_msg takes"}
    BY <1>1, <1>2, <1>4 DEF TypeOK, Rets
  <2> QED BY <1>1, <1>2, <2>1, <2>2, <2>3 DEF TypeOK, board, gic, sched, InCall
<1>12. at' \in {"return", "k_recv_msg takes"}
  BY <1>2, <1>4 DEF Rets
<1>13. BoardInv'
  BY <1>1, <1>2, <1>12, BoardLeft DEF Boot, Handler
<1>14. StackInv'
  <2>1. \A p \in TCBs \ {to} : Suspended(p, kstack'[p])
    BY <1>1, <1>8, <1>9 DEF IInv, StackInv, Boot
  <2>2. ~f.masked => Len(kstack'[to]) = 1 /\ kstack'[to][1].kind = "svc"
    BY <1>4, <1>8, <1>10, Zenon
  <2>3. at' = "k_recv_msg takes" => masked'
    BY <1>2, <1>4
  <2>4. ~masked' => at' = "return" /\ to # Null
    BY <1>2, <1>4
  <2> QED BY <1>2, <1>8, <1>10, <1>12, <2>1, <2>2, <2>3, <2>4 DEF StackInv, InCall, Handler
<1>15. CurrentInv'
  BY <1>1, <1>2, <1>4, <1>12 DEF CurrentInv, sched, Chosen
<1>16. SchedInv'
  BY <1>1, <1>2, <1>12 DEF IInv, SchedInv, sched, Ready, Boot
<1> QED BY <1>11, <1>13, <1>14, <1>15, <1>16 DEF IInv

\* An interrupt is taken.
LEMMA TakenStep == ASSUME IInv, NEW i \in IRQs, IrqTaken(i) PROVE IInv'
<1> DEFINE g == Saved("irq", at)
<1> DEFINE s == kstack[cpu]
<1>1. /\ ~masked /\ Pending(i) /\ active = {} /\ active' = {i}
      /\ kstack' = [kstack EXCEPT ![cpu] = Append(@, g)]
      /\ masked' /\ at' = "c_IRQ_Handler"
      /\ UNCHANGED <<enabled, sources, raised, rx, inbox, sched, ksp, cpu, old, ret>>
  BY DEF IrqTaken, Push, GIC_AckPending
<1>2. at \in {"task", "return"} /\ TypeOK /\ cpu \in TCBs /\ s \in Seq(Contexts)
  BY <1>1 DEF IInv, TypeOK, BoardInv, StackInv, InCall
<1>3. g \in Contexts /\ g.kind = "irq" /\ g.at = at /\ g.masked = masked
  BY <1>2, SavedType DEF Saved, Kinds, Rets
<1>4. /\ Append(s, g) \in Seq(Contexts) /\ Len(Append(s, g)) = Len(s) + 1
      /\ \A j \in 1..Len(s) : Append(s, g)[j] = s[j]
      /\ Append(s, g)[Len(s) + 1] = g
  <2> HIDE DEF g, s
  <2> QED BY <1>2, <1>3, Pushed
<1>5. kstack'[cpu] = Append(s, g) /\ \A p \in TCBs \ {cpu} : kstack'[p] = kstack[p]
  BY <1>1, <1>2 DEF TypeOK
<1> HIDE DEF g
<1>6. Entered(cpu, kstack'[cpu])
  <2>1. CASE at = "task"
    <3>1. s = <<>> /\ cpu # Null /\ Len(s) = 0
      BY <1>1, <2>1 DEF IInv, StackInv, Boot
    <3> QED BY <1>1, <1>3, <1>4, <1>5, <2>1, <3>1 DEF Entered, EnteredTo, Base
  <2>2. CASE at = "return"
    <3>1. cpu # Null /\ Len(s) = 1 /\ s[1].kind = "svc" /\ Entered(cpu, s)
      BY <1>1, <2>2 DEF IInv, StackInv, Boot
    <3>2. Base(cpu, s[1])
      BY <3>1 DEF Entered, EnteredTo
    <3>3. Inner(g)
      BY <1>1, <1>3, <2>2 DEF Inner
    <3>4. Append(s, g)[1] = s[1] /\ Append(s, g)[2] = g /\ Len(Append(s, g)) = 2
      BY <1>4, <3>1
    <3> QED BY <1>5, <3>1, <3>2, <3>3, <3>4 DEF Entered, EnteredTo
  <2> QED BY <1>2, <2>1, <2>2
<1>7. TypeOK'
  BY <1>1, <1>2, <1>4, <1>5 DEF TypeOK, sched, Handler
<1>8. i \in {UART0_Rx_IRQ_ID, HPS_TIMER1_IRQ_ID}
  BY <1>1, <1>2 DEF IInv, BoardInv, Pending, Boot
<1>9. BoardInv'
  BY <1>1, <1>2, <1>8 DEF IInv, BoardInv, sched, Boot, Handler
<1>10. StackInv'
  <2>1. \A p \in TCBs \ {cpu} : Suspended(p, kstack'[p])
    BY <1>2, <1>5 DEF IInv, StackInv, Boot
  <2> QED BY <1>1, <1>6, <2>1 DEF StackInv
<1>11. CurrentInv'
  BY <1>1, <1>2 DEF IInv, CurrentInv, sched, Chosen, Boot
<1> QED BY <1>1, <1>2, <1>7, <1>9, <1>10, <1>11 DEF IInv, SchedInv, sched, Ready, Boot

\* The devices change nothing but themselves.
LEMMA DeviceStep ==
  ASSUME IInv, UNCHANGED <<gic, sources, inbox, sched, stack, frame, at>>,
         raised' = raised \/ \E i \in IRQs : Raises(i)
  PROVE  IInv'
<1>1. UNCHANGED <<enabled, active, sources, inbox, gp_current_task, state, queue,
                  kstack, ksp, cpu, masked, old, ret, at>>
  BY DEF gic, sched, stack, frame
<1>2. TypeOK' /\ StackInv' /\ CurrentInv' /\ SchedInv'
  BY <1>1 DEF IInv, TypeOK, StackInv, CurrentInv, SchedInv, Ready
<1>3. BoardInv'
  <2>1. raised' = raised \/ (at = "task" /\ raised' \subseteq raised \cup {HPS_TIMER1_IRQ_ID})
    BY DEF IInv, BoardInv, Raises, Ours, Boot
  <2> QED BY <1>1, <2>1 DEF IInv, BoardInv, Boot, Handler
<1> QED BY <1>2, <1>3 DEF IInv

-----------------------------------------------------------------------------
\* Every step keeps the invariant.
LEMMA NextStep == ASSUME NonePrivileged, IInv, [Next]_vars PROVE IInv'
<1>1. CASE GIC_DistInit \/ GIC_CPUInterfaceInit \/ SystemInit \/ UART0_Init
           \/ ConfigTimers \/ k_tsk_init
  BY <1>1, DistInitStep, CPUInitStep, SystemInitStep, UartInitStep, ConfigTimersStep, TskInitStep
<1>2. CASE YieldCalled
  BY <1>2, CallsStep DEF YieldCalled
<1>3. CASE MbxCalled
  BY <1>3, CallsStep DEF MbxCalled
<1>4. CASE RecvCalled
  BY <1>4, CallsStep DEF RecvCalled
<1>5. CASE SchedRemove \/ SchedInsert \/ Scheduler \/ States \/ Switch \/ Returns
  BY <1>5, RemoveStep, InsertStep, SchedulerStep, StatesStep, SwitchStep, ReturnsStep
<1>6. CASE MbxCreate \/ RecvEmpty \/ RecvTakes
  BY <1>6, MbxStep, RecvEmptyStep, RecvTakesStep
<1>7. CASE Drain \/ Drained \/ TimerCleared \/ EndInterrupt
  BY <1>7, DrainStep, DrainedStep, TimerStep, EndStep
<1>8. CASE Arrives
  BY <1>8, DeviceStep DEF Arrives
<1>9. CASE \E i \in IRQs : Raises(i)
  BY <1>9, DeviceStep DEF Raises
<1>10. CASE \E i \in IRQs : IrqTaken(i)
  BY <1>10, TakenStep
<1>11. CASE UNCHANGED vars
  BY <1>11, DeviceStep DEF vars, board
<1> QED BY <1>1, <1>2, <1>3, <1>4, <1>5, <1>6, <1>7, <1>8, <1>9, <1>10, <1>11 DEF Next, Executes

\* The invariant the theorems below follow from.
THEOREM Invariance == ASSUME NonePrivileged PROVE Spec => []IInv
<1>1. IInv /\ [Next]_vars => IInv'
  BY NextStep
<1> QED BY <1>1, InitInv, PTL DEF Spec

\* Whatever the boot loader left behind, the handler has to do with the UART and
\* timer 1 only (k_rtx_init.c:51-55, interrupt.c:63).
THEOREM OnlyKnownInterrupts == ASSUME NonePrivileged PROVE Spec => []KnownInterrupts
<1>1. IInv => KnownInterrupts
  BY DEF IInv, BoardInv, KnownInterrupts, Handler
<1> QED BY <1>1, Invariance, PTL

\* No task runs while an interrupt is active (HAL_CA.c:291-296).
THEOREM InterruptsEnd == ASSUME NonePrivileged PROVE Spec => []EndedBeforeTasks
<1>1. IInv => EndedBeforeTasks
  BY DEF IInv, BoardInv, EndedBeforeTasks, Boot, Handler
<1> QED BY <1>1, Invariance, PTL

\* Only the null task runs with IRQs masked (k_HAL_CA.h:68, main_svc_cw.c:86).
THEOREM TasksUnmasked == ASSUME NonePrivileged PROVE Spec => []OnlyNullMasked
<1>1. IInv => OnlyNullMasked
  BY DEF IInv, StackInv, OnlyNullMasked, Boot
<1> QED BY <1>1, Invariance, PTL

\* While a task runs, every other READY task is in the scheduler's queue
\* (k_task.c:409): without privileged tasks the critical section is one.
THEOREM NoTaskLost == ASSUME NonePrivileged PROVE Spec => []NoneLost
<1>1. IInv => NoneLost
  BY DEF IInv, SchedInv, NoneLost, Ready, Boot
<1> QED BY <1>1, Invariance, PTL

-----------------------------------------------------------------------------
\* A set without two different elements has none or one.
LEMMA OneAtMost ==
  ASSUME NEW S, \A i, j \in S : i = j
  PROVE  Cardinality(S) \in {0, 1}
<1>1. CASE S = {}
  BY <1>1, FS_EmptySet
<1>2. CASE S # {}
  <2>1. PICK i \in S : TRUE
    BY <1>2
  <2>2. S = {i}
    BY <2>1
  <2> QED BY <2>2, FS_Singleton
<1> QED BY <1>1, <1>2

\* Four different contexts fill less than half of a kernel stack.
LEMMA Half ==
  ASSUME NEW s, Len(s) \in Nat,
         \A i, j \in 1..Len(s) : s[i].kind = s[j].kind => i = j
  PROVE  BytesOf(s) <= K_STACK_SIZE \div 2
<1> DEFINE count(k) == Cardinality({i \in 1..Len(s) : s[i].kind = k})
<1>1. ASSUME NEW k PROVE count(k) \in {0, 1}
  <2> DEFINE S == {i \in 1..Len(s) : s[i].kind = k}
  <2>1. \A i, j \in S : i = j
    OBVIOUS
  <2> HIDE DEF S
  <2>2. Cardinality(S) \in {0, 1}
    BY <2>1, OneAtMost
  <2> QED BY <2>2 DEF S
<1>2. count("svc") \in {0, 1} /\ count("irq") \in {0, 1} /\ count("switch") \in {0, 1}
      /\ count("call") \in {0, 1}
  BY <1>1
<1>3. BytesOf(s) = 64 * count("svc") + 72 * count("irq") + 60 * count("switch") + 8 * count("call")
  BY DEF BytesOf, Bytes
<1> HIDE DEF count
<1> QED BY <1>2, <1>3 DEF K_STACK_SIZE

\* The contexts on one stack are of different kinds.
LEMMA KindsDiffer ==
  ASSUME NEW p, NEW s \in Seq(Contexts), Entered(p, s) \/ Suspended(p, s)
  PROVE  \A i, j \in 1..Len(s) : s[i].kind = s[j].kind => i = j
<1> DEFINE n == Len(s)
<1>1. n \in Nat
  BY LenProperties
<1>2. n = 1 \/ (n = 2 /\ s[1].kind # s[2].kind)
      \/ (n = 3 /\ s[1].kind # s[2].kind /\ s[1].kind # s[3].kind /\ s[2].kind # s[3].kind)
  <2>1. CASE Entered(p, s)
    BY <2>1 DEF Entered, EnteredTo, Inner
  <2>2. CASE Suspended(p, s)
    <3>1. n \in 2..3 /\ s[n].kind = "switch" /\ EnteredTo(p, s, n - 1)
      BY <2>2 DEF Suspended
    <3>2. CASE n = 2
      <4>1. EnteredTo(p, s, 1)
        BY <3>1, <3>2, Sums, Zenon
      <4> QED BY <3>1, <3>2, <4>1 DEF EnteredTo, Base
    <3>3. CASE n = 3
      <4>1. EnteredTo(p, s, 2)
        BY <3>1, <3>3, Sums, Zenon
      <4> QED BY <3>1, <3>3, <4>1 DEF EnteredTo, Inner
    <3> QED BY <3>1, <3>2, <3>3, Sums, Zenon
  <2> QED BY <2>1, <2>2
<1> HIDE DEF n
<1>3. ASSUME NEW i \in 1..n, NEW j \in 1..n, s[i].kind = s[j].kind PROVE i = j
  <2>1. n = 1 \/ n = 2 \/ n = 3
    BY <1>2
  <2>2. (n = 1 => i = 1 /\ j = 1) /\ (n = 2 => i \in {1, 2} /\ j \in {1, 2})
        /\ (n = 3 => i \in {1, 2, 3} /\ j \in {1, 2, 3})
    BY <2>1
  <2>3. CASE n = 1
    BY <2>2, <2>3
  <2>4. CASE n = 2
    BY <1>2, <1>3, <2>2, <2>4
  <2>5. CASE n = 3
    BY <1>2, <1>3, <2>2, <2>5
  <2> QED BY <2>1, <2>3, <2>4, <2>5
<1> QED BY <1>3 DEF n

\* A task's own code runs on its own empty kernel stack, every other task's has
\* a switched-out context on top, and no stack gets half full.
THEOREM ContextsNest == ASSUME NonePrivileged PROVE Spec => []ContextsRight
<1>1. ASSUME IInv, NEW p \in TCBs PROVE BytesOf(kstack[p]) <= K_STACK_SIZE \div 2
  <2> DEFINE s == kstack[p]
  <2>1. s \in Seq(Contexts)
    BY <1>1 DEF IInv, TypeOK
  <2>2. s = <<>> \/ Entered(p, s) \/ Suspended(p, s)
    BY <1>1 DEF IInv, BoardInv, StackInv
  <2> HIDE DEF s
  <2>3. Len(s) \in Nat
    BY <2>1, LenProperties
  <2>4. \A i, j \in 1..Len(s) : s[i].kind = s[j].kind => i = j
    <3>1. CASE s = <<>>
      <4>1. Len(s) = 0
        BY <3>1
      <4> QED BY <4>1
    <3>2. CASE Entered(p, s) \/ Suspended(p, s)
      BY <2>1, <3>2, KindsDiffer
    <3> QED BY <2>2, <3>1, <3>2
  <2>5. BytesOf(s) <= K_STACK_SIZE \div 2
    BY <2>3, <2>4, Half
  <2> QED BY <2>5 DEF s
<1>2. ASSUME IInv, at = "task", NEW p \in TCBs \ {cpu}
      PROVE  kstack[p] # <<>> /\ Top(p).kind = "switch" /\ ksp[p] = p
  <2>1. Suspended(p, kstack[p]) /\ ksp[p] = p
    BY <1>2 DEF IInv, TypeOK, StackInv, Boot
  <2>2. Len(kstack[p]) \in 2..3 /\ Top(p).kind = "switch"
    BY <2>1 DEF Suspended, Top
  <2>3. kstack[p] # <<>>
    BY <2>2
  <2> QED BY <2>1, <2>2, <2>3
<1>3. ASSUME IInv, at = "task" PROVE cpu = gp_current_task /\ kstack[cpu] = <<>>
  BY <1>3 DEF IInv, StackInv, CurrentInv, Boot, Chosen
<1>4. IInv => ContextsRight
  BY <1>1, <1>2, <1>3 DEF ContextsRight
<1> QED BY <1>4, Invariance, PTL
=============================================================================
