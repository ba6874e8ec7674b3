----------------------------- MODULE Interrupts -----------------------------
(***************************************************************************)
(* What Kernel takes for granted: how the board's interrupts are set up    *)
(* (board/DE1_SoC_A9, kernel/k_rtx_init.c) and how they, the SVCs and      *)
(* k_tsk_switch share the tasks' kernel stacks (kernel/HAL_CA.c,           *)
(* kernel/k_task.c).  The processor executes on one stack, `cpu', at one   *)
(* place, `at', with IRQs masked or not; an interrupt may come wherever    *)
(* they are not.  A kernel stack is the sequence of the contexts saved on  *)
(* it.  Unlike in Kernel, k_tsk_yield and k_tsk_run_new are in steps,      *)
(* because a privileged task calls them without masking anything.          *)
(*                                                                         *)
(* The boot loader leaves the interrupt controller and the devices in any  *)
(* state.  Interrupts have the numbers of the board's interrupt.h.         *)
(***************************************************************************)
EXTENDS Integers, Sequences, FiniteSets, ReadyQueue

CONSTANTS
  N,         \* tasks 1..N, in the order of the boot table; 0 is the null task
  Priv,      \* those of them that are privileged
  KCD,       \* the one that receives what is typed, N + 1 if there is none
  NUM_IRQ,   \* interrupts the controller has
  IRQs,      \* those that are told apart
  RxMax,     \* characters the UART's receive FIFO holds
  InboxMax   \* messages the KCD task's mailbox holds

UART0_Rx_IRQ_ID == 194
HPS_TIMER0_IRQ_ID == 199
HPS_TIMER1_IRQ_ID == 200
A9_TIMER_IRQ_ID == 29
Ours == {UART0_Rx_IRQ_ID, HPS_TIMER0_IRQ_ID, HPS_TIMER1_IRQ_ID, A9_TIMER_IRQ_ID}

ASSUME InterruptAssumption ==
  /\ N \in Nat \ {0} /\ Priv \subseteq 1..N /\ KCD \in 1..(N + 1) /\ KCD \notin Priv
  /\ NUM_IRQ \in Nat /\ Ours \subseteq IRQs /\ IRQs \subseteq 0..(NUM_IRQ - 1)
  /\ RxMax \in Nat /\ InboxMax \in Nat

Null == 0
TCBs == 0..N
\* The KCD task is the most urgent; the others are equals, so that a yield
\* switches between them.
PrioOf == [p \in TCBs |-> IF p = Null THEN 3 ELSE IF p = KCD THEN 1 ELSE 2]

VARIABLES
  enabled,    \* the controller's enabled interrupts,
  active,     \* and those acknowledged and not ended
  sources,    \* interrupts whose device has been told to raise them
  raised,     \* those of the timers that have
  rx,         \* characters in the UART's receive FIFO
  inbox,      \* messages in the KCD task's mailbox, or -1 before it has one
  cpu,        \* the owner of the stack the processor executes on
  at,         \* what it executes next
  masked,     \* the I bit of the CPSR
  old, ret,   \* k_tsk_run_new's p_tcb_old, and where it returns to
  gp_current_task, state, queue,
  kstack,     \* the contexts saved on each task's kernel stack
  ksp         \* the stack each TCB's ksp points into

gic   == <<enabled, active>>
board == <<gic, sources, raised, rx>>
sched == <<gp_current_task, state, queue>>
stack == <<kstack, ksp>>
frame == <<cpu, masked, old, ret>>
vars  == <<board, inbox, sched, stack, frame, at>>

\* A context: what saved it, and the place, the mask and the locals it saved.
Saved(kind_, at_) == [kind |-> kind_, at |-> at_, masked |-> masked, old |-> old, ret |-> ret]
Push(f) == kstack' = [kstack EXCEPT ![cpu] = Append(@, f)]
Top(p) == kstack[p][Len(kstack[p])]
Bottom(s) == SubSeq(s, 1, Len(s) - 1)

-----------------------------------------------------------------------------
Init ==
  /\ enabled \in SUBSET IRQs
  /\ active \in {{}} \cup {{i} : i \in IRQs}
  /\ sources \in SUBSET (IRQs \ {UART0_Rx_IRQ_ID})
  /\ raised = {} /\ rx = 0 /\ inbox = -1
  /\ cpu = Null /\ at = "GIC_DistInit" /\ masked = TRUE
  /\ old = Null /\ ret = "return"
  /\ gp_current_task = Null
  /\ state = [p \in TCBs |-> IF p = Null THEN "RUNNING" ELSE "DORMANT"]
  /\ queue = Empty(TCBs)
  /\ kstack = [p \in TCBs |-> <<>>]
  /\ ksp = [p \in TCBs |-> p]

\* Fault: a loop that stops one short.
SharedButLast == {i \in IRQs : i >= 32 /\ i < NUM_IRQ - 1}

\* The interrupts of the loop in GIC_DistInit.
Shared == {i \in IRQs : i >= 32 /\ i < NUM_IRQ}

\* The controller's registers that enable and disable, acknowledge and end.
GIC_DisableIRQ(s) == enabled' = enabled \ s
GIC_EnableIRQ(s) == enabled' = enabled \cup s
GIC_AckPending(i) == active' = {i}
GIC_EndInterrupt(s) == active' = active \ s

GIC_DistInit == /\ at = "GIC_DistInit"
                /\ GIC_DisableIRQ(Shared) /\ GIC_EndInterrupt(Shared)
                /\ at' = "GIC_CPUInterfaceInit"
                /\ UNCHANGED <<sources, raised, rx, inbox, sched, stack, frame>>

GIC_CPUInterfaceInit == /\ at = "GIC_CPUInterfaceInit"
                        /\ GIC_DisableIRQ(0..31) /\ GIC_EndInterrupt(0..31)
                        /\ at' = "GIC_EnableIRQ"
                        /\ UNCHANGED <<sources, raised, rx, inbox, sched, stack, frame>>

SystemInit == /\ at = "GIC_EnableIRQ"
              /\ GIC_EnableIRQ(Ours)
              /\ at' = "UART0_Init"
              /\ UNCHANGED <<active, sources, raised, rx, inbox, sched, stack, frame>>

\* The receive interrupt enabled, and the FIFOs reset.
UART0_Init == /\ at = "UART0_Init"
              /\ sources' = sources \cup {UART0_Rx_IRQ_ID}
              /\ rx' = 0
              /\ at' = "config_timers"
              /\ UNCHANGED <<gic, raised, inbox, sched, stack, frame>>

\* Timers told to interrupt, or not to, whatever they were told before.
hps_timer_set_irq_mask(told, n, irq_mask) ==
  IF irq_mask = 0 THEN told \cup {n} ELSE told \ {n}
a9_timer_set_irq_bit(told, irq_bit) ==
  IF irq_bit = 1 THEN told \cup {A9_TIMER_IRQ_ID} ELSE told \ {A9_TIMER_IRQ_ID}

\* Both timers are configured, disabled meanwhile, to count without interrupting.
\* Nothing is done about timer 1.
ConfigTimers ==
  /\ at = "config_timers"
  /\ sources' = a9_timer_set_irq_bit(hps_timer_set_irq_mask(sources, HPS_TIMER0_IRQ_ID, 1), 0)
  /\ raised' = raised \cap sources'
  /\ at' = "k_tsk_init"
  /\ UNCHANGED <<gic, rx, inbox, sched, stack, frame>>

\* Fault: a CPSR with the I bit set for an unprivileged task to begin with.
FirstContextMasked(p) ==
  LET f(kind_, at_) == [kind |-> kind_, at |-> at_, masked |-> p \notin Priv,
                        old |-> p, ret |-> "return"]
  IN IF p \in Priv THEN <<f("switch", "task")>>
     ELSE <<f("svc", "task"), f("switch", "return")>>

\* The contexts k_tsk_create_new makes up: an unprivileged task looks as if it
\* had entered the kernel by an SVC, a privileged one as if it had called
\* k_tsk_switch; both resume with IRQs enabled.
FirstContext(p) ==
  LET f(kind_, at_) == [kind |-> kind_, at |-> at_, masked |-> FALSE,
                        old |-> p, ret |-> "return"]
  IN IF p \in Priv THEN <<f("switch", "task")>>
     ELSE <<f("svc", "task"), f("switch", "return")>>

\* The null task first, then the entries of the table in their order.
BootQueue == [members |-> TCBs, ahead |-> [p \in TCBs |-> 0..(p - 1)]]

k_tsk_init == /\ at = "k_tsk_init"
              /\ state' = [p \in TCBs |-> IF p = Null THEN "RUNNING" ELSE "READY"]
              /\ queue' = BootQueue
              /\ kstack' = [p \in TCBs |-> IF p = Null THEN <<>> ELSE FirstContext(p)]
              /\ at' = "task"
              /\ UNCHANGED <<board, inbox, gp_current_task, ksp, frame>>

-----------------------------------------------------------------------------
Unprivileged(p) == p \notin Priv \cup {Null}

\* Fault: an SVC handler that leaves IRQs as they are.
CallsUnmasked(place) == /\ at = "task"
                        /\ Push(Saved(IF Unprivileged(cpu) THEN "svc" ELSE "call", "task"))
                        /\ at' = place
                        /\ UNCHANGED <<board, inbox, sched, ksp, cpu, masked, old, ret>>

\* A task calls the kernel: SVC_Handler saves its context and the SVC masks
\* IRQs; a privileged task, and task_null, which runs main()'s code with the
\* mask of the reset, call it as a function.
Calls(place) == /\ at = "task"
                /\ Push(Saved(IF Unprivileged(cpu) THEN "svc" ELSE "call", "task"))
                /\ masked' = (masked \/ Unprivileged(cpu))
                /\ at' = place
                /\ UNCHANGED <<board, inbox, sched, ksp, cpu, old, ret>>

\* SVC_RESTORE, EXIT_IRQ, or the end of a function: the context saved last.
Returns == LET f == Top(cpu)
           IN /\ at = "return"
              /\ kstack' = [kstack EXCEPT ![cpu] = Bottom(@)]
              /\ at' = f.at /\ masked' = f.masked /\ old' = f.old /\ ret' = f.ret
              /\ UNCHANGED <<board, inbox, sched, ksp, cpu>>

\* k_tsk_yield.
YieldCalled == cpu # KCD /\ Calls("sched_remove")
SchedRemove == /\ at = "sched_remove"
               /\ queue' = Remove(queue, gp_current_task)
               /\ at' = "sched_insert"
               /\ UNCHANGED <<board, inbox, gp_current_task, state, stack, frame>>
SchedInsert == /\ at = "sched_insert"
               /\ queue' = Insert(queue, gp_current_task)
               /\ at' = "scheduler" /\ ret' = "return"
               /\ UNCHANGED <<board, inbox, gp_current_task, state, stack,
                              cpu, masked, old>>

\* k_tsk_run_new: the choice, the states, the stacks.
Scheduler ==
  \E t \in TCBs :
    /\ at = "scheduler"
    /\ IsTop(queue, PrioOf, t)
    /\ old' = gp_current_task
    /\ gp_current_task' = t
    /\ at' = IF t = gp_current_task THEN ret ELSE "states"
    /\ UNCHANGED <<board, inbox, state, queue, stack, cpu, masked, ret>>

States ==
  /\ at = "states"
  /\ state' = [state EXCEPT ![gp_current_task] = "RUNNING",
                            ![old] = IF @ \in {"DORMANT", "BLK_MSG"} THEN @ ELSE "READY"]
  /\ at' = "k_tsk_switch"
  /\ UNCHANGED <<board, inbox, gp_current_task, queue, stack, frame>>

\* Fault: the task switched to taken for the one switched from.
SwitchFromNew ==
  LET to == ksp[gp_current_task]
  IN /\ at = "k_tsk_switch"
     /\ kstack' = [kstack EXCEPT ![cpu] = Append(@, Saved("switch", ret)),
                                 ![to] = Bottom(@)]
     /\ ksp' = [ksp EXCEPT ![gp_current_task] = cpu]
     /\ cpu' = to
     /\ at' = Top(to).at /\ masked' = Top(to).masked
     /\ old' = Top(to).old /\ ret' = Top(to).ret
     /\ UNCHANGED <<board, inbox, sched>>

\* k_tsk_switch: the registers and the CPSR of the processor go on its stack,
\* whose top becomes the old task's ksp, and come from the new task's.
Switch ==
  LET to == ksp[gp_current_task]
  IN /\ at = "k_tsk_switch"
     /\ kstack' = [kstack EXCEPT ![cpu] = Append(@, Saved("switch", ret)),
                                 ![to] = Bottom(@)]
     /\ ksp' = [ksp EXCEPT ![old] = cpu]
     /\ cpu' = to
     /\ at' = Top(to).at /\ masked' = Top(to).masked
     /\ old' = Top(to).old /\ ret' = Top(to).ret
     /\ UNCHANGED <<board, inbox, sched>>

-----------------------------------------------------------------------------
\* The KCD task: mbx_create, then recv_msg for ever.
MbxCalled == cpu = KCD /\ inbox = -1 /\ Calls("k_mbx_create")
MbxCreate == /\ at = "k_mbx_create"
             /\ inbox' = 0
             /\ at' = "return"
             /\ UNCHANGED <<board, sched, stack, frame>>

RecvCalled == cpu = KCD /\ inbox # -1 /\ Calls("k_recv_msg")
RecvEmpty == /\ at = "k_recv_msg" /\ inbox = 0
             /\ state' = [state EXCEPT ![gp_current_task] = "BLK_MSG"]
             /\ queue' = Remove(queue, gp_current_task)
             /\ at' = "scheduler" /\ ret' = "k_recv_msg takes"
             /\ UNCHANGED <<board, inbox, gp_current_task, stack, cpu, masked, old>>
RecvTakes == /\ \/ at = "k_recv_msg" /\ inbox > 0
                \/ at = "k_recv_msg takes"
             /\ inbox' = inbox - 1
             /\ at' = "return"
             /\ UNCHANGED <<board, sched, stack, frame>>

-----------------------------------------------------------------------------
\* The devices: a character arrives; a timer left running raises its interrupt,
\* which would wait for a task's code anyway.
Arrives == /\ UART0_Rx_IRQ_ID \in sources /\ rx < RxMax
           /\ rx' = rx + 1
           /\ UNCHANGED <<gic, sources, raised, inbox, sched, stack, frame, at>>
Raises(i) == /\ i \in sources \cap enabled /\ i # UART0_Rx_IRQ_ID /\ at = "task"
             /\ raised' = raised \cup {i}
             /\ UNCHANGED <<gic, sources, rx, inbox, sched, stack, frame, at>>

Pending(i) == /\ i \in enabled
              /\ i \in raised \/ (i = UART0_Rx_IRQ_ID /\ rx > 0)

\* IRQ_Handler: the context goes on the stack of whoever was executing, and
\* GIC_AckPending activates the interrupt.  All interrupts have one priority,
\* so none is signalled while another is active.
IrqTaken(i) ==
  /\ ~masked /\ Pending(i) /\ active = {}
  /\ Push(Saved("irq", at))
  /\ masked' = TRUE
  /\ GIC_AckPending(i)
  /\ at' = "c_IRQ_Handler"
  /\ UNCHANGED <<enabled, sources, raised, rx, inbox, sched, ksp, cpu, old, ret>>

UART0_GetRxDataStatus == rx > 0
UART0_GetRxData == rx' = rx - 1

\* The drain loop: k_send_msg to TID_KCD.
Drain ==
  /\ at = "c_IRQ_Handler" /\ active = {UART0_Rx_IRQ_ID} /\ UART0_GetRxDataStatus
  /\ UART0_GetRxData
  /\ IF inbox \in 0..(InboxMax - 1)
     THEN /\ inbox' = inbox + 1
          /\ IF state[KCD] = "BLK_MSG"
             THEN state' = [state EXCEPT ![KCD] = "READY"] /\ queue' = Insert(queue, KCD)
             ELSE UNCHANGED <<state, queue>>
     ELSE UNCHANGED <<inbox, state, queue>>
  /\ UNCHANGED <<gic, sources, raised, gp_current_task, stack, frame, at>>

Drained == /\ at = "c_IRQ_Handler" /\ active = {UART0_Rx_IRQ_ID}
           /\ ~UART0_GetRxDataStatus
           /\ at' = "GIC_EndInterrupt" /\ ret' = "return"
           /\ UNCHANGED <<board, inbox, sched, stack, cpu, masked, old>>

\* timer_clear_irq; an interrupt that is no one's is only reported.
TimerCleared == /\ at = "c_IRQ_Handler" /\ active # {UART0_Rx_IRQ_ID}
                /\ raised' = raised \ (active \cap Ours)
                /\ at' = "GIC_EndInterrupt"
                /\ UNCHANGED <<gic, sources, rx, inbox, sched, stack, frame>>

\* Fault: the interrupt ended by the code after the switch only.
EndInterruptLate == /\ at = "GIC_EndInterrupt"
                    /\ active' = IF active = {UART0_Rx_IRQ_ID} THEN active ELSE {}
                    /\ at' = IF active = {UART0_Rx_IRQ_ID} THEN "scheduler" ELSE "return"
                    /\ UNCHANGED <<enabled, sources, raised, rx, inbox, sched, stack, frame>>

\* "Make sure to call [GIC_EndInterrupt] before context switching": only the
\* UART's interrupt reschedules.
EndInterrupt == /\ at = "GIC_EndInterrupt"
                /\ GIC_EndInterrupt(active)
                /\ at' = IF active = {UART0_Rx_IRQ_ID} THEN "scheduler" ELSE "return"
                /\ UNCHANGED <<enabled, sources, raised, rx, inbox, sched, stack, frame>>

-----------------------------------------------------------------------------
Executes ==
  \/ GIC_DistInit \/ GIC_CPUInterfaceInit \/ SystemInit \/ UART0_Init
  \/ ConfigTimers \/ k_tsk_init
  \/ YieldCalled \/ SchedRemove \/ SchedInsert
  \/ Scheduler \/ States \/ Switch \/ Returns
  \/ MbxCalled \/ MbxCreate \/ RecvCalled \/ RecvEmpty \/ RecvTakes
  \/ Drain \/ Drained \/ TimerCleared \/ EndInterrupt

Next == Executes \/ Arrives \/ \E i \in IRQs : Raises(i) \/ IrqTaken(i)

Spec == Init /\ [][Next]_vars

\* The processor executes, and takes a UART interrupt that is signalled again
\* and again: it has the lower number of the two that can be, which the
\* controller prefers.
FairSpec == Spec /\ WF_vars(Executes) /\ SF_vars(IrqTaken(UART0_Rx_IRQ_ID))

-----------------------------------------------------------------------------
\* SRS stores eight bytes; SVC_Handler and IRQ_Handler push fourteen registers
\* more, and IRQ_Handler two words to align the stack; k_tsk_switch pushes
\* fourteen registers and the CPSR.  A function call saves at least eight: the
\* frames of the C functions have the other half of K_STACK_SIZE.
Bytes(kind) == CASE kind = "svc" -> 64 [] kind = "irq" -> 72
                 [] kind = "switch" -> 60 [] kind = "call" -> 8
K_STACK_SIZE == 512

BytesOf(s) == LET all(kind) == Bytes(kind) * Cardinality({i \in 1..Len(s) : s[i].kind = kind})
              IN  all("svc") + all("irq") + all("switch") + all("call")

\* Whatever the boot loader left behind, the handler only ever has to do with
\* the UART and timer 1: no interrupt is one it does not recognize, and the two
\* timers that k_rtx_init sets up are silent (k_rtx_init.c:51-55).
KnownInterrupts ==
  at = "c_IRQ_Handler" => active \subseteq {UART0_Rx_IRQ_ID, HPS_TIMER1_IRQ_ID}

\* "Make sure to call line 246 before context switching" (HAL_CA.c:293): no
\* task runs while an interrupt is active, for none could interrupt it.
EndedBeforeTasks == at = "task" => active = {}

\* A task executes its own code only as the current task, on its own kernel
\* stack, which is empty; every other task's has the context k_tsk_switch saved
\* on top, and with an SVC, an interrupt and a switch it is not half full.
ContextsRight ==
  /\ \A p \in TCBs : BytesOf(kstack[p]) <= K_STACK_SIZE \div 2
  /\ at = "task" =>
       /\ cpu = gp_current_task /\ kstack[cpu] = <<>>
       /\ \A p \in TCBs \ {cpu} : /\ kstack[p] # <<>> /\ Top(p).kind = "switch"
                                  /\ ksp[p] = p

\* Only the null task runs with IRQs masked: an unprivileged task's own code can
\* always be interrupted, and the null task's never (main_svc_cw.c:86).
OnlyNullMasked == at = "task" => (masked <=> cpu = Null)

\* "The caller becomes READY and the scheduler picks the next ready to run
\* task" (k_task.c:409-410, a CRITICAL SECTION): when a task runs, every other
\* task that is READY is in the queue, and can be picked.
NoneLost ==
  at = "task" => \A p \in TCBs : state[p] \in {"READY", "RUNNING"} => p \in queue.members

\* A character in the UART gets its handler, however the interrupts of timer 1,
\* the tasks' calls and their switches fall, unless all tasks have blocked.
Receiving == at = "c_IRQ_Handler" /\ active = {UART0_Rx_IRQ_ID}
UartServed == rx > 0 ~> (Receiving \/ cpu = Null)
=============================================================================
