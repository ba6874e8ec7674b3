--------------------------- MODULE KernelLiveness ---------------------------
(***************************************************************************)
(* What must eventually happen in the kernel, and the fairness it needs.   *)
(* The kernel is cooperative: nothing preempts a task on a timer, so the   *)
(* promises below hold for tasks that keep calling tsk_yield.              *)
(***************************************************************************)
EXTENDS Kernel

\* The KCD task serves its mailbox and blocks when it is empty (kcd_task.c).
KcdServes == /\ gp_current_task = KcdTcb
             /\ MbxCreate(KCD_MBX_SIZE) \/ Recv \/ RecvBlocks

\* The processor keeps executing: kernel code runs to its end (weak: nothing
\* disables it), tasks keep yielding and the KCD task keeps serving (strong:
\* interrupts come between), and a pending interrupt is taken as soon as the
\* processor unmasks it (strong: every kernel call masks it for a while).  The
\* handler returns (strong: characters do not for ever arrive between its last
\* look at the FIFO and its end, for the UART is slower than the drain loop).
Fairness ==
  /\ WF_vars(BootTask) /\ WF_vars(Start)
  /\ WF_vars(RecvResumes) /\ WF_vars(IrqChar) /\ SF_vars(IrqExit)
  /\ SF_vars(Yield) /\ SF_vars(KcdServes) /\ SF_vars(IrqEnter)

FairSpec == Spec /\ Fairness

PrioOf(t) == prio[GetTcb(t)]
MostUrgent(t) == /\ t \in queue.members
                 /\ \A u \in queue.members : PrioOf(t) <= PrioOf(u)

\* Equals share the processor: a queued task with no one more urgent gets it,
\* unless someone more urgent turns up first.  The round is closed by
\* k_tsk_yield's requeueing (k_task.c:455-461) and kept by everything else.
EqualsShare ==
  \A t \in Tids \ {TID_NULL} :
    MostUrgent(t) ~> (TidOf(gp_current_task) = t \/ ~MostUrgent(t))

\* Input is not left in the UART: a received character is taken by the
\* handler, unless every task has stopped or blocked, when the null task runs
\* with the IRQs masked and nothing is ever served again (main_svc_cw.c:86).
InputServed ==
  rx > 0 ~> (irq \/ gp_current_task = NullTcb)
=============================================================================
