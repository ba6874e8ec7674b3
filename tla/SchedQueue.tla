----------------------------- MODULE SchedQueue -----------------------------
(***************************************************************************)
(* The scheduler's queue as its callers see it: tasks enter at the back,   *)
(* leave from anywhere, and change priority while they are outside.        *)
(* k_tsk_yield and k_tsk_set_prio take a task out and put it back.         *)
(* PrioHeap.tla implements this.                                           *)
(***************************************************************************)
EXTENDS ReadyQueue

CONSTANTS Tids, Prios

VARIABLES queue, prio

Init == queue = Empty(Tids) /\ prio \in [Tids -> Prios]

Enter(t) == /\ t \notin queue.members
            /\ queue' = Insert(queue, t)
            /\ UNCHANGED prio

Leave(t, p) == /\ t \in queue.members
               /\ queue' = Remove(queue, t)
               /\ prio' = [prio EXCEPT ![t] = p]

Change(t, p) == /\ t \notin queue.members
                /\ prio' = [prio EXCEPT ![t] = p]
                /\ UNCHANGED queue

Next == \E t \in Tids : Enter(t) \/ \E p \in Prios : Leave(t, p) \/ Change(t, p)

Spec == Init /\ [][Next]_<<queue, prio>>
=============================================================================
