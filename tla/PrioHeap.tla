------------------------------ MODULE PrioHeap ------------------------------
(***************************************************************************)
(* kernel/prio_heap.c: the binary heap that keeps the scheduler's queue.   *)
(* sched_heap[1..heap_size] holds task ids, heap_idx the position of each, *)
(* and a pair of counters in the TCB (countH, countL) the order of         *)
(* insertion.  Each iteration of up_heap and of down_heap is a step, so    *)
(* that what holds in the middle of a sift can be stated; the callers      *)
(* start an operation only when the one before has finished.               *)
(***************************************************************************)
EXTENDS Integers, FiniteSets

CONSTANTS
  Tids,        \* the tasks
  TID_NULL,    \* the task id 0, which an unused slot of sched_heap holds
  Prios,
  COUNT_MAX,   \* 0xFFFFFFFF: where countL wraps
  EPOCHS       \* bound of this model on countH, which really is a U32: that
               \* is 2^64 insertions away from wrapping

MAX_TASKS == Cardinality(Tids)

ASSUME HeapAssumption == /\ IsFiniteSet(Tids) /\ TID_NULL \in Tids
                         /\ Prios \subseteq Nat
                         /\ COUNT_MAX \in Nat \ {0} /\ EPOCHS \in Nat

VARIABLES
  prio,              \* TCB fields
  heap_idx,
  tcbL, tcbH,        \* the TCB's countL and countH
  sched_heap, heap_size,
  countL, countH,    \* the global counters
  pc,                \* "idle", or the function that is running
  index,             \* up_heap's and down_heap's
  again              \* {t} while t is out only to be put back, else {}

vars == <<prio, heap_idx, tcbL, tcbH, sched_heap, heap_size, countL, countH,
          pc, index, again>>

Members == {sched_heap[i] : i \in 1..heap_size}

Older(t, u) == tcbH[t] < tcbH[u] \/ (tcbH[t] = tcbH[u] /\ tcbL[t] < tcbL[u])

\* Fault: equals not told apart.
HasHigherPrioOnly(heap, pr, i, j) == pr[heap[i]] < pr[heap[j]]

HasHigherPrio(heap, pr, i, j) ==
  \/ pr[heap[i]] < pr[heap[j]]
  \/ pr[heap[i]] = pr[heap[j]] /\ Older(heap[i], heap[j])

-----------------------------------------------------------------------------
Init ==
  /\ prio \in [Tids -> Prios]
  /\ heap_idx = [t \in Tids |-> 0]
  /\ tcbL = [t \in Tids |-> 0] /\ tcbH = [t \in Tids |-> 0]
  /\ sched_heap = [i \in 1..MAX_TASKS |-> TID_NULL]
  /\ heap_size = 0
  /\ countL = 0 /\ countH = 0
  /\ pc = "idle" /\ index = 0 /\ again = {}

\* Faults: a counter that is not reset, and a new epoch that is not counted.
TickOn == countL' = countL + 1 /\ UNCHANGED countH
TickUncounted == /\ countL' = (countL + 1) % COUNT_MAX
                 /\ UNCHANGED countH

Tick == IF countL + 1 = COUNT_MAX
        THEN countL' = 0 /\ countH' = countH + 1
        ELSE countL' = countL + 1 /\ UNCHANGED countH

\* sched_insert, up to up_heap.
PutLast(t) ==
  /\ countH < EPOCHS
  /\ heap_size' = heap_size + 1
  /\ sched_heap' = [sched_heap EXCEPT ![heap_size + 1] = t]
  /\ heap_idx' = [heap_idx EXCEPT ![t] = heap_size + 1]
  /\ tcbL' = [tcbL EXCEPT ![t] = countL]
  /\ tcbH' = [tcbH EXCEPT ![t] = countH]
  /\ Tick
  /\ pc' = "up_heap" /\ index' = heap_size + 1

\* sched_remove, up to its sift.  When t is the last, the slot compared with
\* its parent still holds t, and up_heap finds it outside the heap.
TakeOut(t) ==
  LET last == sched_heap[heap_size]
      heap == [sched_heap EXCEPT ![heap_idx[t]] = last]
  IN /\ sched_heap' = heap
     /\ heap_idx' = [heap_idx EXCEPT ![last] = heap_idx[t]]
     /\ heap_size' = heap_size - 1
     /\ index' = heap_idx[t]
     /\ pc' = IF /\ heap_idx[t] > 1
                 /\ HasHigherPrio(heap, prio', heap_idx[t], heap_idx[t] \div 2)
              THEN "up_heap" ELSE "down_heap"
     /\ UNCHANGED <<tcbL, tcbH, countL, countH>>

\* A created or a woken task enters.
Enter(t) == /\ pc = "idle" /\ t \notin Members
            /\ PutLast(t)
            /\ UNCHANGED <<prio, again>>

\* A task exits or blocks.
Leave(t) == /\ pc = "idle" /\ t \in Members
            /\ UNCHANGED <<prio, again>>
            /\ TakeOut(t)

\* k_tsk_yield, and k_tsk_set_prio, which writes the priority first, while the
\* heap still holds the task.
Requeue(t, p) == /\ pc = "idle" /\ t \in Members /\ countH < EPOCHS
                 /\ prio' = [prio EXCEPT ![t] = p]
                 /\ again' = {t}
                 /\ TakeOut(t)

\* k_tsk_create_new, and k_tsk_set_prio on a blocked task.
Change(t, p) == /\ pc = "idle" /\ t \notin Members
                /\ prio' = [prio EXCEPT ![t] = p]
                /\ UNCHANGED <<heap_idx, tcbL, tcbH, sched_heap, heap_size,
                               countL, countH, pc, index, again>>

Reinsert == /\ pc = "insert"
            /\ \E t \in again : PutLast(t)
            /\ again' = {}
            /\ UNCHANGED prio

-----------------------------------------------------------------------------
\* Fault: the positions of the two tasks not updated.
SwapUnindexed(i, j) ==
  /\ sched_heap' = [sched_heap EXCEPT ![i] = sched_heap[j], ![j] = sched_heap[i]]
  /\ UNCHANGED heap_idx

Swap(i, j) ==
  /\ sched_heap' = [sched_heap EXCEPT ![i] = sched_heap[j], ![j] = sched_heap[i]]
  /\ heap_idx' = [heap_idx EXCEPT ![sched_heap[j]] = i, ![sched_heap[i]] = j]

Sifted == /\ pc' = IF again = {} THEN "idle" ELSE "insert"
          /\ UNCHANGED <<sched_heap, heap_idx, index>>

Higher(i, j) == HasHigherPrio(sched_heap, prio, i, j)

UpHeap ==
  /\ pc = "up_heap"
  /\ IF index > 1 /\ index <= heap_size /\ Higher(index, index \div 2)
     THEN Swap(index, index \div 2) /\ index' = index \div 2 /\ UNCHANGED pc
     ELSE Sifted
  /\ UNCHANGED <<prio, tcbL, tcbH, heap_size, countL, countH, again>>

\* Fault: the right child never looked at.
LeftChild == index * 2

SmallerChild ==
  IF index * 2 + 1 <= heap_size /\ Higher(index * 2 + 1, index * 2)
  THEN index * 2 + 1 ELSE index * 2

DownHeap ==
  /\ pc = "down_heap"
  /\ IF index * 2 <= heap_size /\ Higher(SmallerChild, index)
     THEN Swap(SmallerChild, index) /\ index' = SmallerChild /\ UNCHANGED pc
     ELSE Sifted
  /\ UNCHANGED <<prio, tcbL, tcbH, heap_size, countL, countH, again>>

Next ==
  \/ \E t \in Tids : Enter(t) \/ Leave(t)
  \/ \E t \in Tids, p \in Prios : Requeue(t, p) \/ Change(t, p)
  \/ Reinsert
  \/ UpHeap
  \/ DownHeap

Spec == Init /\ [][Next]_vars

-----------------------------------------------------------------------------
TypeOK ==
  /\ prio \in [Tids -> Prios]
  /\ heap_idx \in [Tids -> 0..MAX_TASKS]
  /\ tcbL \in [Tids -> 0..(COUNT_MAX - 1)] /\ tcbH \in [Tids -> Nat]
  /\ sched_heap \in [1..MAX_TASKS -> Tids]
  /\ heap_size \in 0..MAX_TASKS
  /\ countL \in 0..(COUNT_MAX - 1) /\ countH \in Nat
  /\ pc \in {"idle", "up_heap", "down_heap", "insert"}
  /\ index \in 0..MAX_TASKS
  /\ again \subseteq Tids

\* The queue that the heap and the counters stand for.
Queue == [members |-> Members,
          ahead   |-> [t \in Tids |-> IF t \in Members
                                      THEN {u \in Members : Older(u, t)} ELSE {}]]

Q == INSTANCE SchedQueue WITH queue <- Queue

\* A queued task is where its heap_idx says, which sched_remove relies on
\* (prio_heap.c:114): in the middle of a sift too.
IndexRight == \A i \in 1..heap_size : heap_idx[sched_heap[i]] = i

\* Whenever no operation is running, sched_peak names the task that the policy
\* names: most urgent, and of its equals the one that has waited longest.
TopRight == pc = "idle" /\ heap_size > 0 => Q!IsTop(Queue, prio, sched_heap[1])

\* In the middle of a sift only the element on its way is out of order: every
\* other one is no more urgent than its parent (what makes TopRight inductive).
SiftLocal ==
  \A i \in 2..heap_size :
    Higher(i, i \div 2) => \/ pc = "up_heap" /\ i = index
                           \/ pc = "down_heap" /\ i \div 2 = index

\* The heap implements the queue: every operation takes effect on it at once,
\* and no step of a sift changes it.
ImplementsQueue == Q!Spec
=============================================================================
