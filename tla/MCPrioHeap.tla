----------------------------- MODULE MCPrioHeap -----------------------------
(***************************************************************************)
(* Small instances of PrioHeap for TLC.                                    *)
(***************************************************************************)
EXTENDS PrioHeap, TLC

CONSTANTS t0, t1, t2, t3, t4, t5

Symmetric == Permutations(Tids \ {TID_NULL})

\* What later steps can read: not the fields of a task outside the heap, nor
\* the slots above it, nor the index of a sift that is over.
Live == <<prio, [i \in 1..heap_size |-> sched_heap[i]],
          [t \in Members |-> <<heap_idx[t], tcbH[t], tcbL[t]>>],
          countL, countH, pc, again,
          IF pc \in {"idle", "insert"} THEN 0 ELSE index>>
=============================================================================
