--------------------------- MODULE PrioHeapProofs ---------------------------
(***************************************************************************)
(* Theorems about PrioHeap, for any tasks, priorities and size of the      *)
(* counters: the heap finds its tasks and its top, and implements the      *)
(* queue of SchedQueue.                                                    *)
(***************************************************************************)
EXTENDS PrioHeap, SetInduction, FunctionTheorems, FiniteSetTheorems

\* By priority and by age: t does not go before u.
NotBefore(pr, h, l, t, u) ==
  ~ \/ pr[t] < pr[u]
    \/ pr[t] = pr[u] /\ (h[t] < h[u] \/ (h[t] = h[u] /\ l[t] < l[u]))
NB(t, u) == NotBefore(prio, tcbH, tcbL, t, u)

\* A sift, which works on the element at index.
Sifting == pc \in {"up_heap", "down_heap"}

\* What goes on around the sifts: an element taken out to be put back is
\* outside the heap until it is.
AgainInv ==
  /\ pc = "idle" => again = {}
  /\ pc = "insert" => again # {}
  /\ Sifting => index >= 1
  /\ \A t \in again : t \notin Members /\ again = {t}

\* The children of the element on its way would be in order under its parent.
Bridged ==
  Sifting /\ index \in 2..heap_size =>
    \A c \in 2..heap_size :
      c \div 2 = index => NB(sched_heap[c], sched_heap[index \div 2])

\* The counters of the queued tasks are all different, and below the global ones.
CountInv ==
  /\ \A t \in Members : tcbH[t] < countH \/ (tcbH[t] = countH /\ tcbL[t] < countL)
  /\ \A t, u \in Members : t # u => tcbH[t] # tcbH[u] \/ tcbL[t] # tcbL[u]

IInv == TypeOK /\ IndexRight /\ AgainInv /\ SiftLocal /\ Bridged /\ CountInv

-----------------------------------------------------------------------------
\* Any two tasks are in order one way or the other, and order is transitive.
LEMMA Preorder ==
  ASSUME NEW pr \in [Tids -> Nat], NEW h \in [Tids -> Nat], NEW l \in [Tids -> Nat]
  PROVE  /\ \A t \in Tids : NotBefore(pr, h, l, t, t)
         /\ \A t, u \in Tids : NotBefore(pr, h, l, t, u) \/ NotBefore(pr, h, l, u, t)
         /\ \A t, u, v \in Tids :
              NotBefore(pr, h, l, t, u) /\ NotBefore(pr, h, l, u, v)
                => NotBefore(pr, h, l, t, v)
  BY DEF NotBefore

\* So the order of the queue is total and transitive on the tasks.
LEMMA OrderFacts ==
  ASSUME TypeOK
  PROVE  /\ \A t \in Tids : NB(t, t)
         /\ \A t, u \in Tids : NB(t, u) \/ NB(u, t)
         /\ \A t, u, v \in Tids : NB(t, u) /\ NB(u, v) => NB(t, v)
<1>1. prio \in [Tids -> Nat]
  BY HeapAssumption DEF TypeOK
<1>2. tcbH \in [Tids -> Nat]
  BY DEF TypeOK
<1>3. tcbL \in [Tids -> Nat]
  <2>1. 0..(COUNT_MAX - 1) \subseteq Nat
    BY HeapAssumption
  <2> QED BY <2>1 DEF TypeOK
<1> QED BY <1>1, <1>2, <1>3, Preorder DEF NB

\* has_higher_prio is the strict part of that order.
LEMMA HigherNB ==
  \A i, j : Higher(i, j) <=> ~NB(sched_heap[i], sched_heap[j])
  BY DEF Higher, HasHigherPrio, Older, NB, NotBefore

\* The number of tasks, and of those in the heap.
LEMMA MaxNat == MAX_TASKS \in Nat
  BY HeapAssumption, FS_CardinalityType DEF MAX_TASKS

\* While a task is not in the heap, the array has room for it.
LEMMA RoomForOne ==
  ASSUME TypeOK, IndexRight, NEW t \in Tids, t \notin Members
  PROVE  heap_size < MAX_TASKS
<1> DEFINE D == 1..heap_size
<1> DEFINE f == [i \in D |-> sched_heap[i]]
<1>1. heap_size \in Nat /\ D \subseteq 1..MAX_TASKS /\ MAX_TASKS \in Nat
  BY MaxNat DEF TypeOK
<1>2. f \in [D -> Tids \ {t}]
  BY <1>1 DEF TypeOK, Members
<1>3. \A i, j \in D : f[i] = f[j] => i = j
  BY DEF IndexRight
<1>4. IsFiniteSet(Tids \ {t}) /\ Cardinality(Tids \ {t}) = MAX_TASKS - 1
  BY HeapAssumption, FS_RemoveElement DEF MAX_TASKS
<1>5. Cardinality(D) = heap_size
  BY <1>1, FS_Interval
<1> HIDE DEF f, D
<1>6. f \in Injection(D, Tids \ {t})
  BY <1>2, <1>3, Fun_IsInj
<1>7. Cardinality(D) <= Cardinality(Tids \ {t})
  BY <1>4, <1>6, FS_Injection
<1> QED BY <1>1, <1>4, <1>5, <1>7

-----------------------------------------------------------------------------
\* The empty heap satisfies the invariant.
LEMMA InitInv == Init => IInv
<1> SUFFICES ASSUME Init PROVE IInv
  OBVIOUS
<1>1. 0 \in 0..MAX_TASKS /\ 0 \in 0..(COUNT_MAX - 1)
  BY MaxNat, HeapAssumption
<1>2. TypeOK
  BY <1>1, HeapAssumption DEF Init, TypeOK
<1>3. Members = {}
  BY DEF Init, Members
<1>4. 1..heap_size = {} /\ 2..heap_size = {}
  BY DEF Init
<1> QED BY <1>2, <1>3, <1>4
        DEF Init, IInv, IndexRight, AgainInv, SiftLocal, Bridged, CountInv, Sifting

-----------------------------------------------------------------------------
\* An exchange of two elements of the heap: what both sifts share.
LEMMA SwapFacts ==
  ASSUME IInv, NEW i \in 1..heap_size, NEW j \in 1..heap_size, i # j, Swap(i, j)
  PROVE  /\ sched_heap' \in [1..MAX_TASKS -> Tids] /\ heap_idx' \in [Tids -> 0..MAX_TASKS]
         /\ sched_heap'[i] = sched_heap[j] /\ sched_heap'[j] = sched_heap[i]
         /\ \A k \in 1..heap_size : k # i /\ k # j => sched_heap'[k] = sched_heap[k]
         /\ \A k \in 1..heap_size : heap_idx'[sched_heap'[k]] = k
         /\ {sched_heap'[k] : k \in 1..heap_size} = Members
<1> DEFINE D == 1..heap_size
<1>1. D \subseteq 1..MAX_TASKS /\ D \subseteq 0..MAX_TASKS
  BY MaxNat DEF IInv, TypeOK
<1>2. sched_heap \in [1..MAX_TASKS -> Tids] /\ heap_idx \in [Tids -> 0..MAX_TASKS]
      /\ \A k \in D : heap_idx[sched_heap[k]] = k
  BY DEF IInv, TypeOK, IndexRight
<1>3. sched_heap' = [sched_heap EXCEPT ![i] = sched_heap[j], ![j] = sched_heap[i]]
      /\ heap_idx' = [heap_idx EXCEPT ![sched_heap[j]] = i, ![sched_heap[i]] = j]
  BY DEF Swap
<1> HIDE DEF D
<1>4. i \in D /\ j \in D
  BY DEF D
<1>5. sched_heap[i] \in Tids /\ sched_heap[j] \in Tids /\ sched_heap[i] # sched_heap[j]
  BY <1>1, <1>2, <1>4
<1>6. sched_heap' \in [1..MAX_TASKS -> Tids]
  BY <1>1, <1>2, <1>3, <1>4, <1>5
<1>7. heap_idx' \in [Tids -> 0..MAX_TASKS]
  BY <1>1, <1>2, <1>3, <1>4, <1>5
<1>8. sched_heap'[i] = sched_heap[j] /\ sched_heap'[j] = sched_heap[i]
      /\ \A k \in D : k # i /\ k # j => sched_heap'[k] = sched_heap[k]
  BY <1>1, <1>2, <1>3, <1>4
<1>9. \A k \in D : heap_idx'[sched_heap'[k]] = k
  <2> TAKE k \in D
  <2>1. sched_heap[k] \in Tids
    BY <1>1, <1>2
  <2>2. CASE k = i
    BY <1>2, <1>3, <1>5, <1>8, <2>2
  <2>3. CASE k = j
    BY <1>2, <1>3, <1>5, <1>8, <2>3
  <2>4. CASE k # i /\ k # j
    <3>1. sched_heap[k] # sched_heap[i] /\ sched_heap[k] # sched_heap[j]
      BY <1>2, <1>4, <2>4
    <3> QED BY <1>2, <1>3, <1>8, <2>1, <2>4, <3>1
  <2> QED BY <2>2, <2>3, <2>4
<1>10. {sched_heap'[k] : k \in D} = {sched_heap[k] : k \in D}
  BY <1>4, <1>8
<1> QED BY <1>6, <1>7, <1>8, <1>9, <1>10 DEF D, Members

\* What a sift's exchange leaves to be shown: the order of the heap.
LEMMA SwapKeeps ==
  ASSUME IInv, NEW i \in 1..heap_size, NEW j \in 1..heap_size, i # j, Swap(i, j),
         pc' = pc, Sifting, index' \in 1..heap_size,
         UNCHANGED <<prio, tcbL, tcbH, heap_size, countL, countH, again>>
  PROVE  /\ TypeOK' /\ IndexRight' /\ AgainInv' /\ CountInv' /\ Members' = Members
         /\ \A t, u : NB(t, u)' <=> NB(t, u)
<1>1. Members' = Members
  BY SwapFacts DEF Members
<1>2. TypeOK'
  <2>1. index' \in 0..MAX_TASKS
    BY MaxNat DEF IInv, TypeOK
  <2> QED BY <2>1, SwapFacts DEF IInv, TypeOK
<1>3. IndexRight'
  BY SwapFacts DEF IndexRight
<1>4. AgainInv'
  BY <1>1 DEF IInv, AgainInv, Sifting
<1>5. CountInv'
  BY <1>1 DEF IInv, CountInv
<1> QED BY <1>1, <1>2, <1>3, <1>4, <1>5 DEF NB

\* Where a sift ends, nothing is out of order any more.
LEMMA SiftedKeeps ==
  ASSUME IInv, Sifting, Sifted,
         UNCHANGED <<prio, tcbL, tcbH, heap_size, countL, countH, again>>,
         \A k \in 2..heap_size : ~Higher(k, k \div 2)
  PROVE  IInv'
<1>1. UNCHANGED <<sched_heap, heap_idx, index>> /\ pc' \in {"idle", "insert"}
      /\ (pc' = "idle" => again = {}) /\ (pc' = "insert" => again # {})
  BY DEF Sifted
<1>2. Members' = Members
  BY <1>1 DEF Members
<1>3. TypeOK' /\ IndexRight' /\ CountInv'
  BY <1>1, <1>2 DEF IInv, TypeOK, IndexRight, CountInv
<1>4. AgainInv' /\ Bridged'
  BY <1>1, <1>2 DEF IInv, AgainInv, Bridged, Sifting
<1>5. SiftLocal'
  BY <1>1 DEF SiftLocal, Higher, HasHigherPrio, Older
<1> QED BY <1>3, <1>4, <1>5 DEF IInv

\* Halves, parents and children.
LEMMA Halves ==
  /\ \A k \in Nat : k >= 2 => k \div 2 \in 1..(k - 1)
  /\ \A k \in Nat : k >= 1 => (2 * k) \div 2 = k /\ (2 * k + 1) \div 2 = k
  /\ \A k, j \in Nat : k \div 2 = j => k = 2 * j \/ k = 2 * j + 1
  OBVIOUS

\* A turn of up_heap's loop keeps the invariant and who is queued.
LEMMA UpHeapStep == ASSUME IInv, UpHeap PROVE IInv' /\ Members' = Members
<1>1. pc = "up_heap" /\ Sifting
      /\ UNCHANGED <<prio, tcbL, tcbH, heap_size, countL, countH, again>>
  BY DEF UpHeap, Sifting
<1>2. heap_size \in Nat /\ index \in Nat /\ index >= 1
  BY <1>1, MaxNat DEF IInv, TypeOK, AgainInv
<1>3. \A k \in 2..heap_size : k # index => NB(sched_heap[k], sched_heap[k \div 2])
  BY <1>1, HigherNB DEF IInv, SiftLocal
<1>4. \A k \in 1..heap_size : sched_heap[k] \in Tids
  BY MaxNat DEF IInv, TypeOK
<1>5. \A t, u, v \in Tids : NB(t, u) /\ NB(u, v) => NB(t, v)
  BY OrderFacts DEF IInv
<1>6. CASE index > 1 /\ index <= heap_size /\ Higher(index, index \div 2)
  <2> DEFINE i == index
             j == index \div 2
  <2>1. i \in 2..heap_size /\ j \in 1..(i - 1) /\ i # j /\ i \in 1..heap_size /\ j \in 1..heap_size
    BY <1>2, <1>6, Halves
  <2>2. Swap(i, j) /\ index' = j /\ pc' = pc
    BY <1>1, <1>6 DEF UpHeap
  <2>3. /\ TypeOK' /\ IndexRight' /\ AgainInv' /\ CountInv' /\ Members' = Members
        /\ \A t, u : NB(t, u)' <=> NB(t, u)
    BY <1>1, <2>1, <2>2, SwapKeeps
  <2>4. /\ sched_heap'[i] = sched_heap[j] /\ sched_heap'[j] = sched_heap[i]
        /\ \A k \in 1..heap_size : k # i /\ k # j => sched_heap'[k] = sched_heap[k]
    BY <2>1, <2>2, SwapFacts
  <2>5. NB(sched_heap[j], sched_heap[i])
    BY <1>4, <1>6, <2>1, HigherNB, OrderFacts DEF IInv
  <2>6. \A c \in 2..heap_size : c \div 2 = i => NB(sched_heap[c], sched_heap[j])
    BY <1>1, <2>1 DEF IInv, Bridged
  <2>7. ASSUME NEW k \in 2..heap_size, k # j
        PROVE  NB(sched_heap'[k], sched_heap'[k \div 2])
    <3>1. k \div 2 \in 1..heap_size /\ k \in 1..heap_size /\ k \div 2 # k
      BY <1>2, Halves
    <3>2. CASE k = i
      BY <2>4, <2>5, <3>2
    <3>3. CASE k # i /\ k \div 2 = i
      BY <2>4, <2>6, <2>7, <3>1, <3>3
    <3>4. CASE k # i /\ k \div 2 = j
      <4>1. NB(sched_heap[k], sched_heap[j])
        BY <1>3, <3>4
      <4>2. NB(sched_heap[k], sched_heap[i])
        BY <1>4, <1>5, <2>1, <2>5, <3>1, <4>1
      <4> QED BY <2>4, <2>7, <3>1, <3>4, <4>2
    <3>5. CASE k # i /\ k \div 2 # i /\ k \div 2 # j
      BY <1>3, <2>4, <2>7, <3>1, <3>5
    <3> QED BY <3>2, <3>3, <3>4, <3>5
  <2>8. SiftLocal'
    BY <1>1, <2>2, <2>3, <2>7, HigherNB DEF SiftLocal, Higher, HasHigherPrio, Older, NB, NotBefore
  <2>9. ASSUME j \in 2..heap_size, NEW c \in 2..heap_size, c \div 2 = j
        PROVE  NB(sched_heap'[c], sched_heap'[j \div 2])
    <3>1. c \in 1..heap_size /\ c # j /\ j \div 2 \in 1..(j - 1)
      BY <1>2, <2>9, Halves
    <3>2. sched_heap'[j \div 2] = sched_heap[j \div 2] /\ j \div 2 \in 1..heap_size
      BY <1>2, <2>1, <2>4, <3>1
    <3>3. NB(sched_heap[j], sched_heap[j \div 2])
      BY <1>3, <2>1, <2>9
    <3>4. CASE c = i
      BY <2>4, <3>2, <3>3, <3>4
    <3>5. CASE c # i
      <4>1. NB(sched_heap[c], sched_heap[j])
        BY <1>3, <2>9, <3>5
      <4>2. NB(sched_heap[c], sched_heap[j \div 2])
        BY <1>4, <1>5, <2>1, <3>1, <3>2, <3>3, <4>1
      <4> QED BY <2>4, <3>1, <3>2, <3>5, <4>2
    <3> QED BY <3>4, <3>5
  <2>10. Bridged'
    BY <1>1, <2>2, <2>3, <2>9 DEF Bridged
  <2> QED BY <2>3, <2>8, <2>10 DEF IInv
<1>7. CASE ~(index > 1 /\ index <= heap_size /\ Higher(index, index \div 2))
  <2>1. Sifted
    BY <1>7 DEF UpHeap
  <2>2. \A k \in 2..heap_size : ~Higher(k, k \div 2)
    BY <1>2, <1>3, <1>7, HigherNB
  <2> QED BY <1>1, <2>1, <2>2, SiftedKeeps DEF Sifted, Members
<1> QED BY <1>6, <1>7

\* A turn of down_heap's loop keeps the invariant and who is queued.
LEMMA DownHeapStep == ASSUME IInv, DownHeap PROVE IInv' /\ Members' = Members
<1>1. pc = "down_heap" /\ Sifting
      /\ UNCHANGED <<prio, tcbL, tcbH, heap_size, countL, countH, again>>
  BY DEF DownHeap, Sifting
<1>2. heap_size \in Nat /\ index \in Nat /\ index >= 1
  BY <1>1, MaxNat DEF IInv, TypeOK, AgainInv
<1>3. \A k \in 2..heap_size : k \div 2 # index => NB(sched_heap[k], sched_heap[k \div 2])
  BY <1>1, HigherNB DEF IInv, SiftLocal
<1>4. \A k \in 1..heap_size : sched_heap[k] \in Tids
  BY MaxNat DEF IInv, TypeOK
<1>5. /\ \A t, u, v \in Tids : NB(t, u) /\ NB(u, v) => NB(t, v)
      /\ \A t, u \in Tids : NB(t, u) \/ NB(u, t)
      /\ \A t \in Tids : NB(t, t)
  BY OrderFacts DEF IInv
<1> DEFINE i == index
           j == SmallerChild
<1>6. ASSUME i * 2 <= heap_size
      PROVE  /\ j \in 2..heap_size /\ j \in 1..heap_size /\ j \div 2 = i /\ i \in 1..(j - 1)
             /\ \A k \in 2..heap_size : k \div 2 = i => NB(sched_heap[k], sched_heap[j])
  <2>1. j \in {i * 2, i * 2 + 1} /\ j <= heap_size
    BY <1>2, <1>6 DEF SmallerChild
  <2>2. j \in 2..heap_size /\ j \in 1..heap_size /\ j \div 2 = i /\ i \in 1..(j - 1)
    BY <1>2, <2>1
  <2>3. ASSUME NEW k \in 2..heap_size, k \div 2 = i PROVE NB(sched_heap[k], sched_heap[j])
    <3>1. k = i * 2 \/ k = i * 2 + 1
      BY <1>2, <2>3
    <3>2. sched_heap[k] \in Tids /\ sched_heap[j] \in Tids
      BY <1>4, <2>2
    <3>3. CASE k = j
      BY <1>5, <3>2, <3>3
    <3>4. CASE k # j /\ k = i * 2
      <4>1. j = i * 2 + 1 /\ Higher(j, k)
        BY <3>4 DEF SmallerChild
      <4> QED BY <1>5, <3>2, <4>1, HigherNB
    <3>5. CASE k # j /\ k = i * 2 + 1
      <4>1. j = i * 2 /\ ~Higher(k, j)
        BY <3>5, <2>3 DEF SmallerChild
      <4> QED BY <4>1, HigherNB
    <3> QED BY <3>1, <3>3, <3>4, <3>5
  <2> QED BY <2>2, <2>3
<1>7. CASE i * 2 <= heap_size /\ Higher(j, i)
  <2>1. /\ j \in 2..heap_size /\ j \in 1..heap_size /\ j \div 2 = i /\ i \in 1..(j - 1)
        /\ i \in 1..heap_size /\ i # j
        /\ \A k \in 2..heap_size : k \div 2 = i => NB(sched_heap[k], sched_heap[j])
    BY <1>2, <1>6, <1>7
  <2>2. Swap(j, i) /\ index' = j /\ pc' = pc
    BY <1>1, <1>7 DEF DownHeap
  <2> HIDE DEF j
  <2>3. /\ TypeOK' /\ IndexRight' /\ AgainInv' /\ CountInv' /\ Members' = Members
        /\ \A t, u : NB(t, u)' <=> NB(t, u)
    BY <1>1, <2>1, <2>2, SwapKeeps
  <2>4. /\ sched_heap'[i] = sched_heap[j] /\ sched_heap'[j] = sched_heap[i]
        /\ \A k \in 1..heap_size : k # i /\ k # j => sched_heap'[k] = sched_heap[k]
    BY <2>1, <2>2, SwapFacts
  <2>5. NB(sched_heap[i], sched_heap[j])
    BY <1>4, <1>5, <1>7, <2>1, HigherNB
  <2>7. ASSUME NEW k \in 2..heap_size, k \div 2 # j
        PROVE  NB(sched_heap'[k], sched_heap'[k \div 2])
    <3>1. k \div 2 \in 1..heap_size /\ k \in 1..heap_size /\ k \div 2 # k
      BY <1>2, Halves
    <3>2. CASE k = j
      BY <2>1, <2>4, <2>5, <3>2
    <3>3. CASE k # j /\ k \div 2 = i
      <4>1. NB(sched_heap[k], sched_heap[j])
        BY <2>1, <3>3
      <4> QED BY <2>4, <3>1, <3>3, <4>1
    <3>4. CASE k = i
      <4>1. NB(sched_heap[j], sched_heap[i \div 2])
        BY <1>1, <2>1, <3>4 DEF IInv, Bridged
      <4> QED BY <2>4, <2>7, <3>1, <3>4, <4>1
    <3>5. CASE k # i /\ k # j /\ k \div 2 # i
      BY <1>3, <2>4, <2>7, <3>1, <3>5
    <3> QED BY <3>2, <3>3, <3>4, <3>5
  <2>8. SiftLocal'
    BY <1>1, <2>2, <2>3, <2>7, HigherNB DEF SiftLocal, Higher, HasHigherPrio, Older, NB, NotBefore
  <2>9. ASSUME NEW c \in 2..heap_size, c \div 2 = j
        PROVE  NB(sched_heap'[c], sched_heap'[j \div 2])
    <3>1. c \in 1..heap_size /\ c # j /\ c # i
      BY <1>2, <2>1, <2>9, Halves
    <3>2. NB(sched_heap[c], sched_heap[j])
      BY <1>3, <2>1, <2>9
    <3> QED BY <2>1, <2>4, <3>1, <3>2
  <2>10. Bridged'
    BY <1>1, <2>2, <2>3, <2>9 DEF Bridged
  <2> QED BY <2>3, <2>8, <2>10 DEF IInv
<1>8. CASE ~(i * 2 <= heap_size /\ Higher(j, i))
  <2>1. Sifted
    BY <1>8 DEF DownHeap
  <2>2. ASSUME NEW k \in 2..heap_size PROVE NB(sched_heap[k], sched_heap[k \div 2])
    <3>1. CASE k \div 2 = i
      <4>1. i * 2 <= heap_size
        BY <1>2, <3>1
      <4>2. NB(sched_heap[k], sched_heap[j]) /\ j \in 1..heap_size
        BY <1>6, <3>1, <4>1
      <4>3. NB(sched_heap[j], sched_heap[i])
        BY <1>8, <4>1, HigherNB
      <4>4. i \in 1..heap_size /\ k \in 1..heap_size
        BY <1>2, <4>1
      <4> HIDE DEF j
      <4> QED BY <1>4, <1>5, <3>1, <4>2, <4>3, <4>4
    <3> QED BY <1>3, <3>1
  <2> QED BY <1>1, <2>1, <2>2, SiftedKeeps, HigherNB DEF Sifted, Members
<1> QED BY <1>7, <1>8

-----------------------------------------------------------------------------
\* The global counters move on, past those of every task in the heap.
LEMMA TickFacts ==
  ASSUME TypeOK, Tick
  PROVE  /\ countL' \in 0..(COUNT_MAX - 1) /\ countH' \in Nat
         /\ countH < countH' \/ (countH = countH' /\ countL < countL')
<1>1. countL \in 0..(COUNT_MAX - 1) /\ countH \in Nat /\ COUNT_MAX \in Nat
  BY HeapAssumption DEF TypeOK
<1> QED BY <1>1 DEF Tick

\* sched_insert puts a task that is not there in the last place.
LEMMA PutLastKeeps ==
  ASSUME IInv, NEW t \in Tids, t \notin Members, pc \in {"idle", "insert"},
         PutLast(t), prio' = prio, again' = {}
  PROVE  /\ IInv' /\ Members' = Members \cup {t}
         /\ \A u \in Members : tcbH'[u] = tcbH[u] /\ tcbL'[u] = tcbL[u]
         /\ \A u \in Members : Older(u, t)' /\ ~Older(t, u)'
<1> DEFINE n == heap_size + 1
<1>1. TypeOK /\ IndexRight /\ CountInv /\ n \in 1..MAX_TASKS /\ heap_size \in Nat
      /\ heap_size' = n /\ MAX_TASKS \in Nat
  <2>1. TypeOK /\ IndexRight /\ CountInv /\ MAX_TASKS \in Nat /\ heap_size' = n
    BY MaxNat DEF IInv, PutLast
  <2>2. heap_size \in 0..MAX_TASKS
    BY <2>1 DEF TypeOK
  <2>3. heap_size < MAX_TASKS
    BY <2>1, RoomForOne
  <2> QED BY <2>1, <2>2, <2>3
<1>2. /\ sched_heap' = [sched_heap EXCEPT ![n] = t] /\ heap_idx' = [heap_idx EXCEPT ![t] = n]
      /\ tcbL' = [tcbL EXCEPT ![t] = countL] /\ tcbH' = [tcbH EXCEPT ![t] = countH]
      /\ Tick /\ pc' = "up_heap" /\ index' = n
  BY DEF PutLast
<1> HIDE DEF n
<1>3. TypeOK'
  <2>1. countL' \in 0..(COUNT_MAX - 1) /\ countH' \in Nat
    BY <1>1, <1>2, TickFacts
  <2>2. n \in 0..MAX_TASKS
    BY <1>1
  <2>3. countL \in 0..(COUNT_MAX - 1) /\ countH \in Nat
    BY <1>1 DEF TypeOK
  <2> QED BY <1>1, <1>2, <2>1, <2>2, <2>3 DEF TypeOK
<1>4. /\ sched_heap'[n] = t /\ \A k \in 1..heap_size : sched_heap'[k] = sched_heap[k]
      /\ \A k \in 1..heap_size : sched_heap[k] \in Members
      /\ 1..n = 1..heap_size \cup {n} /\ n \notin 1..heap_size
  BY <1>1, <1>2 DEF TypeOK, Members, n
<1>5. Members' = Members \cup {t}
  BY <1>1, <1>4 DEF Members
<1>6. Members \subseteq Tids
  BY <1>1, <1>4 DEF TypeOK, Members
<1>7. IndexRight'
  <2> SUFFICES ASSUME NEW k \in 1..n PROVE heap_idx'[sched_heap'[k]] = k
    BY <1>1 DEF IndexRight
  <2>1. heap_idx \in [Tids -> 0..MAX_TASKS] /\ \A j \in 1..heap_size : heap_idx[sched_heap[j]] = j
    BY <1>1 DEF TypeOK, IndexRight
  <2>2. CASE k = n
    BY <1>2, <1>4, <2>1, <2>2
  <2>3. CASE k # n
    <3>1. k \in 1..heap_size
      BY <1>4, <2>3
    <3>2. sched_heap'[k] = sched_heap[k] /\ sched_heap[k] \in Tids /\ sched_heap[k] # t
      BY <1>4, <1>6, <3>1
    <3> QED BY <1>2, <2>1, <3>1, <3>2
  <2> QED BY <2>2, <2>3
<1>8. \A u \in Members : tcbH'[u] = tcbH[u] /\ tcbL'[u] = tcbL[u]
  BY <1>1, <1>2, <1>6 DEF TypeOK
<1>9. tcbH'[t] = countH /\ tcbL'[t] = countL
  BY <1>1, <1>2 DEF TypeOK
<1>10. \A u \in Tids : tcbH[u] \in Nat /\ tcbL[u] \in Int /\ countH \in Nat /\ countL \in Int
  BY <1>1 DEF TypeOK
<1>11. \A u \in Members : Older(u, t)' /\ ~Older(t, u)'
  BY <1>1, <1>6, <1>8, <1>9, <1>10 DEF CountInv, Older
<1>12. CountInv'
  <2>1. countH < countH' \/ (countH = countH' /\ countL < countL')
    BY <1>1, <1>2, TickFacts
  <2>2. countH' \in Nat /\ countL' \in Int
    BY <1>3 DEF TypeOK
  <2>3. ASSUME NEW u \in Members'
        PROVE  tcbH'[u] < countH' \/ (tcbH'[u] = countH' /\ tcbL'[u] < countL')
    <3>1. CASE u = t
      BY <1>9, <2>1, <3>1
    <3>2. CASE u \in Members
      <4>1. tcbH[u] < countH \/ (tcbH[u] = countH /\ tcbL[u] < countL)
        BY <1>1, <3>2 DEF CountInv
      <4> QED BY <1>6, <1>8, <1>10, <2>1, <2>2, <3>2, <4>1
    <3> QED BY <1>5, <3>1, <3>2
  <2>4. ASSUME NEW u \in Members', NEW v \in Members', u # v
        PROVE  tcbH'[u] # tcbH'[v] \/ tcbL'[u] # tcbL'[v]
    <3>1. \A w \in Members : tcbH'[w] # tcbH'[t] \/ tcbL'[w] # tcbL'[t]
      BY <1>1, <1>6, <1>8, <1>9, <1>10 DEF CountInv
    <3>2. CASE u \in Members /\ v \in Members
      BY <1>1, <1>8, <2>4, <3>2 DEF CountInv
    <3> QED BY <1>5, <2>4, <3>1, <3>2
  <2> QED BY <2>3, <2>4 DEF CountInv
<1>13. AgainInv'
  BY <1>1, <1>2 DEF AgainInv, Sifting
<1>14. SiftLocal'
  <2> SUFFICES ASSUME NEW k \in 2..n, k # n PROVE ~Higher(k, k \div 2)'
    BY <1>1, <1>2 DEF SiftLocal
  <2>1. k \in 2..heap_size /\ k \in 1..heap_size /\ k \div 2 \in 1..heap_size
    BY <1>1, Halves DEF n
  <2>2. ~Higher(k, k \div 2)
    BY <2>1 DEF IInv, SiftLocal
  <2>3. sched_heap'[k] = sched_heap[k] /\ sched_heap'[k \div 2] = sched_heap[k \div 2]
        /\ sched_heap[k] \in Members /\ sched_heap[k \div 2] \in Members
    BY <1>4, <2>1
  <2> QED BY <1>8, <2>2, <2>3 DEF Higher, HasHigherPrio, Older
<1>15. Bridged'
  <2>1. \A c \in 2..n : c \div 2 # n
    BY <1>1
  <2> QED BY <1>1, <1>2, <2>1 DEF Bridged
<1> QED BY <1>3, <1>5, <1>7, <1>8, <1>11, <1>12, <1>13, <1>14, <1>15 DEF IInv

\* sched_remove puts the last element in the place of the one taken out.
LEMMA TakeOutKeeps ==
  ASSUME IInv, NEW t \in Members, pc = "idle", TakeOut(t),
         prio' \in [Tids -> Prios], \A u \in Tids \ {t} : prio'[u] = prio[u],
         again' \in {{}, {t}}
  PROVE  IInv' /\ Members' = Members \ {t}
<1> DEFINE n == heap_size
           i == heap_idx[t]
           last == sched_heap[n]
<1>1. TypeOK /\ IndexRight /\ CountInv /\ AgainInv /\ MAX_TASKS \in Nat
  BY MaxNat DEF IInv
<1>2. /\ \A k \in 1..n : k \in 1..MAX_TASKS /\ sched_heap[k] \in Tids /\ sched_heap[k] \in Members
      /\ Members \subseteq Tids /\ n \in Nat
  BY <1>1 DEF TypeOK, Members
<1>3. i \in 1..n /\ sched_heap[i] = t /\ n \in 1..n /\ heap_idx[last] = n
  <2>1. PICK k \in 1..n : sched_heap[k] = t
    BY DEF Members
  <2> QED BY <1>1, <1>2, <2>1 DEF IndexRight
<1>4. /\ sched_heap' = [sched_heap EXCEPT ![i] = last]
      /\ heap_idx' = [heap_idx EXCEPT ![last] = i]
      /\ heap_size' = n - 1 /\ index' = i
      /\ pc' = IF i > 1 /\ HasHigherPrio(sched_heap', prio', i, i \div 2)
               THEN "up_heap" ELSE "down_heap"
      /\ UNCHANGED <<tcbL, tcbH, countL, countH>>
  BY DEF TakeOut
<1> HIDE DEF n, i, last
<1>5. last \in Tids /\ last = sched_heap[n]
  BY <1>2, <1>3 DEF last
<1>6. TypeOK'
  <2>1. n \in 0..MAX_TASKS /\ i \in 0..MAX_TASKS /\ n - 1 \in 0..MAX_TASKS
    BY <1>1, <1>3 DEF TypeOK, n
  <2>2. /\ sched_heap' \in [1..MAX_TASKS -> Tids]
        /\ heap_idx' \in [Tids -> 0..MAX_TASKS]
    BY <1>1, <1>4, <1>5, <2>1 DEF TypeOK
  <2>3. heap_size' \in 0..MAX_TASKS /\ index' \in 0..MAX_TASKS
    BY <1>4, <2>1
  <2>4. pc' \in {"idle", "up_heap", "down_heap", "insert"}
    BY <1>4
  <2>5. again' \subseteq Tids
    BY <1>2
  <2> QED BY <1>1, <1>4, <2>2, <2>3, <2>4, <2>5 DEF TypeOK
<1>7. /\ \A k \in 1..(n - 1) : k \in 1..n /\ k # n
      /\ \A k \in 1..(n - 1) : k # i => sched_heap'[k] = sched_heap[k]
      /\ i # n => sched_heap'[i] = last /\ i \in 1..(n - 1)
  BY <1>1, <1>2, <1>3, <1>4 DEF TypeOK
<1>8. \A j, k \in 1..n : sched_heap[j] = sched_heap[k] => j = k
  BY <1>1 DEF IndexRight, n
<1>9. \A k \in 1..(n - 1) : sched_heap'[k] # t /\ sched_heap'[k] \in Members
  BY <1>2, <1>3, <1>5, <1>7, <1>8
<1>10. Members' = Members \ {t}
  <2>1. \A k \in 1..n : sched_heap[k] # t => \E j \in 1..(n - 1) : sched_heap'[j] = sched_heap[k]
    <3> TAKE k \in 1..n
    <3> HAVE sched_heap[k] # t
    <3>1. CASE k = n
      BY <1>3, <1>5, <1>7, <3>1
    <3>2. CASE k # n
      <4>1. k \in 1..(n - 1) /\ k # i
        BY <1>2, <1>3, <3>2
      <4> QED BY <1>7, <4>1
    <3> QED BY <3>1, <3>2
  <2>2. Members = {sched_heap[k] : k \in 1..n} /\ Members' = {sched_heap'[k] : k \in 1..(n - 1)}
    BY <1>4 DEF Members, n
  <2> QED BY <1>9, <2>1, <2>2
<1>11. IndexRight'
  <2> SUFFICES ASSUME NEW k \in 1..(n - 1) PROVE heap_idx'[sched_heap'[k]] = k
    BY <1>4 DEF IndexRight
  <2>1. heap_idx \in [Tids -> 0..MAX_TASKS] /\ \A j \in 1..n : heap_idx[sched_heap[j]] = j
    BY <1>1 DEF TypeOK, IndexRight, n
  <2>2. CASE k = i
    BY <1>4, <1>5, <1>7, <2>1, <2>2
  <2>3. CASE k # i
    <3>1. sched_heap'[k] = sched_heap[k] /\ sched_heap[k] # last /\ sched_heap[k] \in Tids /\ k \in 1..n
      BY <1>2, <1>3, <1>5, <1>7, <1>8, <2>3
    <3> QED BY <1>4, <2>1, <3>1
  <2> QED BY <2>2, <2>3
<1>12. CountInv'
  BY <1>1, <1>4, <1>10 DEF CountInv
<1>13. AgainInv'
  BY <1>2, <1>3, <1>4, <1>10 DEF AgainInv, Sifting
<1> DEFINE H == sched_heap'
           After(u, v) == NotBefore(prio', tcbH', tcbL', u, v)
<1>14. \A u, v \in Members \ {t} : NB(u, v) => After(u, v)
  BY <1>2, <1>4 DEF NB, NotBefore
<1>15. /\ \A u, v, w \in Tids : NB(u, v) /\ NB(v, w) => NB(u, w)
       /\ \A u, v, w \in Tids : After(u, v) /\ After(v, w) => After(u, w)
       /\ \A u, v \in Tids : After(u, v) \/ After(v, u)
  <2>1. prio' \in [Tids -> Nat] /\ tcbH' \in [Tids -> Nat] /\ tcbL' \in [Tids -> Nat]
    <3>1. 0..(COUNT_MAX - 1) \subseteq Nat
      BY HeapAssumption
    <3> QED BY <1>6, <3>1, HeapAssumption DEF TypeOK
  <2>2. \A u, v, w \in Tids : NB(u, v) /\ NB(v, w) => NB(u, w)
    BY <1>1, OrderFacts
  <2> QED BY <2>1, <2>2, Preorder
<1>16. \A k \in 2..n : NB(sched_heap[k], sched_heap[k \div 2])
  BY HigherNB DEF IInv, SiftLocal, n
<1>17. /\ \A k, j : Higher(k, j)' <=> ~After(H[k], H[j])
       /\ \A k, j : HasHigherPrio(H, prio', k, j) <=> ~After(H[k], H[j])
  BY <1>4 DEF Higher, HasHigherPrio, Older, NotBefore
<1>18. Bridged' <=> (i \in 2..(n - 1) =>
         \A k \in 2..(n - 1) : k \div 2 = i => After(H[k], H[i \div 2]))
  BY <1>4 DEF Bridged, Sifting, NB
<1>19. pc' = IF i > 1 /\ ~After(H[i], H[i \div 2]) THEN "up_heap" ELSE "down_heap"
  BY <1>4, <1>17
<1> HIDE DEF After, H
<1>20. /\ \A k \in 1..(n - 1) : k # i => H[k] = sched_heap[k]
       /\ \A k \in 1..(n - 1) : H[k] \in Members \ {t} /\ H[k] \in Tids
  BY <1>2, <1>7, <1>9 DEF H
\* Pairs that keep their places.
<1>21. ASSUME NEW k \in 2..(n - 1), k # i, k \div 2 # i
       PROVE  After(H[k], H[k \div 2])
  <2>1. k \in 2..n /\ k \in 1..(n - 1) /\ k \div 2 \in 1..(n - 1)
    BY <1>2, Halves
  <2> QED BY <1>14, <1>16, <1>20, <1>21, <2>1
\* The children of the place, under its parent.
<1>22. ASSUME NEW k \in 2..(n - 1), k \div 2 = i, i > 1
       PROVE  After(H[k], H[i \div 2])
  <2>1. k \in 2..n /\ i \in 2..n /\ k \in 1..(n - 1) /\ i \div 2 \in 1..(n - 1)
        /\ k # i /\ i \div 2 # i
    BY <1>2, <1>3, <1>22, Halves
  <2>2. NB(sched_heap[k], sched_heap[i]) /\ NB(sched_heap[i], sched_heap[i \div 2])
    BY <1>16, <1>22, <2>1
  <2>3. /\ H[k] = sched_heap[k] /\ H[i \div 2] = sched_heap[i \div 2]
        /\ H[k] \in Members \ {t} /\ H[i \div 2] \in Members \ {t}
    BY <1>20, <2>1
  <2>4. sched_heap[i] \in Tids /\ sched_heap[k] \in Tids /\ sched_heap[i \div 2] \in Tids
    BY <1>2, <1>3, <2>3
  <2>5. NB(sched_heap[k], sched_heap[i \div 2])
    BY <1>15, <2>2, <2>4
  <2> QED BY <1>14, <2>3, <2>5
<1>23. Bridged'
  <2>1. i \in 2..(n - 1) => i > 1
    BY <1>2
  <2> QED BY <1>18, <1>22, <2>1
<1>24. SiftLocal'
  <2> SUFFICES ASSUME NEW k \in 2..(n - 1), ~After(H[k], H[k \div 2])
               PROVE  \/ pc' = "up_heap" /\ k = i
                      \/ pc' = "down_heap" /\ k \div 2 = i
    BY <1>4, <1>17 DEF SiftLocal
  <2>1. k = i \/ k \div 2 = i
    BY <1>21
  <2>2. CASE k = i
    <3>1. i > 1
      BY <1>2, <2>2
    <3> QED BY <1>19, <2>2, <3>1
  <2>3. CASE k \div 2 = i /\ pc' = "up_heap"
    <3>1. i > 1 /\ ~After(H[i], H[i \div 2])
      BY <1>19, <2>3
    <3>2. After(H[k], H[i \div 2])
      BY <1>22, <2>3, <3>1
    <3>3. k \in 1..(n - 1) /\ i \in 1..(n - 1) /\ i \div 2 \in 1..(n - 1)
      BY <1>2, <1>3, <2>3, <3>1, Halves
    <3>4. H[k] \in Tids /\ H[i] \in Tids /\ H[i \div 2] \in Tids
      BY <1>20, <3>3
    <3>5. After(H[i \div 2], H[i])
      BY <1>15, <3>1, <3>4
    <3>6. After(H[k], H[i])
      BY <1>15, <3>2, <3>4, <3>5
    <3> QED BY <2>3, <3>6
  <2> QED BY <1>19, <2>1, <2>2, <2>3
<1> QED BY <1>6, <1>10, <1>11, <1>12, <1>13, <1>23, <1>24 DEF IInv

-----------------------------------------------------------------------------
\* The queue that the heap stands for, after an insertion and after a removal.
LEMMA InsertQueue ==
  ASSUME IInv, IInv', NEW t \in Tids, t \notin Members, Members' = Members \cup {t},
         \A u \in Members : tcbH'[u] = tcbH[u] /\ tcbL'[u] = tcbL[u],
         \A u \in Members : Older(u, t)' /\ ~Older(t, u)'
  PROVE  Queue' = Q!Insert(Queue, t)
<1>1. ~Older(t, t)'
  <2>1. tcbH'[t] \in Nat /\ tcbL'[t] \in Int
    BY DEF IInv, TypeOK
  <2> QED BY <2>1 DEF Older
<1>2. \A u, v \in Members : Older(u, v)' <=> Older(u, v)
  BY DEF Older
<1>3. Members' = Q!Insert(Queue, t).members
  BY DEF Q!Insert, Queue
<1> DEFINE Ahead(u) == IF u \in Members THEN {v \in Members : Older(v, u)} ELSE {}
           AheadP(u) == IF u \in Members' THEN {v \in Members' : Older(v, u)'} ELSE {}
<1>4. ASSUME NEW u \in Tids PROVE AheadP(u) = IF u = t THEN Members \ {t} ELSE Ahead(u) \ {t}
  <2>1. CASE u = t
    BY <1>1, <2>1
  <2>2. CASE u \in Members
    BY <1>2, <2>2
  <2>3. CASE u # t /\ u \notin Members
    BY <2>3
  <2> QED BY <2>1, <2>2, <2>3
<1>5. Queue' = [members |-> Members', ahead |-> [u \in Tids |-> AheadP(u)]]
  BY DEF Queue
<1>6. Queue = [members |-> Members, ahead |-> [u \in Tids |-> Ahead(u)]]
  BY DEF Queue
<1> HIDE DEF Ahead, AheadP
<1> QED BY <1>4, <1>5, <1>6 DEF Q!Insert

\* Without a task, the queue is what it was but for that task.
LEMMA RemoveQueue ==
  ASSUME NEW t \in Members, Members' = Members \ {t}, UNCHANGED <<tcbH, tcbL>>
  PROVE  Queue' = Q!Remove(Queue, t)
<1> DEFINE Ahead(u) == IF u \in Members THEN {v \in Members : Older(v, u)} ELSE {}
           AheadP(u) == IF u \in Members' THEN {v \in Members' : Older(v, u)'} ELSE {}
<1>1. ASSUME NEW u \in Tids PROVE AheadP(u) = IF u = t THEN {} ELSE Ahead(u) \ {t}
  BY DEF Older
<1>2. Queue' = [members |-> Members', ahead |-> [u \in Tids |-> AheadP(u)]]
  BY DEF Queue
<1>3. Queue = [members |-> Members, ahead |-> [u \in Tids |-> Ahead(u)]]
  BY DEF Queue
<1> HIDE DEF Ahead, AheadP
<1> QED BY <1>1, <1>2, <1>3 DEF Q!Remove

\* The queue depends on who is in the heap and on their counters only.
LEMMA SameQueue ==
  ASSUME Members' = Members, UNCHANGED <<tcbH, tcbL>>
  PROVE  Queue' = Queue
  BY DEF Queue, Older

-----------------------------------------------------------------------------
\* Each step keeps the invariant, and is a step of the queue or leaves it alone.
Implements == [Q!Next]_<<Queue, prio>>

\* A task enters by sched_insert.
LEMMA EnterStep == ASSUME IInv, NEW t \in Tids, Enter(t) PROVE IInv' /\ Implements
<1>1. pc = "idle" /\ t \notin Members /\ PutLast(t) /\ prio' = prio /\ again' = {}
  BY DEF Enter, IInv, AgainInv
<1>2. /\ IInv' /\ Members' = Members \cup {t}
      /\ \A u \in Members : tcbH'[u] = tcbH[u] /\ tcbL'[u] = tcbL[u]
      /\ \A u \in Members : Older(u, t)' /\ ~Older(t, u)'
  BY <1>1, PutLastKeeps
<1>3. Queue' = Q!Insert(Queue, t)
  BY <1>1, <1>2, InsertQueue
<1>4. t \notin Queue.members
  BY <1>1 DEF Queue
<1> QED BY <1>1, <1>2, <1>3, <1>4 DEF Implements, Q!Next, Q!Enter

\* A task whose priority was changed is inserted again.
LEMMA ReinsertStep == ASSUME IInv, Reinsert PROVE IInv' /\ Implements
<1>1. PICK t \in again : PutLast(t)
  BY DEF Reinsert
<1>2. pc = "insert" /\ t \in Tids /\ t \notin Members /\ prio' = prio /\ again' = {}
  BY <1>1 DEF Reinsert, IInv, AgainInv, TypeOK
<1>3. /\ IInv' /\ Members' = Members \cup {t}
      /\ \A u \in Members : tcbH'[u] = tcbH[u] /\ tcbL'[u] = tcbL[u]
      /\ \A u \in Members : Older(u, t)' /\ ~Older(t, u)'
  BY <1>1, <1>2, PutLastKeeps
<1>4. Queue' = Q!Insert(Queue, t)
  BY <1>2, <1>3, InsertQueue
<1>5. t \notin Queue.members
  BY <1>2 DEF Queue
<1> QED BY <1>2, <1>3, <1>4, <1>5 DEF Implements, Q!Next, Q!Enter

\* A task leaves by sched_remove.
LEMMA LeaveStep == ASSUME IInv, NEW t \in Tids, Leave(t) PROVE IInv' /\ Implements
<1>1. pc = "idle" /\ t \in Members /\ TakeOut(t) /\ prio' = prio /\ again' = {}
  BY DEF Leave, IInv, AgainInv
<1>2. prio \in [Tids -> Prios]
  BY DEF IInv, TypeOK
<1>3. IInv' /\ Members' = Members \ {t}
  BY <1>1, <1>2, TakeOutKeeps
<1>4. Queue' = Q!Remove(Queue, t)
  BY <1>1, <1>3, RemoveQueue DEF TakeOut
<1>5. t \in Queue.members
  BY <1>1 DEF Queue
<1>6. prio' = [prio EXCEPT ![t] = prio[t]] /\ prio[t] \in Prios
  BY <1>1, <1>2
<1> QED BY <1>3, <1>4, <1>5, <1>6 DEF Implements, Q!Next, Q!Leave

\* A queued task is taken out so that its priority can change.
LEMMA RequeueStep ==
  ASSUME IInv, NEW t \in Tids, NEW p \in Prios, Requeue(t, p) PROVE IInv' /\ Implements
<1>1. pc = "idle" /\ t \in Members /\ TakeOut(t) /\ prio' = [prio EXCEPT ![t] = p]
      /\ again' = {t}
  BY DEF Requeue
<1>2. prio' \in [Tids -> Prios] /\ \A u \in Tids \ {t} : prio'[u] = prio[u]
  BY <1>1 DEF IInv, TypeOK
<1>3. IInv' /\ Members' = Members \ {t}
  BY <1>1, <1>2, TakeOutKeeps
<1>4. Queue' = Q!Remove(Queue, t)
  BY <1>1, <1>3, RemoveQueue DEF TakeOut
<1>5. t \in Queue.members
  BY <1>1 DEF Queue
<1> QED BY <1>1, <1>3, <1>4, <1>5 DEF Implements, Q!Next, Q!Leave

\* A task that is not queued changes its priority.
LEMMA ChangeStep ==
  ASSUME IInv, NEW t \in Tids, NEW p \in Prios, Change(t, p) PROVE IInv' /\ Implements
<1>1. /\ pc = "idle" /\ t \notin Members /\ prio' = [prio EXCEPT ![t] = p]
      /\ UNCHANGED <<heap_idx, tcbL, tcbH, sched_heap, heap_size, countL, countH,
                     pc, index, again>>
  BY DEF Change
<1>2. prio \in [Tids -> Prios] /\ Members' = Members /\ Queue' = Queue
  BY <1>1, SameQueue DEF IInv, TypeOK, Members
<1>3. TypeOK' /\ IndexRight' /\ AgainInv' /\ CountInv' /\ Bridged'
  BY <1>1, <1>2 DEF IInv, TypeOK, IndexRight, AgainInv, CountInv, Bridged, Sifting
<1>4. SiftLocal'
  <2> SUFFICES ASSUME NEW k \in 2..heap_size PROVE ~Higher(k, k \div 2)'
    BY <1>1 DEF SiftLocal
  <2>1. k \in 1..heap_size /\ k \div 2 \in 1..heap_size /\ ~Higher(k, k \div 2)
    <3>1. heap_size \in Nat
      BY MaxNat DEF IInv, TypeOK
    <3> QED BY <1>1, <3>1, Halves DEF IInv, SiftLocal
  <2>2. sched_heap[k] \in Members /\ sched_heap[k \div 2] \in Members /\ Members \subseteq Tids
    BY <2>1, MaxNat DEF Members, IInv, TypeOK
  <2>3. prio'[sched_heap[k]] = prio[sched_heap[k]]
        /\ prio'[sched_heap[k \div 2]] = prio[sched_heap[k \div 2]]
    BY <1>1, <1>2, <2>2
  <2> QED BY <1>1, <2>1, <2>3 DEF Higher, HasHigherPrio, Older
<1>5. t \notin Queue.members
  BY <1>1 DEF Queue
<1> QED BY <1>1, <1>2, <1>3, <1>4, <1>5 DEF IInv, Implements, Q!Next, Q!Change

\* Every step keeps the invariant and is one of the queue's, or none.
LEMMA NextStep == ASSUME IInv, [Next]_vars PROVE IInv' /\ Implements
<1>1. CASE UpHeap
  <2>1. IInv' /\ Members' = Members
    BY <1>1, UpHeapStep
  <2> QED BY <1>1, <2>1, SameQueue DEF UpHeap, Implements
<1>2. CASE DownHeap
  <2>1. IInv' /\ Members' = Members
    BY <1>2, DownHeapStep
  <2> QED BY <1>2, <2>1, SameQueue DEF DownHeap, Implements
<1>3. CASE UNCHANGED vars
  <2>1. Members' = Members /\ Queue' = Queue
    BY <1>3, SameQueue DEF Members, vars
  <2>2. TypeOK' /\ IndexRight' /\ AgainInv' /\ CountInv' /\ Bridged' /\ SiftLocal'
    BY <1>3, <2>1 DEF vars, IInv, TypeOK, IndexRight, AgainInv, CountInv, Bridged,
                      Sifting, SiftLocal, Higher, HasHigherPrio, Older, NB, NotBefore
  <2> QED BY <1>3, <2>1, <2>2 DEF IInv, Implements, vars
<1> QED BY <1>1, <1>2, <1>3, EnterStep, LeaveStep, RequeueStep, ChangeStep, ReinsertStep
        DEF Next

-----------------------------------------------------------------------------
\* Between operations nothing in the heap goes before the element at its top:
\* of those that would, take the one in the lowest place; its parent does not,
\* and it does not go before its parent.
LEMMA TopFirst ==
  ASSUME IInv, pc = "idle" PROVE \A k \in 1..heap_size : NB(sched_heap[k], sched_heap[1])
<1> DEFINE Bad == {k \in 1..heap_size : ~NB(sched_heap[k], sched_heap[1])}
<1>1. heap_size \in Nat /\ \A k \in 1..heap_size : sched_heap[k] \in Tids
  BY MaxNat DEF IInv, TypeOK
<1>2. \A k \in 2..heap_size : NB(sched_heap[k], sched_heap[k \div 2])
  BY HigherNB DEF IInv, SiftLocal
<1>3. ASSUME Bad # {} PROVE FALSE
  <2>1. PICK m \in Bad : \A k \in Bad : m <= k
    <3>1. Bad \subseteq Nat
      OBVIOUS
    <3> QED BY <1>3, <3>1, Least
  <2>2. m \in 1..heap_size /\ m \in Nat /\ ~NB(sched_heap[m], sched_heap[1])
    OBVIOUS
  <2>3. m # 1
    BY <1>1, <2>2, OrderFacts DEF IInv
  <2>4. m \in 2..heap_size /\ m \div 2 \in 1..(m - 1) /\ m \div 2 \in 1..heap_size
        /\ 1 \in 1..heap_size
    BY <1>1, <2>2, <2>3, Halves
  <2>5. m \div 2 \notin Bad
    BY <2>1, <2>2, <2>4
  <2>6. NB(sched_heap[m \div 2], sched_heap[1]) /\ NB(sched_heap[m], sched_heap[m \div 2])
    BY <1>2, <2>4, <2>5
  <2> QED BY <1>1, <2>2, <2>4, <2>6, OrderFacts DEF IInv
<1> QED BY <1>3

\* With no sift under way the first element is the queue's.
LEMMA InvImpliesTop == IInv => TopRight
<1> SUFFICES ASSUME IInv, pc = "idle", heap_size > 0
             PROVE  Q!IsTop(Queue, prio, sched_heap[1])
  BY DEF TopRight
<1> DEFINE top == sched_heap[1]
<1>1. heap_size \in Nat /\ 1 \in 1..heap_size
  BY MaxNat DEF IInv, TypeOK
<1>2. top \in Members /\ Members \subseteq Tids
  BY <1>1, MaxNat DEF Members, IInv, TypeOK
<1>3. Queue.members = Members /\ \A u \in Members : Queue.ahead[u] = {v \in Members : Older(v, u)}
  BY <1>2 DEF Queue
<1>4. ASSUME NEW u \in Members, u # top PROVE Q!Before(Queue, prio, top, u)
  <2>1. NB(u, top)
    BY TopFirst DEF Members
  <2>2. tcbH[u] # tcbH[top] \/ tcbL[u] # tcbL[top]
    BY <1>2, <1>4 DEF IInv, CountInv
  <2>3. /\ prio[u] \in Nat /\ prio[top] \in Nat
        /\ tcbH[u] \in Nat /\ tcbH[top] \in Nat /\ tcbL[u] \in Int /\ tcbL[top] \in Int
    <3>1. prio \in [Tids -> Nat] /\ tcbH \in [Tids -> Nat] /\ tcbL \in [Tids -> Int]
      <4>1. 0..(COUNT_MAX - 1) \subseteq Int /\ Prios \subseteq Nat
        BY HeapAssumption
      <4>2. TypeOK
        BY DEF IInv
      <4> QED BY <4>1, <4>2 DEF TypeOK
    <3> QED BY <1>2, <3>1
  <2>4. prio[top] < prio[u] \/ (prio[top] = prio[u] /\ Older(top, u))
    BY <2>1, <2>2, <2>3 DEF NB, NotBefore, Older
  <2> QED BY <1>2, <1>3, <2>4 DEF Q!Before
<1> QED BY <1>2, <1>3, <1>4 DEF Q!IsTop

-----------------------------------------------------------------------------
\* Positions, counters and ids stay within their types: in particular the heap
\* never outgrows its array (prio_heap.c:98-109).
THEOREM TypeCorrect == Spec => []TypeOK
<1>1. IInv /\ [Next]_vars => IInv'
  BY NextStep
<1>2. IInv => TypeOK
  BY DEF IInv
<1> QED BY <1>1, <1>2, InitInv, PTL DEF Spec

\* In the middle of a sift too, every queued task is where its heap_idx says, so
\* that sched_remove takes out the task it was given (prio_heap.c:111-126).
THEOREM IndexIsRight == Spec => []IndexRight
<1>1. IInv /\ [Next]_vars => IInv'
  BY NextStep
<1>2. IInv => IndexRight
  BY DEF IInv
<1> QED BY <1>1, <1>2, InitInv, PTL DEF Spec

\* A sift leaves at most the element it moves out of order (prio_heap.c:53-96).
THEOREM SiftIsLocal == Spec => []SiftLocal
<1>1. IInv /\ [Next]_vars => IInv'
  BY NextStep
<1>2. IInv => SiftLocal
  BY DEF IInv
<1> QED BY <1>1, <1>2, InitInv, PTL DEF Spec

\* sched_peak names the most urgent task and, of equals, the one that has waited
\* longest, whatever tasks came, left and changed priority (prio_heap.c:22-126).
THEOREM TopIsRight == Spec => []TopRight
<1>1. IInv /\ [Next]_vars => IInv'
  BY NextStep
<1> QED BY <1>1, InvImpliesTop, InitInv, PTL DEF Spec

\* The heap and its counters implement the queue that the kernel schedules with:
\* each operation takes effect at once and no step of a sift changes the queue.
THEOREM HeapImplementsQueue == Spec => ImplementsQueue
<1>1. IInv /\ [Next]_vars => IInv' /\ [Q!Next]_<<Queue, prio>>
  BY NextStep DEF Implements
<1>2. Init => Q!Init
  <2> SUFFICES ASSUME Init PROVE Queue = Q!Empty(Tids) /\ prio \in [Tids -> Prios]
    BY DEF Q!Init
  <2>1. Members = {}
    BY DEF Init, Members
  <2>2. [u \in Tids |-> IF u \in Members THEN {v \in Members : Older(v, u)} ELSE {}]
          = [u \in Tids |-> {}]
    BY <2>1
  <2> QED BY <2>1, <2>2 DEF Queue, Q!Empty, Init
<1> QED BY <1>1, <1>2, InitInv, PTL DEF Spec, ImplementsQueue, Q!Spec
=============================================================================
