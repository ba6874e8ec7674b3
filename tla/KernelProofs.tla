---------------------------- MODULE KernelProofs ----------------------------
(***************************************************************************)
(* Proofs, for every value of the constants, of the safety properties of   *)
(* Kernel.  They need one assumption on the environment: tasks do not call *)
(* tsk_set_prio with the id of a failed creation (PhantomFree).  Without   *)
(* it the properties are false, as the run kernel_phantom shows.           *)
(***************************************************************************)
EXTENDS Kernel, FiniteSetTheorems, FunctionTheorems, SequenceTheorems, TLAPS

(***************************************************************************)
(* What the operators of ReadyQueue preserve, for any set T of task ids.   *)
(***************************************************************************)
\* A queue with nobody in it is well formed.
LEMMA EmptyOK == ASSUME NEW T PROVE QueueOK(Empty(T), T)
  BY DEF QueueOK, Empty

\* Who is queued, and in which order, after an insertion and a removal.
LEMMA InsertMembers ==
  ASSUME NEW q, NEW t PROVE Insert(q, t).members = q.members \cup {t}
  BY DEF Insert

\* Removing a task leaves the others.
LEMMA RemoveMembers ==
  ASSUME NEW q, NEW t PROVE Remove(q, t).members = q.members \ {t}
  BY DEF Remove

\* An inserted task is behind all that were there.
LEMMA InsertAhead ==
  ASSUME NEW T, NEW q, QueueOK(q, T), NEW t \in T, NEW u \in T
  PROVE  Insert(q, t).ahead[u] = IF u = t THEN q.members \ {t} ELSE q.ahead[u] \ {t}
  BY DEF QueueOK, Insert

\* Removing a task leaves the order of the others.
LEMMA RemoveAhead ==
  ASSUME NEW T, NEW q, QueueOK(q, T), NEW t \in T, NEW u \in T
  PROVE  Remove(q, t).ahead[u] = IF u = t THEN {} ELSE q.ahead[u] \ {t}
  BY DEF QueueOK, Remove

\* Inserting an id, queued or not, leaves a well-formed queue.
LEMMA InsertOK ==
  ASSUME NEW T, NEW q, QueueOK(q, T), NEW t \in T
  PROVE  QueueOK(Insert(q, t), T)
<1> DEFINE r == Insert(q, t)
<1>a. q.members \subseteq T /\ q.ahead \in [T -> SUBSET T]
  BY DEF QueueOK
<1>b. \A u \in T : q.ahead[u] \subseteq q.members \ {u}
  BY DEF QueueOK
<1>c. \A u \in T \ q.members : q.ahead[u] = {}
  BY DEF QueueOK
<1>d. \A u, v \in q.members : u # v => (u \in q.ahead[v] <=> v \notin q.ahead[u])
  BY DEF QueueOK
<1>e. \A u \in T : \A v \in q.ahead[u] : q.ahead[v] \subseteq q.ahead[u]
  BY DEF QueueOK
<1>1. DOMAIN q.ahead = T
  BY <1>a
<1>2. r.members = q.members \cup {t}
  BY DEF Insert
<1>3. r.ahead = [u \in T |-> IF u = t THEN q.members \ {t} ELSE q.ahead[u] \ {t}]
  BY <1>1 DEF Insert
<1>4. \A u \in T : r.ahead[u] = IF u = t THEN q.members \ {t} ELSE q.ahead[u] \ {t}
  BY <1>3
<1> HIDE DEF r
<1>5. r.members \subseteq T
  BY <1>a, <1>2
<1>6. r.ahead \in [T -> SUBSET T]
  BY <1>a, <1>3
<1>7. \A u \in T : r.ahead[u] \subseteq r.members \ {u}
  BY <1>b, <1>2, <1>4
<1>8. \A u \in T \ r.members : r.ahead[u] = {}
  BY <1>a, <1>b, <1>c, <1>2, <1>4
<1>9. \A u, v \in r.members : u # v => (u \in r.ahead[v] <=> v \notin r.ahead[u])
  <2> SUFFICES ASSUME NEW u \in r.members, NEW v \in r.members, u # v
               PROVE  u \in r.ahead[v] <=> v \notin r.ahead[u]
    OBVIOUS
  <2>1. u \in T /\ v \in T
    BY <1>5
  <2>2. CASE u = t
    <3>1. r.ahead[v] = q.ahead[v] \ {t} /\ r.ahead[u] = q.members \ {t}
      BY <1>4, <2>1, <2>2
    <3> QED
      BY <1>2, <2>2, <3>1
  <2>3. CASE v = t
    <3>1. r.ahead[u] = q.ahead[u] \ {t} /\ r.ahead[v] = q.members \ {t}
      BY <1>4, <2>1, <2>3
    <3> QED
      BY <1>2, <2>3, <3>1
  <2>4. CASE u # t /\ v # t
    <3>1. r.ahead[u] = q.ahead[u] \ {t} /\ r.ahead[v] = q.ahead[v] \ {t}
      BY <1>4, <2>1, <2>4
    <3>2. u \in q.members /\ v \in q.members
      BY <1>2, <2>4
    <3> QED
      BY <1>d, <2>4, <3>1, <3>2
  <2> QED
    BY <2>2, <2>3, <2>4
<1>10. \A u \in T : \A v \in r.ahead[u] : r.ahead[v] \subseteq r.ahead[u]
  <2> SUFFICES ASSUME NEW u \in T, NEW v \in r.ahead[u]
               PROVE  r.ahead[v] \subseteq r.ahead[u]
    OBVIOUS
  <2>1. v \in T /\ v # t
    <3>1. r.ahead[u] = IF u = t THEN q.members \ {t} ELSE q.ahead[u] \ {t}
      BY <1>4
    <3>2. v \in q.members \ {t} \/ v \in q.ahead[u] \ {t}
      BY <3>1
    <3> QED
      BY <1>a, <3>2
  <2>2. r.ahead[v] = q.ahead[v] \ {t}
    BY <1>4, <2>1
  <2>3. CASE u = t
    BY <1>4, <1>b, <2>1, <2>2, <2>3
  <2>4. CASE u # t
    <3>1. r.ahead[u] = q.ahead[u] \ {t}
      BY <1>4, <2>4
    <3> QED
      BY <1>e, <2>2, <3>1
  <2> QED
    BY <2>3, <2>4
<1>11. QueueOK(r, T)
  BY <1>5, <1>6, <1>7, <1>8, <1>9, <1>10 DEF QueueOK
<1> QED
  BY <1>11 DEF r

\* Removing an id, queued or not, leaves a well-formed queue.
LEMMA RemoveOK ==
  ASSUME NEW T, NEW q, QueueOK(q, T), NEW t \in T
  PROVE  QueueOK(Remove(q, t), T)
<1> DEFINE r == Remove(q, t)
<1>a. q.members \subseteq T /\ q.ahead \in [T -> SUBSET T]
  BY DEF QueueOK
<1>b. \A u \in T : q.ahead[u] \subseteq q.members \ {u}
  BY DEF QueueOK
<1>c. \A u \in T \ q.members : q.ahead[u] = {}
  BY DEF QueueOK
<1>d. \A u, v \in q.members : u # v => (u \in q.ahead[v] <=> v \notin q.ahead[u])
  BY DEF QueueOK
<1>e. \A u \in T : \A v \in q.ahead[u] : q.ahead[v] \subseteq q.ahead[u]
  BY DEF QueueOK
<1>1. DOMAIN q.ahead = T
  BY <1>a
<1>2. r.members = q.members \ {t}
  BY DEF Remove
<1>3. r.ahead = [u \in T |-> IF u = t THEN {} ELSE q.ahead[u] \ {t}]
  BY <1>1 DEF Remove
<1>4. \A u \in T : r.ahead[u] = IF u = t THEN {} ELSE q.ahead[u] \ {t}
  BY <1>3
<1> HIDE DEF r
<1>5. r.members \subseteq T
  BY <1>a, <1>2
<1>6. r.ahead \in [T -> SUBSET T]
  BY <1>a, <1>3
<1>7. \A u \in T : r.ahead[u] \subseteq r.members \ {u}
  BY <1>b, <1>2, <1>4
<1>8. \A u \in T \ r.members : r.ahead[u] = {}
  BY <1>a, <1>b, <1>c, <1>2, <1>4
<1>9. \A u, v \in r.members : u # v => (u \in r.ahead[v] <=> v \notin r.ahead[u])
  <2> SUFFICES ASSUME NEW u \in r.members, NEW v \in r.members, u # v
               PROVE  u \in r.ahead[v] <=> v \notin r.ahead[u]
    OBVIOUS
  <2>1. u \in T /\ v \in T
    BY <1>5
  <2>2. u # t /\ v # t /\ u \in q.members /\ v \in q.members
    BY <1>2
  <2>3. r.ahead[u] = q.ahead[u] \ {t} /\ r.ahead[v] = q.ahead[v] \ {t}
    BY <1>4, <2>1, <2>2
  <2> QED
    BY <1>d, <2>2, <2>3
<1>10. \A u \in T : \A v \in r.ahead[u] : r.ahead[v] \subseteq r.ahead[u]
  <2> SUFFICES ASSUME NEW u \in T, NEW v \in r.ahead[u]
               PROVE  r.ahead[v] \subseteq r.ahead[u]
    OBVIOUS
  <2>1. u # t /\ r.ahead[u] = q.ahead[u] \ {t}
    BY <1>4
  <2>2. v \in T /\ v # t
    BY <1>a, <2>1
  <2>3. r.ahead[v] = q.ahead[v] \ {t}
    BY <1>4, <2>2
  <2> QED
    BY <1>e, <2>1, <2>3
<1>11. QueueOK(r, T)
  BY <1>5, <1>6, <1>7, <1>8, <1>9, <1>10 DEF QueueOK
<1> QED
  BY <1>11 DEF r

\* The scheduling policy names one task at most.
LEMMA TopUnique ==
  ASSUME NEW T, NEW q, QueueOK(q, T), NEW pr, \A u \in T : pr[u] \in Nat,
         NEW t, NEW u, IsTop(q, pr, t), IsTop(q, pr, u)
  PROVE  t = u
  BY DEF QueueOK, IsTop, Before

-----------------------------------------------------------------------------

PhantomFree == MemMayFail => CheckedTids

(***************************************************************************)
(* The inductive invariant, in parts.                                      *)
(***************************************************************************)
\* Before the system runs, main()'s thread, the null task, is the current one
\* and every iteration of the boot loop has made one task.
BootInv ==
  /\ boot <= Len(BootTasks) + 1 =>
       /\ gp_current_task = NullTcb
       /\ g_num_active_tasks = boot
       /\ receiving = {}
       /\ ~irq
  /\ is_kcd_init <=> \E i \in 1..Len(BootTasks) : i < boot /\ BootTasks[i].kcd

\* The n slots of the ring from slot h on, the slot after them, and the ids
\* they hold.
Slots(h, n) == {s \in Tids : (s >= h /\ s < h + n) \/ s + MAX_TASKS < h + n}
SlotAfter(h, n) == IF h + n < MAX_TASKS THEN h + n ELSE h + n - MAX_TASKS
Ids(q, h, n) == {q[s] : s \in Slots(h, n)}

\* A ring of n ids with head h and tail l: the ids are distinct and not the
\* null task's.
Ring(q, h, l, n) ==
  /\ q \in [Tids -> Tids] /\ h \in Tids /\ n \in 0..(MAX_TASKS - 1)
  /\ l = SlotAfter(h, n)
  /\ \A r, s \in Slots(h, n) : q[r] = q[s] => r = s
  /\ TID_NULL \notin Ids(q, h, n)
  /\ Cardinality(Ids(q, h, n)) = n

RingInv ==
  /\ Ring(U_TID_Q, U_TID_head, U_TID_tail, FreeCount)
  /\ is_kcd_init \/ boot <= Len(BootTasks) => TID_KCD \notin FreeTids

\* The TCBs: of the two that can stand for TID_KCD the one k_tsk_get_tcb does
\* not return is unused, a free id's TCB is unused or left by a failed
\* creation, and every other id has a task.
StateInv ==
  /\ is_kcd_init => state[TID_KCD] = DORMANT
  /\ ~is_kcd_init => state[KcdTcb] = DORMANT
  /\ \A t \in FreeTids : state[GetTcb(t)] \in {DORMANT, READY}
  /\ \A t \in FreeTids : state[GetTcb(t)] = READY => MemMayFail
  /\ \A t \in Tids \ FreeTids :
       \/ state[GetTcb(t)] # DORMANT
       \/ t = TID_KCD /\ ~is_kcd_init /\ boot <= Len(BootTasks)
  /\ ~is_kcd_init /\ boot <= Len(BootTasks) => state[TID_KCD] = DORMANT

\* A task inside k_recv_msg holds its id.
ReceiveInv == \A p \in receiving : GetTcb(TidOf(p)) = p /\ TidOf(p) \notin FreeTids

IInv == /\ TypeOK /\ BootInv /\ RingInv /\ StateInv /\ QueueMatchesStates
        /\ ReceiveInv /\ NoLostWakeup /\ StrictPriority

-----------------------------------------------------------------------------
(***************************************************************************)
(* Task ids and TCBs.                                                      *)
(***************************************************************************)
LEMMA TcbFacts ==
  /\ MAX_TASKS \in Nat /\ MAX_TASKS > 1
  /\ TID_NULL \in Tids /\ TID_KCD \in Tids /\ TID_KCD # TID_NULL
  /\ NullTcb \in TCBs /\ KcdTcb \in TCBs /\ NullTcb # KcdTcb
  /\ Tids \subseteq TCBs /\ KcdTcb \notin Tids
  /\ \A t \in Tids : GetTcb(t) \in TCBs /\ TidOf(GetTcb(t)) = t
  /\ \A p \in TCBs : TidOf(p) \in Tids
  /\ GetTcb(TID_NULL) = NullTcb /\ TidOf(NullTcb) = TID_NULL
  BY TidAssumption DEF Tids, TCBs, TID_NULL, NullTcb, KcdTcb, GetTcb, TidOf

LEMMA BootLen == Len(BootTasks) \in Nat /\ Len(BootTasks) > 0
                 /\ Len(BootTasks) < MAX_TASKS
  BY BootAssumption, LenProperties

\* An entry of the boot table.
LEMMA BootEntry ==
  ASSUME NEW i \in 1..Len(BootTasks)
  PROVE  BootTasks[i] \in [prio : 1..(PRIO_NULL - 1), priv : BOOLEAN, kcd : BOOLEAN]
<1> DEFINE S == [prio : 1..(PRIO_NULL - 1), priv : BOOLEAN, kcd : BOOLEAN]
<1>1. BootTasks \in Seq(S)
  BY BootAssumption
<1> HIDE DEF S
<1>2. BootTasks[i] \in S
  BY <1>1, ElementOfSeq
<1> QED
  BY <1>2 DEF S

\* The current task is the one its id names, is queued, and its id is not free.
LEMMA Current ==
  ASSUME TypeOK, StateInv, QueueMatchesStates
  PROVE  /\ gp_current_task \in TCBs /\ state[gp_current_task] = RUNNING
         /\ TidOf(gp_current_task) \in Tids \ FreeTids
         /\ GetTcb(TidOf(gp_current_task)) = gp_current_task
         /\ TidOf(gp_current_task) \in queue.members
<1>1. gp_current_task \in TCBs /\ state[gp_current_task] = RUNNING
  BY DEF TypeOK, QueueMatchesStates
<1>2. GetTcb(TidOf(gp_current_task)) = gp_current_task
  BY <1>1, TidAssumption
     DEF StateInv, GetTcb, TidOf, TCBs, Tids, KcdTcb, RUNNING, DORMANT, TypeOK
<1>3. TidOf(gp_current_task) \in Tids
  BY <1>1, TcbFacts
<1>4. TidOf(gp_current_task) \notin FreeTids
  BY <1>1, <1>2 DEF StateInv, RUNNING, DORMANT, READY
<1> QED
  BY <1>1, <1>2, <1>3, <1>4 DEF QueueMatchesStates

-----------------------------------------------------------------------------
(***************************************************************************)
(* The ring of free ids.                                                   *)
(***************************************************************************)
\* The step of a ring index (k_task.c:480, 494, 518).
LEMMA NextSlot ==
  ASSUME NEW i \in Tids
  PROVE  (i + 1) % MAX_TASKS = IF i + 1 = MAX_TASKS THEN 0 ELSE i + 1
  BY TidAssumption, SMT DEF Tids

LEMMA PopSlot ==
  ASSUME NEW h \in Tids, NEW n \in 1..(MAX_TASKS - 1)
  PROVE  LET g == (h + 1) % MAX_TASKS
         IN  /\ h \in Slots(h, n) /\ g \in Tids
             /\ Slots(g, n - 1) = Slots(h, n) \ {h}
             /\ SlotAfter(g, n - 1) = SlotAfter(h, n)
<1>1. PICK g : g = IF h + 1 = MAX_TASKS THEN 0 ELSE h + 1
  OBVIOUS
<1>2. g = (h + 1) % MAX_TASKS
  BY <1>1, NextSlot
<1>3. MAX_TASKS \in Nat /\ MAX_TASKS > 1
  BY TcbFacts
<1>4. h \in Slots(h, n) /\ g \in Tids
  BY <1>1, <1>3 DEF Slots, Tids
<1>5. Slots(g, n - 1) = Slots(h, n) \ {h}
  BY <1>1, <1>3 DEF Slots, Tids
<1>6. SlotAfter(g, n - 1) = SlotAfter(h, n)
  BY <1>1, <1>3 DEF SlotAfter, Tids
<1> QED
  BY <1>2, <1>4, <1>5, <1>6

LEMMA PushSlot ==
  ASSUME NEW h \in Tids, NEW n \in 0..(MAX_TASKS - 1), NEW l, l = SlotAfter(h, n)
  PROVE  /\ l \in Tids /\ l \notin Slots(h, n)
         /\ Slots(h, n + 1) = Slots(h, n) \cup {l}
         /\ n + 1 < MAX_TASKS => SlotAfter(h, n + 1) = (l + 1) % MAX_TASKS
<1>1. MAX_TASKS \in Nat /\ MAX_TASKS > 1
  BY TcbFacts
<1>2. l \in Tids /\ l \notin Slots(h, n)
  BY <1>1 DEF Slots, SlotAfter, Tids
<1>3. Slots(h, n + 1) = Slots(h, n) \cup {l}
  BY <1>1 DEF Slots, SlotAfter, Tids
<1>4. n + 1 < MAX_TASKS => SlotAfter(h, n + 1) = (l + 1) % MAX_TASKS
  BY <1>1, <1>2, NextSlot DEF SlotAfter, Tids
<1> QED
  BY <1>2, <1>3, <1>4

LEMMA FreeTidsIds == FreeTids = Ids(U_TID_Q, U_TID_head, FreeCount)
  BY DEF FreeTids, RingSlots, Ids, Slots

LEMMA TidsFinite == IsFiniteSet(Tids) /\ Cardinality(Tids) = MAX_TASKS
<1>1. MAX_TASKS \in Nat /\ MAX_TASKS > 1
  BY TcbFacts
<1>2. IsFiniteSet(0..(MAX_TASKS - 1)) /\ Cardinality(0..(MAX_TASKS - 1)) = MAX_TASKS
  BY <1>1, FS_Interval
<1> QED
  BY <1>2 DEF Tids

\* Taking the id at the head of the ring.
LEMMA PopId ==
  ASSUME NEW q, NEW h, NEW l, NEW n, Ring(q, h, l, n), n > 0
  PROVE  /\ q[h] \in Ids(q, h, n)
         /\ Ring(q, (h + 1) % MAX_TASKS, l, n - 1)
         /\ Ids(q, (h + 1) % MAX_TASKS, n - 1) = Ids(q, h, n) \ {q[h]}
<1> DEFINE g == (h + 1) % MAX_TASKS
<1>1. /\ h \in Tids /\ n \in 1..(MAX_TASKS - 1) /\ q \in [Tids -> Tids]
      /\ \A r, s \in Slots(h, n) : q[r] = q[s] => r = s
  BY TcbFacts DEF Ring
<1>2. /\ h \in Slots(h, n) /\ g \in Tids
      /\ Slots(g, n - 1) = Slots(h, n) \ {h}
      /\ SlotAfter(g, n - 1) = SlotAfter(h, n)
  BY <1>1, PopSlot
<1> HIDE DEF g
<1>3. q[h] \in Ids(q, h, n)
  BY <1>2 DEF Ids
<1>4. Ids(q, g, n - 1) = Ids(q, h, n) \ {q[h]}
  BY <1>1, <1>2 DEF Ids
<1>5. Cardinality(Ids(q, g, n - 1)) = n - 1
  <2>1. Ids(q, h, n) \subseteq Tids
    BY <1>1 DEF Ids, Slots
  <2>2. IsFiniteSet(Ids(q, h, n)) /\ Cardinality(Ids(q, h, n)) = n
    BY <2>1, TidsFinite, FS_Subset DEF Ring
  <2> QED
    BY <1>1, <1>3, <1>4, <2>2, FS_RemoveElement
<1>6. Ring(q, g, l, n - 1)
  <2>1. n - 1 \in 0..(MAX_TASKS - 1)
    BY <1>1, TcbFacts
  <2>2. l = SlotAfter(g, n - 1)
    BY <1>2 DEF Ring
  <2>3. \A r, s \in Slots(g, n - 1) : q[r] = q[s] => r = s
    BY <1>1, <1>2
  <2>4. TID_NULL \notin Ids(q, g, n - 1)
    BY <1>4 DEF Ring
  <2> QED
    BY <1>1, <1>2, <1>5, <2>1, <2>2, <2>3, <2>4 DEF Ring
<1> QED
  BY <1>3, <1>4, <1>6 DEF g

\* Giving an id back at the tail.  The ring is never full before.
LEMMA PushId ==
  ASSUME NEW q, NEW h, NEW l, NEW n, Ring(q, h, l, n),
         NEW t \in Tids, t # TID_NULL, t \notin Ids(q, h, n),
         NEW p, p = [q EXCEPT ![l] = t]
  PROVE  /\ n + 1 < MAX_TASKS
         /\ Ring(p, h, (l + 1) % MAX_TASKS, n + 1)
         /\ \A x : x \in Ids(p, h, n + 1) <=> x \in Ids(q, h, n) \/ x = t
<1>1. /\ h \in Tids /\ n \in 0..(MAX_TASKS - 1) /\ q \in [Tids -> Tids]
      /\ l = SlotAfter(h, n)
      /\ \A r, s \in Slots(h, n) : q[r] = q[s] => r = s
  BY DEF Ring
<1>2. /\ l \in Tids /\ l \notin Slots(h, n)
      /\ Slots(h, n + 1) = Slots(h, n) \cup {l}
      /\ n + 1 < MAX_TASKS => SlotAfter(h, n + 1) = (l + 1) % MAX_TASKS
  BY <1>1, PushSlot
<1>3. p \in [Tids -> Tids] /\ p[l] = t /\ \A s \in Slots(h, n) : p[s] = q[s]
  BY <1>1, <1>2 DEF Slots
<1>4. Ids(p, h, n + 1) = Ids(q, h, n) \cup {t}
  BY <1>2, <1>3 DEF Ids
<1>5. Ids(q, h, n) \subseteq Tids
  BY <1>1 DEF Ids, Slots
<1>6. IsFiniteSet(Ids(q, h, n)) /\ Cardinality(Ids(q, h, n)) = n
  BY <1>5, TidsFinite, FS_Subset DEF Ring
<1>7. IsFiniteSet(Ids(p, h, n + 1)) /\ Cardinality(Ids(p, h, n + 1)) = n + 1
  <2>1. /\ IsFiniteSet(Ids(q, h, n) \cup {t})
        /\ Cardinality(Ids(q, h, n) \cup {t}) = Cardinality(Ids(q, h, n)) + 1
    BY <1>6, FS_AddElement
  <2> QED
    BY <1>4, <1>6, <2>1
<1>8. n + 1 < MAX_TASKS
  <2>1. Ids(p, h, n + 1) \subseteq Tids \ {TID_NULL}
    BY <1>4, <1>5 DEF Ring
  <2>2. IsFiniteSet(Tids \ {TID_NULL}) /\ Cardinality(Tids \ {TID_NULL}) = MAX_TASKS - 1
    BY TidsFinite, TcbFacts, FS_RemoveElement
  <2>3. n + 1 <= MAX_TASKS - 1
    BY <1>7, <2>1, <2>2, FS_Subset
  <2> QED
    BY <1>1, <2>3, TcbFacts
<1>9. \A r, s \in Slots(h, n + 1) : p[r] = p[s] => r = s
  BY <1>1, <1>2, <1>3 DEF Ids
<1>10. Ring(p, h, (l + 1) % MAX_TASKS, n + 1)
  <2>1. n + 1 \in 0..(MAX_TASKS - 1)
    BY <1>1, <1>8, TcbFacts
  <2>2. TID_NULL \notin Ids(p, h, n + 1)
    BY <1>4 DEF Ring
  <2>3. (l + 1) % MAX_TASKS = SlotAfter(h, n + 1)
    BY <1>2, <1>8
  <2> QED
    BY <1>1, <1>3, <1>7, <1>9, <2>1, <2>2, <2>3 DEF Ring
<1> QED
  BY <1>4, <1>8, <1>10

-----------------------------------------------------------------------------
(***************************************************************************)
(* The scheduler.  F stands for the free ids after the step.               *)
(***************************************************************************)
\* How the task states st and the queue q stand, with F the free ids, when a
\* call reaches k_tsk_run_new.
Stands(st, q, F) ==
  /\ st \in [TCBs -> States] /\ st[gp_current_task] # READY
  /\ \A p \in TCBs \ {gp_current_task} : st[p] # RUNNING
  /\ \A u \in Tids \ F : u \in q.members <=> st[GetTcb(u)] \in {READY, RUNNING}
  /\ \A u \in Tids \ F : st[GetTcb(u)] # DORMANT
  /\ F \subseteq Tids
  /\ \A u \in F : u \notin q.members
  /\ \A u \in F : st[GetTcb(u)] \in {DORMANT, READY}
  /\ \A u \in F : st[GetTcb(u)] = READY => MemMayFail
  /\ is_kcd_init => st[TID_KCD] = DORMANT
  /\ ~is_kcd_init => st[KcdTcb] = DORMANT

LEMMA Scheduled ==
  ASSUME TypeOK, NEW st, NEW q, NEW pr, NEW F, RunNew(st, q, pr), Stands(st, q, F)
  PROVE  /\ gp_current_task' \in TCBs /\ state' \in [TCBs -> States]
         /\ \A p \in TCBs : state'[p] = RUNNING <=> p = gp_current_task'
         /\ \A p \in TCBs : \/ state'[p] = st[p]
                            \/ state'[p] \in {READY, RUNNING} /\ st[p] \in {READY, RUNNING}
         /\ \A t \in F : state'[GetTcb(t)] = st[GetTcb(t)]
         /\ \A t \in Tids \ F : t \in q.members <=> state'[GetTcb(t)] \in {READY, RUNNING}
         /\ IsTop(q, TidPrio(pr), TidOf(gp_current_task'))
<1>0. /\ st \in [TCBs -> States] /\ st[gp_current_task] # READY
      /\ \A p \in TCBs \ {gp_current_task} : st[p] # RUNNING
      /\ \A u \in Tids \ F : u \in q.members <=> st[GetTcb(u)] \in {READY, RUNNING}
      /\ \A u \in Tids \ F : st[GetTcb(u)] # DORMANT
  BY DEF Stands
<1>0a. /\ F \subseteq Tids
       /\ \A u \in F : u \notin q.members
       /\ \A u \in F : st[GetTcb(u)] \in {DORMANT, READY}
       /\ \A u \in F : st[GetTcb(u)] = READY => MemMayFail
  BY DEF Stands
<1> DEFINE old == gp_current_task
           new == gp_current_task'
<1>1. PICK t \in Tids :
        /\ IsTop(q, TidPrio(pr), t)
        /\ new = GetTcb(t)
        /\ state' = IF GetTcb(t) = old THEN st
                    ELSE [st EXCEPT ![old] = IF @ \in {DORMANT, BLK_MSG} THEN @ ELSE READY,
                                    ![GetTcb(t)] = RUNNING]
  BY DEF RunNew
<1>2. old \in TCBs /\ new \in TCBs /\ TidOf(new) = t
  BY <1>1, TcbFacts DEF TypeOK
<1>3. IsTop(q, TidPrio(pr), TidOf(new))
  BY <1>1, <1>2
<1>4. t \in q.members /\ t \notin F /\ st[new] \in {READY, RUNNING}
  BY <1>0, <1>0a, <1>1 DEF IsTop
<1>5. \A u \in Tids : u # t => GetTcb(u) # new
  BY <1>1, TcbFacts
<1> HIDE DEF old, new
<1>6. CASE new = old
  <2>1. state' = st /\ st[old] = RUNNING
    BY <1>0, <1>0a, <1>1, <1>4, <1>6 DEF old
  <2>2. \A p \in TCBs : state'[p] = RUNNING <=> p = new
    BY <1>0, <1>0a, <1>6, <2>1 DEF old
  <2> QED
    BY <1>0, <1>0a, <1>2, <1>3, <2>1, <2>2 DEF new
<1>7. CASE new # old
  <2>1. /\ state' \in [TCBs -> States]
        /\ state'[new] = RUNNING
        /\ state'[old] = IF st[old] \in {DORMANT, BLK_MSG} THEN st[old] ELSE READY
        /\ \A p \in TCBs \ {old, new} : state'[p] = st[p]
    BY <1>0, <1>0a, <1>1, <1>2, <1>7 DEF States
  <2>2. st[old] \in {DORMANT, BLK_MSG, RUNNING}
    BY <1>0, <1>0a, <1>2 DEF old, States
  <2>3. \A p \in TCBs : state'[p] = RUNNING <=> p = new
    BY <1>0, <1>0a, <2>1, <1>2 DEF old, DORMANT, READY, RUNNING, BLK_MSG
  <2>4. \A p \in TCBs : \/ state'[p] = st[p]
                        \/ state'[p] \in {READY, RUNNING} /\ st[p] \in {READY, RUNNING}
    BY <1>2, <1>4, <2>1, <2>2 DEF DORMANT, READY, RUNNING, BLK_MSG
  <2>5. \A u \in F : state'[GetTcb(u)] = st[GetTcb(u)]
    <3> SUFFICES ASSUME NEW u \in F PROVE state'[GetTcb(u)] = st[GetTcb(u)]
      OBVIOUS
    <3>1. GetTcb(u) \in TCBs /\ GetTcb(u) # new
      BY <1>0, <1>0a, <1>4, <1>5, TcbFacts
    <3>2. GetTcb(u) = old => st[GetTcb(u)] = DORMANT
      BY <1>0, <1>0a DEF old
    <3> QED
      BY <2>1, <3>1, <3>2
  <2>6. \A u \in Tids \ F : u \in q.members <=> state'[GetTcb(u)] \in {READY, RUNNING}
    <3> SUFFICES ASSUME NEW u \in Tids \ F
                 PROVE  u \in q.members <=> state'[GetTcb(u)] \in {READY, RUNNING}
      OBVIOUS
    <3>1. GetTcb(u) \in TCBs
      BY TcbFacts
    <3>2. u \in q.members <=> st[GetTcb(u)] \in {READY, RUNNING}
      BY <1>0, <1>0a
    <3> QED
      BY <2>4, <3>1, <3>2
  <2> QED
    BY <1>2, <1>3, <2>1, <2>3, <2>4, <2>5, <2>6 DEF new
<1> QED
  BY <1>6, <1>7

\* The same TCBs stand for the same ids while is_kcd_init does not change.
LEMMA SameTcbs ==
  ASSUME is_kcd_init' = is_kcd_init
  PROVE  \A t : GetTcb(t)' = GetTcb(t)
  BY DEF GetTcb

LEMMA SameRing ==
  ASSUME RingInv, UNCHANGED <<boot, is_kcd_init, ring>>
  PROVE  FreeTids' = FreeTids /\ FreeCount' = FreeCount /\ RingInv'
  BY DEF ring, RingInv, FreeTids, RingSlots, FreeCount

\* A step that ends in k_tsk_run_new re-establishes what the task states, the
\* queue and the current task owe each other.
LEMMA Rescheduled ==
  ASSUME IInv, Booted', ~irq', is_kcd_init' = is_kcd_init,
         NEW st, RunNew(st, queue', prio'), Stands(st, queue', FreeTids')
  PROVE  /\ gp_current_task' \in TCBs /\ state' \in [TCBs -> States]
         /\ StateInv' /\ QueueMatchesStates' /\ StrictPriority'
         /\ \A p \in TCBs : /\ state'[p] = BLK_MSG <=> st[p] = BLK_MSG
                            /\ state'[p] = DORMANT <=> st[p] = DORMANT
<1>0. /\ st \in [TCBs -> States] /\ st[gp_current_task] # READY
      /\ \A p \in TCBs \ {gp_current_task} : st[p] # RUNNING
      /\ \A u \in Tids \ FreeTids' : u \in queue'.members <=> st[GetTcb(u)] \in {READY, RUNNING}
      /\ \A u \in Tids \ FreeTids' : st[GetTcb(u)] # DORMANT
  BY DEF Stands
<1>0a. /\ FreeTids' \subseteq Tids
       /\ \A u \in FreeTids' : u \notin queue'.members
       /\ \A u \in FreeTids' : st[GetTcb(u)] \in {DORMANT, READY}
       /\ \A u \in FreeTids' : st[GetTcb(u)] = READY => MemMayFail
  BY DEF Stands
<1>0b. is_kcd_init => st[TID_KCD] = DORMANT
  BY DEF Stands
<1>0c. ~is_kcd_init => st[KcdTcb] = DORMANT
  BY DEF Stands
<1>1. /\ gp_current_task' \in TCBs /\ state' \in [TCBs -> States]
      /\ \A p \in TCBs : state'[p] = RUNNING <=> p = gp_current_task'
      /\ \A p \in TCBs : \/ state'[p] = st[p]
                         \/ state'[p] \in {READY, RUNNING} /\ st[p] \in {READY, RUNNING}
      /\ \A t \in FreeTids' : state'[GetTcb(t)] = st[GetTcb(t)]
      /\ \A t \in Tids \ FreeTids' : t \in queue'.members <=> state'[GetTcb(t)] \in {READY, RUNNING}
      /\ IsTop(queue', TidPrio(prio'), TidOf(gp_current_task'))
  <2>1. TypeOK
    BY DEF IInv
  <2> QED
    BY <2>1, Scheduled
<1>2. \A p \in TCBs : /\ state'[p] = BLK_MSG <=> st[p] = BLK_MSG
                      /\ state'[p] = DORMANT <=> st[p] = DORMANT
  BY <1>1 DEF DORMANT, READY, RUNNING, BLK_MSG
<1>3. \A t : GetTcb(t)' = GetTcb(t)
  BY SameTcbs
<1>4. QueueMatchesStates'
  <2>1. \A t \in Tids \ FreeTids' :
          t \in queue'.members <=> state'[GetTcb(t)'] \in {READY, RUNNING}
    BY <1>1, <1>3
  <2>2. \A t \in FreeTids' : t \notin queue'.members
    BY <1>0a
  <2> QED
    BY <1>1, <2>1, <2>2 DEF QueueMatchesStates
<1>5. StrictPriority'
  <2>1. TidPrio(prio)' = TidPrio(prio')
    BY <1>3 DEF TidPrio
  <2>2. TidOf(gp_current_task)' = TidOf(gp_current_task')
    BY DEF TidOf
  <2> QED
    BY <1>1, <2>1, <2>2 DEF StrictPriority
<1>6. StateInv'
  <2>1. \A t \in FreeTids' : GetTcb(t) \in TCBs /\ state'[GetTcb(t)'] = st[GetTcb(t)]
    BY <1>0a, <1>1, <1>3, TcbFacts
  <2>2. /\ \A t \in FreeTids' : state'[GetTcb(t)'] \in {DORMANT, READY}
        /\ \A t \in FreeTids' : state'[GetTcb(t)'] = READY => MemMayFail
    <3> SUFFICES ASSUME NEW t \in FreeTids'
                 PROVE  /\ state'[GetTcb(t)'] \in {DORMANT, READY}
                        /\ state'[GetTcb(t)'] = READY => MemMayFail
      OBVIOUS
    <3>1. state'[GetTcb(t)'] = st[GetTcb(t)]
      BY <2>1
    <3>2. st[GetTcb(t)] \in {DORMANT, READY} /\ (st[GetTcb(t)] = READY => MemMayFail)
      BY <1>0a
    <3> QED
      BY <3>1, <3>2
  <2>3. \A t \in Tids \ FreeTids' : state'[GetTcb(t)'] # DORMANT
    BY <1>0, <1>2, <1>3, TcbFacts
  <2>5. TID_KCD \in TCBs /\ KcdTcb \in TCBs
    BY TcbFacts
  <2>6. (is_kcd_init' => state'[TID_KCD] = DORMANT)
        /\ (~is_kcd_init' => state'[KcdTcb] = DORMANT)
    <3>1. is_kcd_init => state'[TID_KCD] = DORMANT
      BY <1>0b, <1>2, <2>5
    <3>2. ~is_kcd_init => state'[KcdTcb] = DORMANT
      BY <1>0c, <1>2, <2>5
    <3> QED
      BY <3>1, <3>2
  <2>4. ~(boot' <= Len(BootTasks))
    BY BootLen DEF Booted
  <2> QED
    BY <2>2, <2>3, <2>4, <2>6 DEF StateInv
<1> QED
  BY <1>1, <1>2, <1>4, <1>5, <1>6

-----------------------------------------------------------------------------
(***************************************************************************)
(* The steps, one lemma for each action.                                   *)
(***************************************************************************)
LEMMA SameBoot ==
  ASSUME BootInv, Booted, UNCHANGED <<boot, is_kcd_init>>
  PROVE  BootInv' /\ Booted'
  BY BootLen DEF BootInv, Booted

\* The mailbox part of the invariant, when no mailbox changes and nobody
\* starts or stops waiting for a message.
LEMMA SameMail ==
  ASSUME ReceiveInv, NoLostWakeup, UNCHANGED mbx, is_kcd_init' = is_kcd_init,
         receiving \subseteq TCBs,
         \A p \in receiving : TidOf(p) \notin FreeTids',
         \A p \in TCBs : /\ state'[p] = BLK_MSG <=> state[p] = BLK_MSG
                         /\ state'[p] = DORMANT => state[p] = DORMANT \/ p \notin receiving
  PROVE  ReceiveInv' /\ NoLostWakeup'
<1>1. \A t : GetTcb(t)' = GetTcb(t)
  BY SameTcbs
<1>2. receiving' = receiving /\ mail' = mail /\ capacity' = capacity
  BY DEF mbx
<1>3. ReceiveInv'
  BY <1>1, <1>2 DEF ReceiveInv, TidOf
<1>4. NoLostWakeup'
  BY <1>2 DEF NoLostWakeup
<1> QED
  BY <1>3, <1>4

\* What the invariant says of a system whose boot loop is over, in the form
\* Rescheduled takes it.
LEMMA Settled ==
  ASSUME IInv, boot > Len(BootTasks)
  PROVE  /\ state \in [TCBs -> States] /\ QueueOK(queue, Tids)
         /\ gp_current_task \in TCBs /\ state[gp_current_task] = RUNNING
         /\ TidOf(gp_current_task) \in Tids \ FreeTids
         /\ GetTcb(TidOf(gp_current_task)) = gp_current_task
         /\ TidOf(gp_current_task) \in queue.members
         /\ \A p \in TCBs \ {gp_current_task} : state[p] # RUNNING
         /\ \A t \in Tids \ FreeTids :
              /\ t \in queue.members <=> state[GetTcb(t)] \in {READY, RUNNING}
              /\ state[GetTcb(t)] # DORMANT
         /\ \A t \in FreeTids : t \in Tids /\ t \notin queue.members
         /\ \A t \in FreeTids : state[GetTcb(t)] \in {DORMANT, READY}
         /\ \A t \in FreeTids : state[GetTcb(t)] = READY => MemMayFail
         /\ is_kcd_init => state[TID_KCD] = DORMANT
         /\ ~is_kcd_init => state[KcdTcb] = DORMANT
         /\ Stands(state, queue, FreeTids)
<1>1. state \in [TCBs -> States] /\ QueueOK(queue, Tids)
  BY DEF IInv, TypeOK
<1>2. \A t \in FreeTids : t \in Tids
  BY DEF IInv, TypeOK, FreeTids, RingSlots
<1>3. \A t \in Tids \ FreeTids : state[GetTcb(t)] # DORMANT
  BY BootLen DEF IInv, StateInv, TypeOK
<1>4. /\ gp_current_task \in TCBs /\ state[gp_current_task] = RUNNING
      /\ TidOf(gp_current_task) \in Tids \ FreeTids
      /\ GetTcb(TidOf(gp_current_task)) = gp_current_task
      /\ TidOf(gp_current_task) \in queue.members
  BY Current DEF IInv
<1>5. /\ \A p \in TCBs \ {gp_current_task} : state[p] # RUNNING
      /\ \A t \in Tids \ FreeTids :
              t \in queue.members <=> state[GetTcb(t)] \in {READY, RUNNING}
      /\ \A t \in FreeTids : t \notin queue.members
      /\ \A t \in FreeTids : state[GetTcb(t)] \in {DORMANT, READY}
      /\ \A t \in FreeTids : state[GetTcb(t)] = READY => MemMayFail
      /\ is_kcd_init => state[TID_KCD] = DORMANT
      /\ ~is_kcd_init => state[KcdTcb] = DORMANT
  BY DEF IInv, QueueMatchesStates, StateInv
<1>6. Stands(state, queue, FreeTids)
  BY <1>1, <1>2, <1>3, <1>4, <1>5 DEF Stands, READY, RUNNING
<1> QED
  BY <1>1, <1>2, <1>3, <1>4, <1>5, <1>6

LEMMA YieldStep == ASSUME IInv, Yield PROVE IInv'
<1>1. /\ Booted /\ ~irq
      /\ queue' = Insert(queue, TidOf(gp_current_task))
      /\ RunNew(state, queue', prio)
      /\ UNCHANGED <<boot, is_kcd_init, prio, priv, mbx, ring, irq, rx>>
  BY DEF Yield, DoYield, Running
<1>2. FreeTids' = FreeTids /\ FreeCount' = FreeCount /\ RingInv'
  BY <1>1, SameRing DEF IInv
<1>3. BootInv' /\ Booted' /\ boot > Len(BootTasks)
  BY <1>1, SameBoot, BootLen DEF IInv, Booted
<1>4. /\ gp_current_task \in TCBs /\ state[gp_current_task] = RUNNING
      /\ TidOf(gp_current_task) \in queue.members
      /\ TidOf(gp_current_task) \in Tids /\ QueueOK(queue, Tids)
  BY <1>3, Settled
<1>5. QueueOK(queue', Tids) /\ queue'.members = queue.members
  <2>1. QueueOK(Insert(queue, TidOf(gp_current_task)), Tids)
    BY <1>4, InsertOK
  <2>2. Insert(queue, TidOf(gp_current_task)).members = queue.members
    BY <1>4 DEF Insert
  <2> QED
    BY <1>1, <2>1, <2>2
<1>6. /\ gp_current_task' \in TCBs /\ state' \in [TCBs -> States]
      /\ StateInv' /\ QueueMatchesStates' /\ StrictPriority'
      /\ \A p \in TCBs : /\ state'[p] = BLK_MSG <=> state[p] = BLK_MSG
                         /\ state'[p] = DORMANT <=> state[p] = DORMANT
  <2>1. Stands(state, queue', FreeTids')
    BY <1>2, <1>3, <1>5, Settled DEF Stands
  <2> QED
    BY <1>1, <1>3, <2>1, Rescheduled
<1>7. ReceiveInv' /\ NoLostWakeup'
  BY <1>1, <1>2, <1>6, SameMail DEF IInv, TypeOK, ReceiveInv
<1>8. TypeOK'
  BY <1>1, <1>5, <1>6 DEF IInv, TypeOK, mbx, ring
<1> QED
  BY <1>2, <1>3, <1>6, <1>7, <1>8 DEF IInv

LEMMA StartStep == ASSUME IInv, Start PROVE IInv'
<1>1. /\ boot = Len(BootTasks) + 1 /\ boot' = boot + 1
      /\ queue' = Insert(queue, TidOf(gp_current_task))
      /\ RunNew(state, queue', prio)
      /\ UNCHANGED <<is_kcd_init, prio, priv, mbx, ring, irq, rx>>
  BY DEF Start, DoYield
<1>2. boot > Len(BootTasks) /\ boot' > Len(BootTasks) /\ Booted'
      /\ boot' \in 1..(Len(BootTasks) + 2)
  BY <1>1, BootLen DEF Booted
<1>3. FreeTids' = FreeTids /\ FreeCount' = FreeCount /\ RingInv'
  BY <1>1, <1>2, BootLen DEF IInv, ring, RingInv, FreeTids, RingSlots, FreeCount
<1>4. BootInv'
  <2>1. \A i \in 1..Len(BootTasks) : i < boot /\ i < boot'
    BY <1>1, BootLen
  <2> QED
    BY <1>1, <1>2, <2>1, BootLen DEF IInv, BootInv
<1>5. ~irq'
  BY <1>1, BootLen DEF IInv, BootInv
<1>6. /\ gp_current_task \in TCBs /\ state[gp_current_task] = RUNNING
      /\ TidOf(gp_current_task) \in queue.members
      /\ TidOf(gp_current_task) \in Tids /\ QueueOK(queue, Tids)
  BY <1>2, Settled
<1>7. QueueOK(queue', Tids) /\ queue'.members = queue.members
  <2>1. QueueOK(Insert(queue, TidOf(gp_current_task)), Tids)
    BY <1>6, InsertOK
  <2>2. Insert(queue, TidOf(gp_current_task)).members = queue.members
    BY <1>6 DEF Insert
  <2> QED
    BY <1>1, <2>1, <2>2
<1>8. /\ gp_current_task' \in TCBs /\ state' \in [TCBs -> States]
      /\ StateInv' /\ QueueMatchesStates' /\ StrictPriority'
      /\ \A p \in TCBs : /\ state'[p] = BLK_MSG <=> state[p] = BLK_MSG
                         /\ state'[p] = DORMANT <=> state[p] = DORMANT
  <2>1. Stands(state, queue', FreeTids')
    BY <1>2, <1>3, <1>7, Settled DEF Stands
  <2> QED
    BY <1>1, <1>2, <1>5, <2>1, Rescheduled
<1>9. ReceiveInv' /\ NoLostWakeup'
  BY <1>1, <1>3, <1>8, SameMail DEF IInv, TypeOK, ReceiveInv
<1>10. TypeOK'
  BY <1>1, <1>2, <1>7, <1>8 DEF IInv, TypeOK, mbx, ring
<1> QED
  BY <1>3, <1>4, <1>8, <1>9, <1>10 DEF IInv

LEMMA IrqExitStep == ASSUME IInv, IrqExit PROVE IInv'
<1>1. /\ irq /\ ~irq' /\ irq' \in BOOLEAN
      /\ RunNew(state, queue', prio)
      /\ UNCHANGED <<boot, is_kcd_init, prio, priv, mbx, queue, ring, rx>>
  BY DEF IrqExit
<1>2. Booted /\ boot > Len(BootTasks)
  BY <1>1, BootLen DEF IInv, BootInv, TypeOK, Booted
<1>3. FreeTids' = FreeTids /\ FreeCount' = FreeCount /\ RingInv'
  BY <1>1, SameRing DEF IInv
<1>4. BootInv' /\ Booted'
  BY <1>1, <1>2, SameBoot DEF IInv
<1>5. /\ gp_current_task' \in TCBs /\ state' \in [TCBs -> States]
      /\ StateInv' /\ QueueMatchesStates' /\ StrictPriority'
      /\ \A p \in TCBs : /\ state'[p] = BLK_MSG <=> state[p] = BLK_MSG
                         /\ state'[p] = DORMANT <=> state[p] = DORMANT
  <2>1. Stands(state, queue', FreeTids')
    BY <1>1, <1>2, <1>3, Settled
  <2> QED
    BY <1>1, <1>4, <2>1, Rescheduled
<1>6. ReceiveInv' /\ NoLostWakeup'
  BY <1>1, <1>3, <1>5, SameMail DEF IInv, TypeOK, ReceiveInv
<1>7. TypeOK'
  BY <1>1, <1>5 DEF IInv, TypeOK, mbx, ring
<1> QED
  BY <1>3, <1>4, <1>5, <1>6, <1>7 DEF IInv
-----------------------------------------------------------------------------
\* The steps that neither queue, switch nor hand out ids.
LEMMA Unscheduled ==
  ASSUME IInv,
         UNCHANGED <<boot, is_kcd_init, gp_current_task, state, prio, queue, ring, irq>>
  PROVE  FreeTids' = FreeTids /\ RingInv' /\ StateInv' /\ QueueMatchesStates'
         /\ StrictPriority'
<1>1. FreeTids' = FreeTids /\ RingInv'
  BY SameRing DEF IInv
<1>2. \A t : GetTcb(t)' = GetTcb(t)
  BY SameTcbs
<1>3. StateInv'
  BY <1>1, <1>2 DEF IInv, StateInv
<1>4. QueueMatchesStates'
  BY <1>1, <1>2 DEF IInv, QueueMatchesStates
<1>5. StrictPriority'
  BY <1>2 DEF IInv, StrictPriority, TidPrio, TidOf, Booted
<1> QED
  BY <1>1, <1>3, <1>4, <1>5

LEMMA MbxCreateStep == ASSUME IInv, NEW n \in MbxSizes \cup {KCD_MBX_SIZE}, MbxCreate(n) PROVE IInv'
<1>1. /\ Booted /\ ~irq /\ gp_current_task \notin receiving
      /\ capacity' = [capacity EXCEPT ![gp_current_task] = n]
      /\ mail' = [mail EXCEPT ![gp_current_task] = <<>>]
      /\ UNCHANGED <<boot, is_kcd_init, gp_current_task, state, prio, priv,
                     receiving, queue, ring, irq, rx>>
  BY DEF MbxCreate, MailerRuns, Running
<1>2. BootInv' /\ Booted' /\ boot > Len(BootTasks)
  BY <1>1, SameBoot, BootLen DEF IInv, Booted
<1>3. FreeTids' = FreeTids /\ RingInv' /\ StateInv' /\ QueueMatchesStates' /\ StrictPriority'
  BY <1>1, <1>2, Unscheduled
<1>4. ReceiveInv'
  BY <1>1, <1>3, SameTcbs DEF IInv, ReceiveInv, TidOf
<1>5. n \in Nat /\ n # 0
  BY SizeAssumption
<1>6. capacity' \in [TCBs -> Nat] /\ mail' \in [TCBs -> Seq(Messages)]
  BY <1>1, <1>5 DEF IInv, TypeOK
<1>7. NoLostWakeup'
  <2>1. \A p \in TCBs : mail'[p] = IF p = gp_current_task THEN <<>> ELSE mail[p]
    BY <1>1 DEF IInv, TypeOK
  <2>2. \A p \in TCBs : capacity'[p] = IF p = gp_current_task THEN n ELSE capacity[p]
    BY <1>1 DEF IInv, TypeOK
  <2>3. receiving \subseteq TCBs
    BY DEF IInv, TypeOK
  <2> QED
    BY <1>1, <2>1, <2>2, <2>3 DEF IInv, NoLostWakeup
<1>8. TypeOK'
  BY <1>1, <1>6 DEF IInv, TypeOK, ring
<1> QED
  BY <1>2, <1>3, <1>4, <1>7, <1>8 DEF IInv

\* What TakeHead leaves of the mailboxes.
LEMMA TakenHead ==
  ASSUME TypeOK, NEW p \in TCBs, TakeHead(p)
  PROVE  /\ mail' \in [TCBs -> Seq(Messages)]
         /\ \A r \in TCBs \ {p} : mail'[r] = mail[r]
         /\ mail[p] = <<>> => mail'[p] = <<>>
<1>1. mail \in [TCBs -> Seq(Messages)] /\ mail[p] \in Seq(Messages)
  BY DEF TypeOK
<1>2. (IF mail[p] = <<>> THEN <<>> ELSE Tail(mail[p])) \in Seq(Messages)
  BY <1>1, HeadTailProperties
<1>3. mail' = [mail EXCEPT ![p] = IF mail[p] = <<>> THEN <<>> ELSE Tail(mail[p])]
  BY DEF TakeHead
<1> QED
  BY <1>1, <1>2, <1>3

LEMMA RecvStep == ASSUME IInv, Recv PROVE IInv'
<1>1. /\ Booted /\ ~irq /\ gp_current_task \notin receiving
      /\ TakeHead(gp_current_task)
      /\ UNCHANGED <<boot, is_kcd_init, gp_current_task, state, prio, priv,
                     capacity, receiving, queue, ring, irq, rx>>
  BY DEF Recv, MailerRuns, Running
<1>2. BootInv' /\ Booted' /\ boot > Len(BootTasks)
  BY <1>1, SameBoot, BootLen DEF IInv, Booted
<1>3. FreeTids' = FreeTids /\ RingInv' /\ StateInv' /\ QueueMatchesStates' /\ StrictPriority'
  BY <1>1, <1>2, Unscheduled
<1>4. ReceiveInv'
  BY <1>1, <1>3, SameTcbs DEF IInv, ReceiveInv, TidOf
<1>5. /\ mail' \in [TCBs -> Seq(Messages)]
      /\ \A r \in TCBs \ {gp_current_task} : mail'[r] = mail[r]
      /\ mail[gp_current_task] = <<>> => mail'[gp_current_task] = <<>>
  BY <1>1, TakenHead DEF IInv, TypeOK
<1>6. NoLostWakeup'
  BY <1>1, <1>5 DEF IInv, NoLostWakeup, TypeOK
<1>7. TypeOK'
  BY <1>1, <1>5 DEF IInv, TypeOK, ring
<1> QED
  BY <1>2, <1>3, <1>4, <1>6, <1>7 DEF IInv

LEMMA RecvResumesStep == ASSUME IInv, RecvResumes PROVE IInv'
<1>1. /\ Booted /\ ~irq /\ receiving' = receiving \ {gp_current_task}
      /\ TakeHead(gp_current_task)
      /\ UNCHANGED <<boot, is_kcd_init, gp_current_task, state, prio, priv,
                     capacity, queue, ring, irq, rx>>
  BY DEF RecvResumes
<1>2. BootInv' /\ Booted' /\ boot > Len(BootTasks)
  <2>1. receiving = {} => receiving' = {}
    BY <1>1
  <2> QED
    BY <1>1, SameBoot, BootLen DEF IInv, Booted
<1>3. FreeTids' = FreeTids /\ RingInv' /\ StateInv' /\ QueueMatchesStates' /\ StrictPriority'
  BY <1>1, <1>2, Unscheduled
<1>4. ReceiveInv'
  BY <1>1, <1>3, SameTcbs DEF IInv, ReceiveInv, TidOf
<1>5. /\ mail' \in [TCBs -> Seq(Messages)]
      /\ \A r \in TCBs \ {gp_current_task} : mail'[r] = mail[r]
      /\ mail[gp_current_task] = <<>> => mail'[gp_current_task] = <<>>
  BY <1>1, TakenHead DEF IInv, TypeOK
<1>6. NoLostWakeup'
  <2>1. state[gp_current_task] # BLK_MSG
    BY DEF IInv, QueueMatchesStates, TypeOK, RUNNING, BLK_MSG
  <2> QED
    BY <1>1, <1>5, <2>1 DEF IInv, NoLostWakeup, TypeOK
<1>7. TypeOK'
  BY <1>1, <1>5 DEF IInv, TypeOK, ring
<1> QED
  BY <1>2, <1>3, <1>4, <1>6, <1>7 DEF IInv

LEMMA UartRxStep == ASSUME IInv, UartRx PROVE IInv'
<1>1. /\ rx < RxMax /\ rx' = rx + 1
      /\ UNCHANGED <<boot, is_kcd_init, gp_current_task, state, prio, priv,
                     capacity, mail, receiving, queue, ring, irq>>
  BY DEF UartRx, mbx
<1>2. FreeTids' = FreeTids /\ RingInv'
  BY <1>1, SameRing DEF IInv
<1>3. rx' \in 0..RxMax
  BY <1>1, SizeAssumption DEF IInv, TypeOK
<1>4. TypeOK'
  BY <1>1, <1>3 DEF IInv, TypeOK, ring
<1>5. \A t : GetTcb(t)' = GetTcb(t)
  BY <1>1, SameTcbs
<1>6. BootInv'
  BY <1>1 DEF IInv, BootInv, ring
<1>6a. NoLostWakeup'
  BY <1>1 DEF IInv, NoLostWakeup
<1>6b. StrictPriority'
  BY <1>1, <1>5 DEF IInv, StrictPriority, TidPrio, TidOf, Booted
<1>7. StateInv' /\ QueueMatchesStates' /\ ReceiveInv'
  BY <1>1, <1>2, <1>5 DEF IInv, StateInv, QueueMatchesStates, ReceiveInv, TidOf
<1> QED
  BY <1>2, <1>4, <1>6, <1>6a, <1>6b, <1>7 DEF IInv

LEMMA IrqEnterStep == ASSUME IInv, IrqEnter PROVE IInv'
<1>1. /\ Booted /\ ~irq /\ irq' = TRUE
      /\ UNCHANGED <<boot, is_kcd_init, gp_current_task, state, prio, priv,
                     capacity, mail, receiving, queue, ring, rx>>
  BY DEF IrqEnter, Running, mbx
<1>2. FreeTids' = FreeTids /\ RingInv'
  BY <1>1, SameRing DEF IInv
<1>3. TypeOK'
  BY <1>1 DEF IInv, TypeOK, ring
<1>4. \A t : GetTcb(t)' = GetTcb(t)
  BY <1>1, SameTcbs
<1>5. BootInv'
  BY <1>1, SameBoot DEF IInv
<1>6. NoLostWakeup' /\ StrictPriority'
  BY <1>1 DEF IInv, NoLostWakeup, StrictPriority
<1>7. StateInv' /\ QueueMatchesStates' /\ ReceiveInv'
  BY <1>1, <1>2, <1>4 DEF IInv, StateInv, QueueMatchesStates, ReceiveInv, TidOf
<1> QED
  BY <1>2, <1>3, <1>5, <1>6, <1>7 DEF IInv
-----------------------------------------------------------------------------
\* What Deliver leaves of the mailboxes.
LEMMA Delivered ==
  ASSUME TypeOK, NEW r \in TCBs, NEW from \in Tids \cup {TID_UART_IRQ},
         NEW n \in MsgLens \cup {KeyWords}, Deliver(r, from, n)
  PROVE  /\ mail' \in [TCBs -> Seq(Messages)]
         /\ \A p \in TCBs \ {r} : mail'[p] = mail[p]
         /\ mail'[r] # <<>>
<1>1. mail \in [TCBs -> Seq(Messages)] /\ mail[r] \in Seq(Messages)
  BY DEF TypeOK
<1>2. [from |-> from, len |-> n] \in Messages
  BY DEF Messages
<1>3. /\ Append(mail[r], [from |-> from, len |-> n]) \in Seq(Messages)
      /\ Append(mail[r], [from |-> from, len |-> n]) # <<>>
  BY <1>1, <1>2, AppendProperties
<1>4. mail' = [mail EXCEPT ![r] = Append(mail[r], [from |-> from, len |-> n])]
  BY DEF Deliver
<1> QED
  BY <1>1, <1>3, <1>4

\* How the task states st and the queue q stand once a blocked receiver has
\* been made READY and queued.
WokenAs(t, st, q) ==
  /\ GetTcb(t) \in TCBs /\ GetTcb(t) # gp_current_task /\ GetTcb(t) \in receiving
  /\ st[gp_current_task] = RUNNING /\ st[GetTcb(t)] = READY
  /\ \A p \in TCBs \ {GetTcb(t)} : st[p] = state[p]
  /\ Stands(st, q, FreeTids)

LEMMA Woken ==
  ASSUME IInv, boot > Len(BootTasks), NEW t \in Tids, state[GetTcb(t)] = BLK_MSG,
         NEW st, st = [state EXCEPT ![GetTcb(t)] = READY],
         NEW q, q.members = Insert(queue, t).members
  PROVE  WokenAs(t, st, q)
<1> DEFINE r == GetTcb(t)
<1>1. /\ state \in [TCBs -> States] /\ QueueOK(queue, Tids)
      /\ gp_current_task \in TCBs /\ state[gp_current_task] = RUNNING
      /\ \A p \in TCBs \ {gp_current_task} : state[p] # RUNNING
      /\ is_kcd_init => state[TID_KCD] = DORMANT
      /\ ~is_kcd_init => state[KcdTcb] = DORMANT
  BY Settled
<1>2. /\ \A u \in Tids \ FreeTids :
              /\ u \in queue.members <=> state[GetTcb(u)] \in {READY, RUNNING}
              /\ state[GetTcb(u)] # DORMANT
      /\ \A u \in FreeTids : u \in Tids /\ u \notin queue.members
      /\ \A u \in FreeTids : state[GetTcb(u)] \in {DORMANT, READY}
      /\ \A u \in FreeTids : state[GetTcb(u)] = READY => MemMayFail
  BY Settled
<1>3. r \in TCBs /\ r # gp_current_task
  BY <1>1, TcbFacts DEF RUNNING, BLK_MSG
<1>4. r \in receiving
  BY <1>3 DEF IInv, NoLostWakeup
<1>5. t \notin FreeTids
  BY <1>2 DEF BLK_MSG, DORMANT, READY
<1>6. /\ st \in [TCBs -> States] /\ st[r] = READY
      /\ \A p \in TCBs \ {r} : st[p] = state[p]
  BY <1>1, <1>3 DEF States
<1>7. q.members = queue.members \cup {t}
  BY InsertMembers
<1>8. \A u \in Tids \ {t} : GetTcb(u) \in TCBs \ {r}
  BY TcbFacts
<1>10. st[gp_current_task] = RUNNING /\ \A p \in TCBs \ {gp_current_task} : st[p] # RUNNING
  BY <1>1, <1>3, <1>6 DEF READY, RUNNING
<1>11. \A u \in Tids \ FreeTids :
              /\ u \in q.members <=> st[GetTcb(u)] \in {READY, RUNNING}
              /\ st[GetTcb(u)] # DORMANT
  <2> SUFFICES ASSUME NEW u \in Tids \ FreeTids
               PROVE  /\ u \in q.members <=> st[GetTcb(u)] \in {READY, RUNNING}
                      /\ st[GetTcb(u)] # DORMANT
    OBVIOUS
  <2>1. CASE u = t
    BY <1>6, <1>7, <2>1 DEF READY, DORMANT
  <2>2. CASE u # t
    BY <1>2, <1>6, <1>7, <1>8, <2>2
  <2> QED
    BY <2>1, <2>2
<1>12. /\ \A u \in FreeTids : u \in Tids /\ u \notin q.members
       /\ \A u \in FreeTids : st[GetTcb(u)] \in {DORMANT, READY}
       /\ \A u \in FreeTids : st[GetTcb(u)] = READY => MemMayFail
  BY <1>2, <1>5, <1>6, <1>7, <1>8
<1>13. (is_kcd_init => st[TID_KCD] = DORMANT) /\ (~is_kcd_init => st[KcdTcb] = DORMANT)
  <2>1. /\ is_kcd_init => r # TID_KCD
        /\ ~is_kcd_init => r # KcdTcb
    BY <1>1 DEF DORMANT, BLK_MSG
  <2> QED
    BY <1>1, <1>6, <2>1, TcbFacts
<1>14. Stands(st, q, FreeTids)
  BY <1>6, <1>10, <1>11, <1>12, <1>13 DEF Stands, READY, RUNNING
<1> QED
  BY <1>3, <1>4, <1>6, <1>10, <1>14 DEF WokenAs

LEMMA IrqCharStep == ASSUME IInv, IrqChar PROVE IInv'
<1> DEFINE r == GetTcb(TID_KCD)
<1>1. /\ irq /\ rx > 0 /\ rx' = rx - 1
      /\ IF Accepts(r, KeyWords)
         THEN /\ Deliver(r, TID_UART_IRQ, KeyWords)
              /\ IF state[r] = BLK_MSG
                 THEN /\ state' = [state EXCEPT ![r] = READY]
                      /\ queue' = Insert(queue, TID_KCD)
                 ELSE UNCHANGED <<state, queue>>
         ELSE UNCHANGED <<mail, state, queue>>
      /\ UNCHANGED <<boot, is_kcd_init, gp_current_task, prio, priv, capacity,
                     receiving, ring, irq>>
  BY DEF IrqChar
<1>2. Booted /\ boot > Len(BootTasks)
  BY <1>1, BootLen DEF IInv, BootInv, TypeOK, Booted
<1>3. FreeTids' = FreeTids /\ RingInv' /\ BootInv' /\ (\A t : GetTcb(t)' = GetTcb(t))
  BY <1>1, <1>2, SameRing, SameBoot, SameTcbs DEF IInv
<1>4. rx' \in 0..RxMax /\ StrictPriority'
  BY <1>1, SizeAssumption DEF IInv, TypeOK, StrictPriority
<1>5. ReceiveInv'
  BY <1>1, <1>3 DEF IInv, ReceiveInv, TidOf
<1>6. r \in TCBs /\ receiving \subseteq TCBs
  BY TcbFacts DEF IInv, TypeOK
<1>7. CASE Accepts(r, KeyWords) /\ state[r] = BLK_MSG
  <2>1. /\ Deliver(r, TID_UART_IRQ, KeyWords)
        /\ state' = [state EXCEPT ![r] = READY]
        /\ queue' = Insert(queue, TID_KCD)
    BY <1>1, <1>7
  <2>2. /\ mail' \in [TCBs -> Seq(Messages)]
        /\ \A p \in TCBs \ {r} : mail'[p] = mail[p]
        /\ mail'[r] # <<>>
    BY <1>6, <2>1, Delivered DEF IInv
  <2>3. WokenAs(TID_KCD, state', queue')
    <3>1. queue'.members = Insert(queue, TID_KCD).members /\ TID_KCD \in Tids
      BY <2>1, TcbFacts
    <3> QED
      BY <1>2, <1>7, <2>1, <3>1, Woken
  <2>4. QueueOK(queue', Tids)
    <3>1. QueueOK(Insert(queue, TID_KCD), Tids)
      BY TcbFacts, InsertOK DEF IInv, TypeOK
    <3> QED
      BY <2>1, <3>1
  <2>5. TypeOK'
    BY <1>1, <1>4, <2>2, <2>3, <2>4 DEF IInv, TypeOK, ring, WokenAs, Stands
  <2>6. StateInv' /\ QueueMatchesStates'
    BY <1>1, <1>2, <1>3, <2>3, BootLen DEF StateInv, QueueMatchesStates, WokenAs, Stands, Booted
  <2>7. NoLostWakeup'
    BY <1>1, <1>6, <2>2, <2>3 DEF IInv, NoLostWakeup, WokenAs, READY, BLK_MSG, DORMANT
  <2> QED
    BY <1>3, <1>4, <1>5, <2>5, <2>6, <2>7 DEF IInv
<1>8. CASE Accepts(r, KeyWords) /\ state[r] # BLK_MSG
  <2>1. Deliver(r, TID_UART_IRQ, KeyWords) /\ UNCHANGED <<state, queue>>
    BY <1>1, <1>8
  <2>2. /\ mail' \in [TCBs -> Seq(Messages)]
        /\ \A p \in TCBs \ {r} : mail'[p] = mail[p]
        /\ mail'[r] # <<>>
    BY <1>6, <2>1, Delivered DEF IInv
  <2>3. TypeOK'
    BY <1>1, <1>4, <2>1, <2>2 DEF IInv, TypeOK, ring
  <2>4. StateInv' /\ QueueMatchesStates'
    BY <1>1, <1>3, <2>1 DEF IInv, StateInv, QueueMatchesStates
  <2>5. NoLostWakeup'
    BY <1>1, <1>6, <1>8, <2>1, <2>2 DEF IInv, NoLostWakeup
  <2> QED
    BY <1>3, <1>4, <1>5, <2>3, <2>4, <2>5 DEF IInv
<1>9. CASE ~Accepts(r, KeyWords)
  <2>1. UNCHANGED <<mail, state, queue>>
    BY <1>1, <1>9
  <2>2. TypeOK'
    BY <1>1, <1>4, <2>1 DEF IInv, TypeOK, ring
  <2>3. StateInv' /\ QueueMatchesStates' /\ NoLostWakeup'
    BY <1>1, <1>3, <2>1 DEF IInv, StateInv, QueueMatchesStates, NoLostWakeup
  <2> QED
    BY <1>3, <1>4, <1>5, <2>2, <2>3 DEF IInv
<1> QED
  BY <1>7, <1>8, <1>9
LEMMA SendStep ==
  ASSUME IInv, NEW t \in Tids, NEW n \in MsgLens, Send(t, n) PROVE IInv'
<1> DEFINE r == GetTcb(t)
           me == TidOf(gp_current_task)
           st == [state EXCEPT ![r] = READY]
<1>1. /\ Booted /\ ~irq
      /\ Deliver(r, me, n)
      /\ IF state[r] = BLK_MSG
         THEN queue' = Insert(Insert(queue, t), me) /\ RunNew(st, queue', prio)
         ELSE UNCHANGED <<queue, state, gp_current_task>>
      /\ UNCHANGED <<boot, is_kcd_init, prio, priv, capacity, receiving, ring,
                     irq, rx>>
  BY DEF Send, DoYield, MailerRuns, Running
<1>2. BootInv' /\ Booted' /\ boot > Len(BootTasks)
  BY <1>1, SameBoot, BootLen DEF IInv, Booted
<1>3. FreeTids' = FreeTids /\ RingInv' /\ (\A u : GetTcb(u)' = GetTcb(u))
  BY <1>1, SameRing, SameTcbs DEF IInv
<1>4. r \in TCBs /\ receiving \subseteq TCBs
  BY TcbFacts DEF IInv, TypeOK
<1>5. /\ me \in Tids /\ me \in queue.members
      /\ gp_current_task \in TCBs /\ QueueOK(queue, Tids)
  BY <1>2, Settled
<1>6. /\ mail' \in [TCBs -> Seq(Messages)]
      /\ \A p \in TCBs \ {r} : mail'[p] = mail[p]
      /\ mail'[r] # <<>>
  BY <1>1, <1>4, <1>5, Delivered DEF IInv
<1>7. ReceiveInv'
  BY <1>1, <1>3 DEF IInv, ReceiveInv, TidOf
<1>8. CASE state[r] = BLK_MSG
  <2>1. queue' = Insert(Insert(queue, t), me) /\ RunNew(st, queue', prio')
    BY <1>1, <1>8
  <2>2. queue'.members = Insert(queue, t).members
    BY <1>5, <2>1 DEF Insert
  <2>3. QueueOK(queue', Tids)
    <3>1. QueueOK(Insert(queue, t), Tids)
      BY <1>5, InsertOK
    <3>2. QueueOK(Insert(Insert(queue, t), me), Tids)
      BY <1>5, <3>1, InsertOK
    <3> QED
      BY <2>1, <3>2
  <2>4. WokenAs(t, st, queue')
    BY <1>2, <1>8, <2>2, Woken
  <2> HIDE DEF st
  <2>5. /\ gp_current_task' \in TCBs /\ state' \in [TCBs -> States]
        /\ StateInv' /\ QueueMatchesStates' /\ StrictPriority'
        /\ \A p \in TCBs : /\ state'[p] = BLK_MSG <=> st[p] = BLK_MSG
                           /\ state'[p] = DORMANT <=> st[p] = DORMANT
    <3>1. Stands(st, queue', FreeTids')
      BY <1>3, <2>4 DEF WokenAs
    <3> QED
      BY <1>1, <1>2, <2>1, <3>1, Rescheduled
  <2>6. NoLostWakeup'
    BY <1>1, <1>4, <1>6, <2>4, <2>5
       DEF IInv, NoLostWakeup, WokenAs, READY, BLK_MSG, DORMANT
  <2>7. TypeOK'
    BY <1>1, <1>6, <2>3, <2>5 DEF IInv, TypeOK, ring
  <2> QED
    BY <1>2, <1>3, <1>7, <2>5, <2>6, <2>7 DEF IInv
<1>9. CASE state[r] # BLK_MSG
  <2>1. UNCHANGED <<queue, state, gp_current_task>>
    BY <1>1, <1>9
  <2>2. StateInv' /\ QueueMatchesStates' /\ StrictPriority'
    BY <1>1, <2>1, Unscheduled
  <2>3. NoLostWakeup'
    BY <1>1, <1>4, <1>6, <1>9, <2>1 DEF IInv, NoLostWakeup
  <2>4. TypeOK'
    BY <1>1, <1>6, <2>1 DEF IInv, TypeOK, ring
  <2> QED
    BY <1>2, <1>3, <1>7, <2>2, <2>3, <2>4 DEF IInv
<1> QED
  BY <1>8, <1>9

-----------------------------------------------------------------------------
\* How the task states st and the queue q stand, with F the free ids, once the
\* current task has left the queue and its state is c.
LeftAs(st, q, F, c) ==
  /\ st[gp_current_task] = c
  /\ \A p \in TCBs \ {gp_current_task} : st[p] = state[p]
  /\ Stands(st, q, F)

LEMMA Left ==
  ASSUME IInv, boot > Len(BootTasks), NEW c \in {BLK_MSG, DORMANT},
         NEW st, st = [state EXCEPT ![gp_current_task] = c],
         NEW q, q = Remove(queue, TidOf(gp_current_task)),
         NEW F, F = IF c = DORMANT THEN FreeTids \cup {TidOf(gp_current_task)} ELSE FreeTids
  PROVE  LeftAs(st, q, F, c) /\ QueueOK(q, Tids)
<1> DEFINE me == TidOf(gp_current_task)
<1>1. /\ state \in [TCBs -> States] /\ QueueOK(queue, Tids)
      /\ gp_current_task \in TCBs /\ state[gp_current_task] = RUNNING
      /\ me \in Tids \ FreeTids /\ GetTcb(me) = gp_current_task
      /\ \A p \in TCBs \ {gp_current_task} : state[p] # RUNNING
      /\ is_kcd_init => state[TID_KCD] = DORMANT
      /\ ~is_kcd_init => state[KcdTcb] = DORMANT
  BY Settled
<1>2. /\ \A u \in Tids \ FreeTids :
              /\ u \in queue.members <=> state[GetTcb(u)] \in {READY, RUNNING}
              /\ state[GetTcb(u)] # DORMANT
      /\ \A u \in FreeTids : u \in Tids /\ u \notin queue.members
      /\ \A u \in FreeTids : state[GetTcb(u)] \in {DORMANT, READY}
      /\ \A u \in FreeTids : state[GetTcb(u)] = READY => MemMayFail
  BY Settled
<1>3. /\ st \in [TCBs -> States] /\ st[gp_current_task] = c
      /\ \A p \in TCBs \ {gp_current_task} : st[p] = state[p]
  BY <1>1 DEF States
<1>4. \A u \in Tids \ {me} : GetTcb(u) \in TCBs \ {gp_current_task}
  BY <1>1, TcbFacts
<1>5. q.members = queue.members \ {me}
  BY RemoveMembers
<1>6. QueueOK(q, Tids)
  BY <1>1, RemoveOK
<1>7. F = IF c = DORMANT THEN FreeTids \cup {me} ELSE FreeTids
  OBVIOUS
<1> HIDE DEF me
<1>8. /\ \A u \in Tids \ F : u \in q.members <=> st[GetTcb(u)] \in {READY, RUNNING}
      /\ \A u \in Tids \ F : st[GetTcb(u)] # DORMANT
  <2> SUFFICES ASSUME NEW u \in Tids \ F
               PROVE  /\ u \in q.members <=> st[GetTcb(u)] \in {READY, RUNNING}
                      /\ st[GetTcb(u)] # DORMANT
    OBVIOUS
  <2>1. CASE u = me
    BY <1>1, <1>3, <1>5, <1>7, <2>1 DEF DORMANT, READY, RUNNING, BLK_MSG
  <2>2. CASE u # me
    BY <1>2, <1>3, <1>4, <1>5, <1>7, <2>2
  <2> QED
    BY <2>1, <2>2
<1>9. /\ \A u \in F : u \in Tids /\ u \notin q.members
      /\ \A u \in F : st[GetTcb(u)] \in {DORMANT, READY}
      /\ \A u \in F : st[GetTcb(u)] = READY => MemMayFail
  <2> SUFFICES ASSUME NEW u \in F
               PROVE  /\ u \in Tids /\ u \notin q.members
                      /\ st[GetTcb(u)] \in {DORMANT, READY}
                      /\ st[GetTcb(u)] = READY => MemMayFail
    OBVIOUS
  <2>1. CASE u = me
    BY <1>1, <1>3, <1>5, <1>7, <2>1 DEF DORMANT, READY
  <2>2. CASE u # me
    BY <1>2, <1>3, <1>4, <1>5, <1>7, <2>2
  <2> QED
    BY <2>1, <2>2
<1>10. (is_kcd_init => st[TID_KCD] = DORMANT) /\ (~is_kcd_init => st[KcdTcb] = DORMANT)
  <2>1. /\ is_kcd_init => gp_current_task # TID_KCD
        /\ ~is_kcd_init => gp_current_task # KcdTcb
    BY <1>1 DEF DORMANT, RUNNING
  <2> QED
    BY <1>1, <1>3, <2>1, TcbFacts
<1>11. Stands(st, q, F)
  <2>1. st[gp_current_task] # READY
    BY <1>3 DEF READY, BLK_MSG, DORMANT
  <2>2. \A p \in TCBs \ {gp_current_task} : st[p] # RUNNING
    BY <1>1, <1>3
  <2> QED
    BY <1>3, <1>8, <1>9, <1>10, <2>1, <2>2 DEF Stands
<1> QED
  BY <1>3, <1>6, <1>11 DEF LeftAs

LEMMA RecvBlocksStep == ASSUME IInv, RecvBlocks PROVE IInv'
<1> DEFINE me == TidOf(gp_current_task)
           st == [state EXCEPT ![gp_current_task] = BLK_MSG]
<1>1. /\ Booted /\ ~irq
      /\ capacity[gp_current_task] # 0 /\ mail[gp_current_task] = <<>>
      /\ receiving' = receiving \cup {gp_current_task}
      /\ queue' = Remove(queue, me) /\ RunNew(st, queue', prio')
      /\ UNCHANGED <<boot, is_kcd_init, prio, priv, capacity, mail, ring, irq, rx>>
  BY DEF RecvBlocks, MailerRuns, Running
<1>2. BootInv' /\ Booted' /\ boot > Len(BootTasks)
  BY <1>1, BootLen DEF IInv, BootInv, Booted
<1>3. FreeTids' = FreeTids /\ RingInv' /\ (\A u : GetTcb(u)' = GetTcb(u))
  BY <1>1, SameRing, SameTcbs DEF IInv
<1>4. /\ me \in Tids \ FreeTids /\ GetTcb(me) = gp_current_task
      /\ gp_current_task \in TCBs /\ receiving \subseteq TCBs
  BY <1>2, Settled DEF IInv, TypeOK
<1>5. LeftAs(st, queue', FreeTids, BLK_MSG) /\ QueueOK(queue', Tids)
  <2>1. FreeTids = IF BLK_MSG = DORMANT THEN FreeTids \cup {me} ELSE FreeTids
    BY DEF BLK_MSG, DORMANT
  <2> QED
    BY <1>1, <1>2, <2>1, Left
<1> HIDE DEF st, me
<1>6. /\ gp_current_task' \in TCBs /\ state' \in [TCBs -> States]
      /\ StateInv' /\ QueueMatchesStates' /\ StrictPriority'
      /\ \A p \in TCBs : /\ state'[p] = BLK_MSG <=> st[p] = BLK_MSG
                         /\ state'[p] = DORMANT <=> st[p] = DORMANT
  <2>1. Stands(st, queue', FreeTids')
    BY <1>3, <1>5 DEF LeftAs
  <2> QED
    BY <1>1, <1>2, <2>1, Rescheduled
<1>7. ReceiveInv'
  BY <1>1, <1>3, <1>4 DEF IInv, ReceiveInv, TidOf, me
<1>8. NoLostWakeup'
  BY <1>1, <1>4, <1>5, <1>6 DEF IInv, NoLostWakeup, LeftAs, BLK_MSG, DORMANT
<1>9. TypeOK'
  BY <1>1, <1>4, <1>5, <1>6 DEF IInv, TypeOK, ring
<1> QED
  BY <1>2, <1>3, <1>6, <1>7, <1>8, <1>9 DEF IInv
\* k_tsk_exit gives its id back.
LEMMA Pushed ==
  ASSUME RingInv, NEW t \in Tids \ FreeTids, t # TID_NULL, PushTid(t),
         UNCHANGED U_TID_head, FreeCount' = FreeCount + 1
  PROVE  /\ FreeCount + 1 < MAX_TASKS /\ FreeTids' = FreeTids \cup {t}
         /\ Ring(U_TID_Q, U_TID_head, U_TID_tail, FreeCount)'
<1>1. /\ t \in Tids /\ t \notin Ids(U_TID_Q, U_TID_head, FreeCount)
      /\ Ring(U_TID_Q, U_TID_head, U_TID_tail, FreeCount)
      /\ U_TID_Q' = [U_TID_Q EXCEPT ![U_TID_tail] = t]
      /\ U_TID_tail' = (U_TID_tail + 1) % MAX_TASKS
  BY FreeTidsIds DEF RingInv, PushTid
<1>2. /\ FreeCount + 1 < MAX_TASKS
      /\ Ring(U_TID_Q', U_TID_head, (U_TID_tail + 1) % MAX_TASKS, FreeCount + 1)
      /\ \A x : x \in Ids(U_TID_Q', U_TID_head, FreeCount + 1)
                <=> x \in Ids(U_TID_Q, U_TID_head, FreeCount) \/ x = t
  BY <1>1, PushId
<1>3. Ring(U_TID_Q, U_TID_head, U_TID_tail, FreeCount)'
  BY <1>1, <1>2 DEF Ring
<1>4. FreeTids' = Ids(U_TID_Q', U_TID_head, FreeCount + 1)
  BY DEF Ids, FreeTids, RingSlots, Slots
<1> QED
  BY <1>2, <1>3, <1>4, FreeTidsIds

LEMMA ExitStep == ASSUME IInv, Exit PROVE IInv'
<1> DEFINE me == TidOf(gp_current_task)
           st == [state EXCEPT ![gp_current_task] = DORMANT]
<1>1. /\ Booted /\ ~irq /\ gp_current_task # NullTcb /\ gp_current_task \notin receiving
      /\ U_TID_Q' = [U_TID_Q EXCEPT ![U_TID_tail] = me]
      /\ U_TID_tail' = (U_TID_tail + 1) % MAX_TASKS
      /\ g_num_active_tasks' = g_num_active_tasks - 1
      /\ capacity' = [capacity EXCEPT ![gp_current_task] = 0]
      /\ mail' = [mail EXCEPT ![gp_current_task] = <<>>]
      /\ queue' = Remove(queue, me) /\ RunNew(st, queue', prio')
      /\ UNCHANGED <<boot, is_kcd_init, prio, priv, receiving, U_TID_head, irq, rx>>
  BY DEF Exit, UserRuns, Running, PushTid
<1>2. BootInv' /\ Booted' /\ boot > Len(BootTasks)
  BY <1>1, SameBoot, BootLen DEF IInv, Booted
<1>3. /\ me \in Tids \ FreeTids /\ GetTcb(me) = gp_current_task
      /\ gp_current_task \in TCBs /\ receiving \subseteq TCBs
  BY <1>2, Settled DEF IInv, TypeOK
<1>4. me # TID_NULL
  BY <1>1, <1>3, TcbFacts
<1>5. /\ FreeCount = MAX_TASKS - g_num_active_tasks
      /\ FreeCount' = MAX_TASKS - g_num_active_tasks'
      /\ g_num_active_tasks \in 1..MAX_TASKS
  BY <1>1, <1>2, BootLen, TcbFacts DEF FreeCount, Booted, IInv, TypeOK
<1>6. FreeCount' = FreeCount + 1
  BY <1>1, <1>5, TcbFacts
<1>7. /\ FreeCount + 1 < MAX_TASKS /\ FreeTids' = FreeTids \cup {me}
      /\ Ring(U_TID_Q, U_TID_head, U_TID_tail, FreeCount)'
  BY <1>1, <1>3, <1>4, <1>6, Pushed DEF IInv, PushTid
<1>8. FreeTids' = FreeTids \cup {me}
  BY <1>7
<1>9. RingInv'
  <2>1. is_kcd_init => me # TID_KCD \/ gp_current_task = KcdTcb
    BY <1>3 DEF GetTcb
  <2>2. is_kcd_init => me # TID_KCD
    BY <1>1, <2>1 DEF Exit, UserRuns
  <2>3. is_kcd_init \/ boot <= Len(BootTasks) => TID_KCD \notin FreeTids'
    BY <1>2, <1>8, <2>2, BootLen DEF IInv, RingInv, TypeOK
  <2> QED
    BY <1>1, <1>7, <2>3 DEF RingInv
<1>10. LeftAs(st, queue', FreeTids', DORMANT) /\ QueueOK(queue', Tids)
  <2>1. FreeTids' = IF DORMANT = DORMANT THEN FreeTids \cup {me} ELSE FreeTids
    BY <1>8
  <2> QED
    BY <1>1, <1>2, <2>1, Left
<1> HIDE DEF st
<1>11. /\ gp_current_task' \in TCBs /\ state' \in [TCBs -> States]
       /\ StateInv' /\ QueueMatchesStates' /\ StrictPriority'
       /\ \A p \in TCBs : /\ state'[p] = BLK_MSG <=> st[p] = BLK_MSG
                          /\ state'[p] = DORMANT <=> st[p] = DORMANT
  <2>1. Stands(st, queue', FreeTids')
    BY <1>10 DEF LeftAs
  <2> QED
    BY <1>1, <1>2, <2>1, Rescheduled
<1>12. ReceiveInv'
  <2> SUFFICES ASSUME NEW p \in receiving
               PROVE  GetTcb(TidOf(p)) = p /\ TidOf(p) \notin FreeTids'
    BY <1>1, SameTcbs DEF ReceiveInv, TidOf
  <2>1. GetTcb(TidOf(p)) = p /\ TidOf(p) \notin FreeTids
    BY DEF IInv, ReceiveInv
  <2>2. TidOf(p) # me
    BY <1>1, <1>3, <2>1
  <2> QED
    BY <1>8, <2>1, <2>2
<1>13. NoLostWakeup'
  <2>1. \A p \in TCBs \ {gp_current_task} : /\ mail'[p] = mail[p] /\ capacity'[p] = capacity[p]
                                           /\ st[p] = state[p]
    BY <1>1, <1>10 DEF LeftAs, IInv, TypeOK
  <2>2. st[gp_current_task] = DORMANT
    BY <1>10 DEF LeftAs
  <2> QED
    BY <1>1, <1>3, <1>11, <2>1, <2>2 DEF IInv, NoLostWakeup, BLK_MSG, DORMANT
<1>14. TypeOK'
  <2>1. capacity' \in [TCBs -> Nat] /\ mail' \in [TCBs -> Seq(Messages)]
    BY <1>1 DEF IInv, TypeOK
  <2>2. U_TID_Q' \in [Tids -> Tids] /\ U_TID_tail' \in Tids
    <3>1. U_TID_Q' \in [Tids -> Tids]
      BY <1>1, <1>3 DEF IInv, TypeOK
    <3>2. U_TID_tail \in Tids
      BY DEF IInv, TypeOK
    <3>3. U_TID_tail' = IF U_TID_tail + 1 = MAX_TASKS THEN 0 ELSE U_TID_tail + 1
      BY <1>1, <3>2, NextSlot
    <3>4. U_TID_tail' \in Tids
      BY <3>2, <3>3, TidAssumption DEF Tids
    <3> QED
      BY <3>1, <3>4
  <2>3. g_num_active_tasks' \in 1..MAX_TASKS
    BY <1>1, <1>5, <1>7, TcbFacts
  <2> QED
    BY <1>1, <1>10, <1>11, <2>1, <2>2, <2>3 DEF IInv, TypeOK
<1> QED
  BY <1>2, <1>9, <1>11, <1>12, <1>13, <1>14 DEF IInv

\* Where tasks name only tasks, k_tsk_set_prio's target holds its id.
LEMMA SetPrioStep ==
  ASSUME PhantomFree, IInv, NEW t \in Tids, NEW p \in NewPrios, SetPrio(t, p)
  PROVE  IInv'
<1> DEFINE target == GetTcb(t)
<1>1. /\ Booted /\ ~irq /\ state[target] # DORMANT
      /\ CheckedTids => t \notin FreeTids
      /\ prio' = [prio EXCEPT ![target] = p]
      /\ IF state[target] = BLK_MSG
         THEN UNCHANGED <<queue, state, gp_current_task>>
         ELSE \E u \in Removed(t) : /\ queue' = Insert(Remove(queue, u), t)
                                    /\ RunNew(state, queue', prio')
      /\ UNCHANGED <<boot, is_kcd_init, priv, mbx, ring, irq, rx>>
  BY DEF SetPrio, UserRuns, Running
<1>2. BootInv' /\ Booted' /\ boot > Len(BootTasks)
  BY <1>1, SameBoot, BootLen DEF IInv, Booted
<1>3. FreeTids' = FreeTids /\ RingInv' /\ (\A u : GetTcb(u)' = GetTcb(u))
  BY <1>1, SameRing, SameTcbs DEF IInv
<1>4. target \in TCBs
  BY TcbFacts
<1>5. t \notin FreeTids
  BY <1>1 DEF IInv, StateInv, PhantomFree
<1>6. prio' \in [TCBs -> 0..PRIO_NULL]
  BY <1>1, <1>4, PrioAssumption DEF IInv, TypeOK
<1>7. CASE state[target] = BLK_MSG
  <2>1. UNCHANGED <<queue, state, gp_current_task>>
    BY <1>1, <1>7
  <2>2. StateInv' /\ QueueMatchesStates'
    BY <1>1, <1>3, <2>1 DEF IInv, StateInv, QueueMatchesStates
  <2>3. ReceiveInv' /\ NoLostWakeup'
    BY <1>1, <1>3, <2>1 DEF IInv, ReceiveInv, NoLostWakeup, TidOf, mbx
  <2>4. StrictPriority'
    <3>1. t \notin queue.members
      BY <1>5, <1>7 DEF IInv, QueueMatchesStates, READY, RUNNING, BLK_MSG
    <3>2. \A u \in queue.members : TidPrio(prio)'[u] = TidPrio(prio)[u]
      <4> SUFFICES ASSUME NEW u \in queue.members
                   PROVE  TidPrio(prio)'[u] = TidPrio(prio)[u]
        OBVIOUS
      <4>1. u \in Tids /\ u # t
        BY <3>1 DEF IInv, TypeOK, QueueOK
      <4>2. GetTcb(u) \in TCBs /\ GetTcb(u) # target
        BY <4>1, TcbFacts
      <4>3. TidPrio(prio)[u] = prio[GetTcb(u)] /\ TidPrio(prio)'[u] = prio'[GetTcb(u)]
        BY <1>3, <4>1 DEF TidPrio
      <4> QED
        BY <1>1, <4>2, <4>3 DEF IInv, TypeOK
    <3>3. IsTop(queue, TidPrio(prio), TidOf(gp_current_task))
      BY <1>1 DEF IInv, StrictPriority
    <3>4. IsTop(queue, TidPrio(prio)', TidOf(gp_current_task))
      BY <3>2, <3>3 DEF IsTop, Before
    <3> QED
      BY <2>1, <3>4 DEF StrictPriority, TidOf
  <2>5. TypeOK'
    BY <1>1, <1>6, <2>1 DEF IInv, TypeOK, mbx, ring
  <2> QED
    BY <1>2, <1>3, <2>2, <2>3, <2>4, <2>5 DEF IInv
<1>8. CASE state[target] # BLK_MSG
  <2>1. t \in queue.members
    <3>1. state[target] \in {READY, RUNNING}
      BY <1>1, <1>4, <1>8 DEF IInv, TypeOK, States
    <3> QED
      BY <1>5, <3>1 DEF IInv, QueueMatchesStates
  <2>2. queue' = Insert(Remove(queue, t), t) /\ RunNew(state, queue', prio')
    BY <1>1, <1>8, <2>1 DEF Removed
  <2>3. queue'.members = queue.members
    BY <2>1, <2>2 DEF Insert, Remove
  <2>4. QueueOK(queue', Tids)
    <3>1. QueueOK(queue, Tids)
      BY DEF IInv, TypeOK
    <3>2. QueueOK(Remove(queue, t), Tids)
      BY <3>1, RemoveOK
    <3>3. QueueOK(Insert(Remove(queue, t), t), Tids)
      BY <3>2, InsertOK
    <3> QED
      BY <2>2, <3>3
  <2>5. /\ gp_current_task' \in TCBs /\ state' \in [TCBs -> States]
        /\ StateInv' /\ QueueMatchesStates' /\ StrictPriority'
        /\ \A q \in TCBs : /\ state'[q] = BLK_MSG <=> state[q] = BLK_MSG
                           /\ state'[q] = DORMANT <=> state[q] = DORMANT
    <3>1. Stands(state, queue', FreeTids')
      BY <1>2, <1>3, <2>3, Settled DEF Stands
    <3> QED
      BY <1>1, <1>2, <2>2, <3>1, Rescheduled
  <2>6. ReceiveInv' /\ NoLostWakeup'
    BY <1>1, <1>3, <2>5, SameMail DEF IInv, TypeOK, ReceiveInv
  <2>7. TypeOK'
    BY <1>1, <1>6, <2>4, <2>5 DEF IInv, TypeOK, mbx, ring
  <2> QED
    BY <1>2, <1>3, <2>5, <2>6, <2>7 DEF IInv
<1> QED
  BY <1>7, <1>8
-----------------------------------------------------------------------------
\* The id at the head of the ring, when the ring is not empty: it is free, its
\* TCB is the one of that number, and the ring without it is a ring.
HeadAs(tid) ==
  /\ tid \in FreeTids /\ tid \in Tids /\ tid # TID_NULL
  /\ is_kcd_init \/ boot <= Len(BootTasks) => tid # TID_KCD
  /\ GetTcb(tid) = tid
  /\ \A u \in Tids \ {tid} : GetTcb(u) \in TCBs \ {tid}
  /\ (U_TID_head + 1) % MAX_TASKS \in Tids
  /\ Ring(U_TID_Q, (U_TID_head + 1) % MAX_TASKS, U_TID_tail, FreeCount - 1)
  /\ Ids(U_TID_Q, (U_TID_head + 1) % MAX_TASKS, FreeCount - 1) = FreeTids \ {tid}

LEMMA HeadId ==
  ASSUME TypeOK, RingInv, FreeCount > 0 PROVE HeadAs(U_TID_Q[U_TID_head])
<1> DEFINE tid == U_TID_Q[U_TID_head]
<1>1. Ring(U_TID_Q, U_TID_head, U_TID_tail, FreeCount)
  BY DEF RingInv
<1>2. /\ tid \in Ids(U_TID_Q, U_TID_head, FreeCount)
      /\ Ring(U_TID_Q, (U_TID_head + 1) % MAX_TASKS, U_TID_tail, FreeCount - 1)
      /\ Ids(U_TID_Q, (U_TID_head + 1) % MAX_TASKS, FreeCount - 1)
           = Ids(U_TID_Q, U_TID_head, FreeCount) \ {tid}
  BY <1>1, PopId
<1>3. tid \in Tids /\ tid # TID_NULL
  BY <1>1, <1>2 DEF TypeOK, Ring
<1>4. is_kcd_init \/ boot <= Len(BootTasks) => tid # TID_KCD
  BY <1>2, FreeTidsIds DEF RingInv
<1>5. GetTcb(tid) = tid
  BY <1>4 DEF GetTcb
<1>6. \A u \in Tids \ {tid} : GetTcb(u) \in TCBs \ {tid}
  BY <1>3, <1>5, TcbFacts
<1>7. (U_TID_head + 1) % MAX_TASKS \in Tids
  BY <1>2 DEF Ring
<1> HIDE DEF tid
<1>8. Ids(U_TID_Q, (U_TID_head + 1) % MAX_TASKS, FreeCount - 1) = FreeTids \ {tid}
  BY <1>2, FreeTidsIds
<1>9. tid \in FreeTids
  BY <1>2, FreeTidsIds
<1>10. HeadAs(tid)
  BY <1>2, <1>3, <1>4, <1>5, <1>6, <1>7, <1>8, <1>9 DEF HeadAs
<1> QED
  BY <1>10 DEF tid

LEMMA Popped ==
  ASSUME NEW tid, HeadAs(tid), PopTid, UNCHANGED <<U_TID_Q, U_TID_tail>>,
         FreeCount' = FreeCount - 1
  PROVE  FreeTids' = FreeTids \ {tid} /\ Ring(U_TID_Q, U_TID_head, U_TID_tail, FreeCount)'
<1>1. /\ Ring(U_TID_Q, U_TID_head', U_TID_tail, FreeCount - 1)
      /\ Ids(U_TID_Q, U_TID_head', FreeCount - 1) = FreeTids \ {tid}
  BY DEF HeadAs, PopTid
<1>2. Ring(U_TID_Q, U_TID_head, U_TID_tail, FreeCount)'
  BY <1>1 DEF Ring
<1>3. FreeTids' = Ids(U_TID_Q, U_TID_head', FreeCount - 1)
  BY DEF Ids, FreeTids, RingSlots, Slots
<1> QED
  BY <1>1, <1>2, <1>3

\* A new task's TCB, READY under the id at the head of the ring.
LEMMA Created ==
  ASSUME IInv, boot > Len(BootTasks), NEW tid, HeadAs(tid),
         NEW st, st = [state EXCEPT ![tid] = READY]
  PROVE  /\ tid \in TCBs /\ tid # gp_current_task /\ tid \notin receiving
         /\ st \in [TCBs -> States]
         /\ st[tid] = READY /\ \A p \in TCBs \ {tid} : st[p] = state[p]
         /\ \A p \in TCBs : st[p] = RUNNING <=> p = gp_current_task
         /\ is_kcd_init => st[TID_KCD] = DORMANT
         /\ ~is_kcd_init => st[KcdTcb] = DORMANT
         /\ \A u \in Tids \ {tid} : st[GetTcb(u)] = state[GetTcb(u)]
<1>1. /\ tid \in FreeTids /\ tid \in Tids /\ GetTcb(tid) = tid
      /\ is_kcd_init => tid # TID_KCD
      /\ \A u \in Tids \ {tid} : GetTcb(u) \in TCBs \ {tid}
  BY DEF HeadAs
<1>2. /\ state \in [TCBs -> States] /\ gp_current_task \in TCBs
      /\ TidOf(gp_current_task) \notin FreeTids
      /\ is_kcd_init => state[TID_KCD] = DORMANT
      /\ ~is_kcd_init => state[KcdTcb] = DORMANT
  BY Settled
<1>3. tid \in TCBs /\ TidOf(tid) = tid /\ tid # KcdTcb
  BY <1>1, TcbFacts
<1>4. tid # gp_current_task /\ tid \notin receiving
  BY <1>1, <1>2, <1>3 DEF IInv, ReceiveInv
<1>5. st \in [TCBs -> States] /\ st[tid] = READY /\ \A p \in TCBs \ {tid} : st[p] = state[p]
  BY <1>2, <1>3 DEF States
<1>6. \A p \in TCBs : st[p] = RUNNING <=> p = gp_current_task
  BY <1>2, <1>3, <1>4, <1>5 DEF IInv, QueueMatchesStates, READY, RUNNING
<1>7. is_kcd_init => st[TID_KCD] = DORMANT
  BY <1>1, <1>2, <1>5, TcbFacts
<1>8. ~is_kcd_init => st[KcdTcb] = DORMANT
  BY <1>2, <1>3, <1>5, TcbFacts
<1>9. \A u \in Tids \ {tid} : st[GetTcb(u)] = state[GetTcb(u)]
  BY <1>1, <1>5
<1> QED
  BY <1>3, <1>4, <1>5, <1>6, <1>7, <1>8, <1>9

\* The fields k_tsk_create_new writes keep their types, and nobody waits on
\* the mailbox it clears.
LEMMA NewTaskFields ==
  ASSUME TypeOK, NEW p \in TCBs, NEW pr \in 0..PRIO_NULL, NEW pv \in BOOLEAN, NewTask(p, pr, pv)
  PROVE  /\ prio' \in [TCBs -> 0..PRIO_NULL] /\ priv' \in [TCBs -> BOOLEAN]
         /\ capacity' \in [TCBs -> Nat] /\ mail' \in [TCBs -> Seq(Messages)]
         /\ prio'[p] = pr /\ \A r \in TCBs \ {p} : prio'[r] = prio[r]
         /\ mail'[p] = <<>>
         /\ \A r \in TCBs \ {p} : mail'[r] = mail[r] /\ capacity'[r] = capacity[r]
<1>1. prio' \in [TCBs -> 0..PRIO_NULL] /\ priv' \in [TCBs -> BOOLEAN]
  BY DEF TypeOK, NewTask
<1>2. capacity' \in [TCBs -> Nat] /\ mail' \in [TCBs -> Seq(Messages)]
  BY DEF TypeOK, NewTask
<1>3. prio'[p] = pr /\ \A r \in TCBs \ {p} : prio'[r] = prio[r]
  BY DEF TypeOK, NewTask
<1>4. mail'[p] = <<>> /\ \A r \in TCBs \ {p} : mail'[r] = mail[r] /\ capacity'[r] = capacity[r]
  BY DEF TypeOK, NewTask
<1> QED
  BY <1>1, <1>2, <1>3, <1>4
LEMMA CreateStep ==
  ASSUME IInv, NEW p \in Prios, Create(p) PROVE IInv'
<1> DEFINE tid == U_TID_Q[U_TID_head]
           me == TidOf(gp_current_task)
           st == [state EXCEPT ![tid] = READY]
<1>1. /\ Booted /\ ~irq /\ g_num_active_tasks # MAX_TASKS
      /\ U_TID_head' = (U_TID_head + 1) % MAX_TASKS
      /\ g_num_active_tasks' = g_num_active_tasks + 1
      /\ NewTask(tid, p, FALSE)
      /\ queue' = Insert(queue, tid)
      /\ prio' = [prio EXCEPT ![tid] = p]
      /\ IF p < prio[gp_current_task]
         THEN RunNew(st, queue', prio')
         ELSE state' = st /\ UNCHANGED gp_current_task
      /\ UNCHANGED <<boot, is_kcd_init, receiving, U_TID_Q, U_TID_tail, irq, rx>>
  BY DEF Create, UserRuns, Running, PopTid, NewTask
<1>2. BootInv' /\ Booted' /\ boot > Len(BootTasks)
  BY <1>1, SameBoot, BootLen DEF IInv, Booted
<1>3. /\ FreeCount = MAX_TASKS - g_num_active_tasks
      /\ FreeCount' = MAX_TASKS - g_num_active_tasks'
      /\ g_num_active_tasks \in 1..MAX_TASKS
  BY <1>1, <1>2, BootLen, TcbFacts DEF FreeCount, Booted, IInv, TypeOK
<1>4. FreeCount > 0 /\ FreeCount' = FreeCount - 1
  BY <1>1, <1>3, TcbFacts
<1>5. HeadAs(tid)
  BY <1>4, HeadId DEF IInv
<1>6. /\ tid \in FreeTids /\ tid \in Tids /\ GetTcb(tid) = tid
      /\ Ring(U_TID_Q, U_TID_head, U_TID_tail, FreeCount)'
      /\ FreeTids' = FreeTids \ {tid}
  <2>1. PopTid
    BY <1>1 DEF PopTid
  <2> QED
    BY <1>1, <1>4, <1>5, <2>1, Popped DEF HeadAs
<1>7. RingInv' /\ (\A u : GetTcb(u)' = GetTcb(u))
  BY <1>1, <1>6, SameTcbs DEF IInv, RingInv
<1>8. /\ tid \in TCBs /\ tid # gp_current_task /\ tid \notin receiving
      /\ st \in [TCBs -> States]
      /\ st[tid] = READY /\ \A r \in TCBs \ {tid} : st[r] = state[r]
      /\ \A r \in TCBs : st[r] = RUNNING <=> r = gp_current_task
      /\ is_kcd_init => st[TID_KCD] = DORMANT
      /\ ~is_kcd_init => st[KcdTcb] = DORMANT
      /\ \A u \in Tids \ {tid} : st[GetTcb(u)] = state[GetTcb(u)]
  BY <1>2, <1>5, Created
<1>9. /\ gp_current_task \in TCBs /\ me \in Tids \ FreeTids /\ me \in queue.members
      /\ GetTcb(me) = gp_current_task /\ QueueOK(queue, Tids)
      /\ receiving \subseteq TCBs
  BY <1>2, Settled DEF IInv, TypeOK
<1>10. QueueOK(queue', Tids) /\ queue'.members = queue.members \cup {tid}
  <2>1. QueueOK(Insert(queue, tid), Tids)
    BY <1>6, <1>9, InsertOK
  <2>2. Insert(queue, tid).members = queue.members \cup {tid}
    BY DEF Insert
  <2> QED
    BY <1>1, <2>1, <2>2
<1>11. /\ prio' \in [TCBs -> 0..PRIO_NULL] /\ priv' \in [TCBs -> BOOLEAN]
       /\ capacity' \in [TCBs -> Nat] /\ mail' \in [TCBs -> Seq(Messages)]
       /\ prio'[tid] = p /\ \A r \in TCBs \ {tid} : prio'[r] = prio[r]
       /\ mail'[tid] = <<>>
       /\ \A r \in TCBs \ {tid} : mail'[r] = mail[r] /\ capacity'[r] = capacity[r]
  <2>1. p \in 0..PRIO_NULL /\ FALSE \in BOOLEAN
    BY PrioAssumption
  <2> QED
    BY <1>1, <1>8, <2>1, NewTaskFields DEF IInv
<1> HIDE DEF st, tid
<1>12. Stands(st, queue', FreeTids')
  <2>1. \A u \in Tids \ FreeTids' : u \in queue'.members <=> st[GetTcb(u)] \in {READY, RUNNING}
    BY <1>2, <1>6, <1>8, <1>10, Settled
  <2>2. \A u \in Tids \ FreeTids' : st[GetTcb(u)] # DORMANT
    BY <1>2, <1>6, <1>8, Settled DEF READY, DORMANT
  <2>3. FreeTids' \subseteq Tids /\ \A u \in FreeTids' : u \notin queue'.members
    BY <1>2, <1>6, <1>10, Settled
  <2>4. /\ \A u \in FreeTids' : st[GetTcb(u)] \in {DORMANT, READY}
        /\ \A u \in FreeTids' : st[GetTcb(u)] = READY => MemMayFail
    BY <1>2, <1>6, <1>8, <2>3, Settled
  <2>5. st[gp_current_task] # READY /\ \A r \in TCBs \ {gp_current_task} : st[r] # RUNNING
    BY <1>8, <1>9 DEF READY, RUNNING
  <2> QED
    BY <1>8, <2>1, <2>2, <2>3, <2>4, <2>5 DEF Stands
<1>13. /\ gp_current_task' \in TCBs /\ state' \in [TCBs -> States]
       /\ StateInv' /\ QueueMatchesStates' /\ StrictPriority'
       /\ \A r \in TCBs : /\ state'[r] = BLK_MSG <=> st[r] = BLK_MSG
                          /\ state'[r] = DORMANT <=> st[r] = DORMANT
  <2>1. CASE p < prio[gp_current_task]
    <3>1. RunNew(st, queue', prio')
      BY <1>1, <2>1
    <3> QED
      BY <1>1, <1>2, <1>12, <3>1, Rescheduled
  <2>2. CASE ~(p < prio[gp_current_task])
    <3>1. state' = st /\ gp_current_task' = gp_current_task
      BY <1>1, <2>2
    <3>2. StateInv'
      <4>1. boot' = boot /\ is_kcd_init' = is_kcd_init /\ ~(boot <= Len(BootTasks))
        BY <1>1, <1>2, BootLen DEF Booted
      <4> QED
        BY <1>7, <1>12, <3>1, <4>1 DEF StateInv, Stands
    <3>3. QueueMatchesStates'
      BY <1>7, <1>8, <1>12, <3>1 DEF QueueMatchesStates, Stands
    <3>4. IsTop(queue, TidPrio(prio), me)
      BY <1>1 DEF IInv, StrictPriority
    <3>5. \A u \in Tids : TidPrio(prio)[u] = prio[GetTcb(u)] /\ TidPrio(prio)'[u] = prio'[GetTcb(u)]
      BY <1>7 DEF TidPrio
    <3>6. \A u \in Tids \ {tid} : TidPrio(prio)'[u] = TidPrio(prio)[u]
      BY <1>5, <1>11, <3>5 DEF HeadAs
    <3>7. TidPrio(prio)'[me] <= TidPrio(prio)'[tid] /\ TidPrio(prio)'[me] \in Int /\ TidPrio(prio)'[tid] \in Int
      <4>1. TidPrio(prio)'[me] = prio[gp_current_task] /\ TidPrio(prio)'[tid] = p
        BY <1>6, <1>9, <1>11, <3>5, <3>6
      <4>2. prio[gp_current_task] \in Int /\ p \in Int
        BY <1>9, PrioAssumption DEF IInv, TypeOK
      <4> QED
        BY <2>2, <4>1, <4>2
    <3>8. me \in Insert(queue, tid).ahead[tid]
          /\ \A u \in Tids \ {tid} : me \in queue.ahead[u] => me \in Insert(queue, tid).ahead[u]
      <4>1. me # tid
        BY <1>6, <1>9
      <4>2. \A u \in Tids : Insert(queue, tid).ahead[u]
              = IF u = tid THEN queue.members \ {tid} ELSE queue.ahead[u] \ {tid}
        <5>1. QueueOK(queue, Tids) /\ tid \in Tids
          BY <1>6, <1>9
        <5>2. TAKE u \in Tids
        <5> QED
          BY <5>1 DEF QueueOK, Insert
      <4> QED
        BY <1>6, <1>9, <4>1, <4>2
    <3>9. IsTop(queue', TidPrio(prio)', me)
      <4>1. me \in queue'.members
        BY <1>9, <1>10
      <4>2. ASSUME NEW u \in queue'.members \ {me} PROVE Before(queue', TidPrio(prio)', me, u)
        <5>1. CASE u = tid
          BY <1>1, <3>7, <3>8, <5>1 DEF Before
        <5>2. CASE u # tid
          <6>1. u \in queue.members \ {me} /\ u \in Tids
            BY <1>9, <1>10, <5>2 DEF QueueOK
          <6>2. Before(queue, TidPrio(prio), me, u)
            BY <3>4, <6>1 DEF IsTop
          <6>3. TidPrio(prio)'[u] = TidPrio(prio)[u] /\ TidPrio(prio)'[me] = TidPrio(prio)[me]
            BY <1>6, <1>9, <3>6, <5>2, <6>1
          <6> QED
            BY <1>1, <3>8, <5>2, <6>1, <6>2, <6>3 DEF Before
        <5> QED
          BY <5>1, <5>2
      <4> QED
        BY <4>1, <4>2 DEF IsTop
    <3>10. StrictPriority'
      BY <3>1, <3>9 DEF StrictPriority, TidOf
    <3> QED
      BY <1>8, <1>9, <3>1, <3>2, <3>3, <3>10
  <2> QED
    BY <2>1, <2>2
<1>14. ReceiveInv'
  BY <1>1, <1>6, <1>7 DEF IInv, ReceiveInv, TidOf
<1>15. NoLostWakeup'
  <2>1. \A r \in TCBs : state'[r] = BLK_MSG => r \in receiving /\ r # tid /\ state[r] = BLK_MSG
    BY <1>8, <1>13 DEF IInv, NoLostWakeup, READY, BLK_MSG
  <2>2. \A r \in receiving : r \in TCBs \ {tid}
    BY <1>8, <1>9
  <2>3. \A r \in receiving : /\ state'[r] = BLK_MSG <=> state[r] = BLK_MSG
                             /\ state'[r] = DORMANT <=> state[r] = DORMANT
    BY <1>8, <1>13, <2>2
  <2>4. \A r \in receiving : mail'[r] = mail[r] /\ capacity'[r] = capacity[r]
    BY <1>11, <2>2
  <2> QED
    BY <1>1, <2>1, <2>2, <2>3, <2>4 DEF IInv, NoLostWakeup
<1>16. TypeOK'
  <2>1. g_num_active_tasks' \in 1..MAX_TASKS
    BY <1>1, <1>3, TcbFacts
  <2>2. U_TID_head' \in Tids
    BY <1>1, <1>5 DEF HeadAs
  <2> QED
    BY <1>1, <1>10, <1>11, <1>13, <2>1, <2>2 DEF IInv, TypeOK
<1> QED
  BY <1>2, <1>7, <1>13, <1>14, <1>15, <1>16 DEF IInv
\* k_tsk_create takes an id from the ring and gives it back.
LEMMA Returned ==
  ASSUME RingInv, TypeOK, NEW tid, HeadAs(tid), PopTid, PushTid(tid), FreeCount > 0,
         FreeCount' = FreeCount
  PROVE  FreeTids' = FreeTids /\ Ring(U_TID_Q, U_TID_head, U_TID_tail, FreeCount)'
<1>1. /\ Ring(U_TID_Q, U_TID_head', U_TID_tail, FreeCount - 1)
      /\ Ids(U_TID_Q, U_TID_head', FreeCount - 1) = FreeTids \ {tid}
      /\ tid \in Tids /\ tid # TID_NULL /\ tid \in FreeTids
  BY DEF HeadAs, PopTid
<1>2. tid \notin Ids(U_TID_Q, U_TID_head', FreeCount - 1)
  BY <1>1
<1>3. /\ U_TID_Q' = [U_TID_Q EXCEPT ![U_TID_tail] = tid]
      /\ U_TID_tail' = (U_TID_tail + 1) % MAX_TASKS
  BY DEF PushTid
<1>4. PICK n : n = FreeCount - 1
  OBVIOUS
<1>5. n + 1 = FreeCount'
  BY <1>4 DEF RingInv, Ring
<1>6. /\ Ring(U_TID_Q', U_TID_head', (U_TID_tail + 1) % MAX_TASKS, n + 1)
      /\ \A x : x \in Ids(U_TID_Q', U_TID_head', n + 1)
                <=> x \in Ids(U_TID_Q, U_TID_head', n) \/ x = tid
  <2>1. Ring(U_TID_Q, U_TID_head', U_TID_tail, n) /\ tid \notin Ids(U_TID_Q, U_TID_head', n)
    BY <1>1, <1>2, <1>4
  <2>2. tid \in Tids /\ tid # TID_NULL
    BY <1>1
  <2> QED
    BY <1>3, <2>1, <2>2, PushId
<1>7. Ring(U_TID_Q, U_TID_head, U_TID_tail, FreeCount)'
  BY <1>3, <1>5, <1>6 DEF Ring
<1>8. FreeTids' = Ids(U_TID_Q', U_TID_head', FreeCount')
  BY DEF Ids, FreeTids, RingSlots, Slots
<1> QED
  BY <1>1, <1>4, <1>5, <1>6, <1>7, <1>8

LEMMA CreateFailsStep ==
  ASSUME IInv, NEW p \in Prios, CreateFails(p) PROVE IInv'
<1> DEFINE tid == U_TID_Q[U_TID_head]
           st == [state EXCEPT ![tid] = READY]
<1>1. /\ Booted /\ ~irq /\ g_num_active_tasks # MAX_TASKS /\ MemMayFail
      /\ U_TID_head' = (U_TID_head + 1) % MAX_TASKS
      /\ PopTid /\ PushTid(tid)
      /\ NewTask(tid, p, FALSE) /\ state' = st
      /\ UNCHANGED <<boot, is_kcd_init, gp_current_task, receiving, queue,
                     g_num_active_tasks, irq, rx>>
  BY DEF CreateFails, UserRuns, Running, PopTid
<1>2. BootInv' /\ Booted' /\ boot > Len(BootTasks)
  BY <1>1, SameBoot, BootLen DEF IInv, Booted
<1>3. FreeCount > 0 /\ FreeCount' = FreeCount
  <2>1. FreeCount = MAX_TASKS - g_num_active_tasks /\ g_num_active_tasks \in 1..MAX_TASKS
    BY <1>1, <1>2, BootLen, TcbFacts DEF FreeCount, Booted, IInv, TypeOK
  <2>2. FreeCount' = FreeCount
    BY <1>1 DEF FreeCount
  <2> QED
    BY <1>1, <2>1, <2>2, TcbFacts
<1>4. HeadAs(tid)
  BY <1>3, HeadId DEF IInv
<1>5. FreeTids' = FreeTids /\ Ring(U_TID_Q, U_TID_head, U_TID_tail, FreeCount)'
  BY <1>1, <1>3, <1>4, Returned DEF IInv
<1>6. RingInv' /\ (\A u : GetTcb(u)' = GetTcb(u))
  BY <1>1, <1>5, SameTcbs DEF IInv, RingInv
<1>7. /\ tid \in TCBs /\ tid # gp_current_task /\ tid \notin receiving
      /\ st \in [TCBs -> States]
      /\ st[tid] = READY /\ \A r \in TCBs \ {tid} : st[r] = state[r]
      /\ \A r \in TCBs : st[r] = RUNNING <=> r = gp_current_task
      /\ is_kcd_init => st[TID_KCD] = DORMANT
      /\ ~is_kcd_init => st[KcdTcb] = DORMANT
      /\ \A u \in Tids \ {tid} : st[GetTcb(u)] = state[GetTcb(u)]
  BY <1>2, <1>4, Created
<1>8. /\ prio' \in [TCBs -> 0..PRIO_NULL] /\ priv' \in [TCBs -> BOOLEAN]
      /\ capacity' \in [TCBs -> Nat] /\ mail' \in [TCBs -> Seq(Messages)]
      /\ prio'[tid] = p /\ \A r \in TCBs \ {tid} : prio'[r] = prio[r]
      /\ mail'[tid] = <<>>
      /\ \A r \in TCBs \ {tid} : mail'[r] = mail[r] /\ capacity'[r] = capacity[r]
  <2>1. p \in 0..PRIO_NULL /\ FALSE \in BOOLEAN
    BY PrioAssumption
  <2> QED
    BY <1>1, <1>7, <2>1, NewTaskFields DEF IInv
<1>9. tid \in FreeTids /\ tid \in Tids /\ GetTcb(tid) = tid
  BY <1>4 DEF HeadAs
<1> HIDE DEF st, tid
<1>10. StateInv'
  <2>1. \A u \in FreeTids : state'[GetTcb(u)] \in {DORMANT, READY}
    BY <1>1, <1>2, <1>7, <1>9, Settled
  <2>2. \A u \in Tids \ FreeTids : state'[GetTcb(u)] # DORMANT
    BY <1>1, <1>2, <1>7, <1>9, Settled
  <2>3. boot' = boot /\ is_kcd_init' = is_kcd_init /\ ~(boot <= Len(BootTasks))
    BY <1>1, <1>2, BootLen DEF Booted
  <2> QED
    BY <1>1, <1>5, <1>6, <1>7, <2>1, <2>2, <2>3 DEF StateInv
<1>11. QueueMatchesStates'
  <2>1. \A u \in Tids \ FreeTids :
          u \in queue.members <=> state'[GetTcb(u)] \in {READY, RUNNING}
    BY <1>1, <1>2, <1>7, <1>9, Settled
  <2> QED
    BY <1>1, <1>5, <1>6, <1>7, <2>1 DEF IInv, QueueMatchesStates
<1>12. StrictPriority'
  <2>1. tid \notin queue.members /\ queue.members \subseteq Tids
    BY <1>9 DEF IInv, QueueMatchesStates, TypeOK, QueueOK
  <2>2. \A u \in queue.members : TidPrio(prio)'[u] = TidPrio(prio)[u]
    <3> SUFFICES ASSUME NEW u \in queue.members
                 PROVE  TidPrio(prio)'[u] = TidPrio(prio)[u]
      OBVIOUS
    <3>1. GetTcb(u) \in TCBs \ {tid}
      BY <1>4, <2>1 DEF HeadAs
    <3>2. TidPrio(prio)[u] = prio[GetTcb(u)] /\ TidPrio(prio)'[u] = prio'[GetTcb(u)]
      BY <1>6, <2>1 DEF TidPrio
    <3> QED
      BY <1>8, <3>1, <3>2
  <2>3. IsTop(queue, TidPrio(prio), TidOf(gp_current_task))
    BY <1>1 DEF IInv, StrictPriority
  <2>4. IsTop(queue, TidPrio(prio)', TidOf(gp_current_task))
    BY <2>2, <2>3 DEF IsTop, Before
  <2> QED
    BY <1>1, <2>4 DEF StrictPriority, TidOf
<1>13. ReceiveInv'
  BY <1>1, <1>5, <1>6 DEF IInv, ReceiveInv, TidOf
<1>14. NoLostWakeup'
  <2>1. \A r \in receiving : r \in TCBs \ {tid}
    BY <1>7 DEF IInv, TypeOK
  <2>2. \A r \in receiving : /\ mail'[r] = mail[r] /\ capacity'[r] = capacity[r]
                             /\ state'[r] = state[r]
    BY <1>1, <1>7, <1>8, <2>1
  <2>3. \A r \in TCBs : state'[r] = BLK_MSG => r \in receiving
    BY <1>1, <1>7 DEF IInv, NoLostWakeup, READY, BLK_MSG
  <2> QED
    BY <1>1, <2>1, <2>2, <2>3 DEF IInv, NoLostWakeup
<1>15. TypeOK'
  <2>1. U_TID_Q' \in [Tids -> Tids] /\ U_TID_head' \in Tids
    BY <1>5 DEF Ring
  <2>2. U_TID_tail' \in Tids
    <3>1. U_TID_tail \in Tids /\ U_TID_tail' = (U_TID_tail + 1) % MAX_TASKS
      BY <1>1 DEF IInv, TypeOK, PushTid
    <3>2. U_TID_tail' = IF U_TID_tail + 1 = MAX_TASKS THEN 0 ELSE U_TID_tail + 1
      BY <3>1, NextSlot
    <3> QED
      BY <3>1, <3>2, TidAssumption DEF Tids
  <2> QED
    BY <1>1, <1>7, <1>8, <2>1, <2>2 DEF IInv, TypeOK
<1> QED
  BY <1>2, <1>6, <1>10, <1>11, <1>12, <1>13, <1>14, <1>15 DEF IInv

-----------------------------------------------------------------------------
\* What one iteration of the boot loop does with the ids: TID_KCD's first use
\* leaves the ring alone, every other entry takes the id at its head.
LEMMA BootIds ==
  ASSUME IInv, BootTask
  PROVE  /\ BootTid(boot) \in Tids /\ BootTcb(boot) \in TCBs \ {NullTcb}
         /\ FreeTids' = FreeTids \ {BootTid(boot)}
         /\ Ring(U_TID_Q, U_TID_head, U_TID_tail, FreeCount)' /\ U_TID_head' \in Tids
         /\ BootTid(boot) # TID_KCD => BootTid(boot) \in FreeTids
         /\ BootTid(boot) = TID_KCD => ~is_kcd_init
         /\ BootTid(boot) # TID_KCD => is_kcd_init' = is_kcd_init
         /\ BootTcb(boot) = IF BootTid(boot) = TID_KCD /\ is_kcd_init' THEN KcdTcb
                              ELSE BootTid(boot)
         /\ (boot' <= Len(BootTasks) /\ ~is_kcd_init') => BootTid(boot) # TID_KCD
         /\ g_num_active_tasks' = boot' /\ boot \in 1..Len(BootTasks) /\ boot' = boot + 1
<1>1. /\ boot <= Len(BootTasks) /\ boot' = boot + 1
      /\ is_kcd_init' = (is_kcd_init \/ BootTasks[boot].kcd)
      /\ IF BootTid(boot) = TID_KCD THEN UNCHANGED U_TID_head ELSE PopTid
      /\ g_num_active_tasks' = g_num_active_tasks + 1
      /\ UNCHANGED <<U_TID_Q, U_TID_tail>>
  BY DEF BootTask
<1>2. boot \in 1..Len(BootTasks) /\ g_num_active_tasks = boot /\ is_kcd_init \in BOOLEAN
  BY <1>1, BootLen DEF IInv, TypeOK, BootInv
<1>3. BootTasks[boot].kcd \in BOOLEAN
  <2>1. BootTasks[boot] \in [prio : 1..(PRIO_NULL - 1), priv : BOOLEAN, kcd : BOOLEAN]
    BY <1>2, BootEntry
  <2> QED
    BY <2>1
<1>4. BootTasks[boot].kcd => ~is_kcd_init
  <2> SUFFICES ASSUME BootTasks[boot].kcd, is_kcd_init PROVE FALSE
    BY <1>2
  <2>1. PICK i \in 1..Len(BootTasks) : i < boot /\ BootTasks[i].kcd
    BY DEF IInv, BootInv
  <2>2. i = boot
    BY <1>2, <2>1, BootAssumption
  <2> QED
    BY <1>2, <2>1, <2>2
<1>5. FreeCount = MAX_TASKS - boot - (IF is_kcd_init THEN 0 ELSE 1)
  BY <1>1, <1>2, BootLen, TcbFacts DEF FreeCount
<1>6. FreeCount' = MAX_TASKS - (boot + 1)
                    - (IF is_kcd_init' \/ boot + 1 > Len(BootTasks) THEN 0 ELSE 1)
  BY <1>1, <1>2 DEF FreeCount
<1>7. Ring(U_TID_Q, U_TID_head, U_TID_tail, FreeCount) /\ TID_KCD \notin FreeTids
  BY <1>1 DEF IInv, RingInv
<1>8. CASE BootTasks[boot].kcd \/ (boot = Len(BootTasks) /\ ~is_kcd_init)
  <2>1. BootTid(boot) = TID_KCD /\ UNCHANGED U_TID_head
    BY <1>1, <1>8 DEF BootTid
  <2>2. FreeCount' = FreeCount
    BY <1>1, <1>2, <1>3, <1>4, <1>5, <1>6, <1>8, BootLen, TcbFacts
  <2>3. FreeTids' = FreeTids
    BY <1>1, <2>1, <2>2 DEF FreeTids, RingSlots
  <2>4. Ring(U_TID_Q, U_TID_head, U_TID_tail, FreeCount)' /\ U_TID_head' \in Tids
    BY <1>1, <1>7, <2>1, <2>2 DEF Ring
  <2>5. /\ BootTcb(boot) = (IF is_kcd_init' THEN KcdTcb ELSE TID_KCD)
        /\ BootTcb(boot) \in TCBs \ {NullTcb}
        /\ BootTid(boot) \in Tids /\ ~is_kcd_init
        /\ (boot' <= Len(BootTasks) /\ ~is_kcd_init') => BootTid(boot) # TID_KCD
    <3>1. ~is_kcd_init
      BY <1>4, <1>8
    <3>2. BootTcb(boot) = IF BootTasks[boot].kcd THEN KcdTcb ELSE TID_KCD
      BY <2>1 DEF BootTcb
    <3>4. is_kcd_init' = BootTasks[boot].kcd
      BY <1>1, <1>3, <3>1
    <3>5. (boot' <= Len(BootTasks) /\ ~is_kcd_init') => FALSE
      BY <1>1, <1>2, <1>8, <3>4, BootLen
    <3> QED
      BY <2>1, <3>1, <3>2, <3>4, <3>5, TcbFacts DEF NullTcb, TID_NULL
  <2> QED
    BY <1>1, <1>2, <1>7, <2>1, <2>3, <2>4, <2>5
<1>9. CASE ~(BootTasks[boot].kcd \/ (boot = Len(BootTasks) /\ ~is_kcd_init))
  <2> DEFINE tid == U_TID_Q[U_TID_head]
  <2>1. BootTid(boot) = tid /\ BootTcb(boot) = tid
    BY <1>9 DEF BootTid, BootTcb
  <2>2. is_kcd_init' = is_kcd_init
    BY <1>1, <1>2, <1>3, <1>9
  <2>3. FreeCount > 0 /\ FreeCount' = FreeCount - 1
    BY <1>1, <1>2, <1>5, <1>6, <1>9, <2>2, BootLen, TcbFacts
  <2>4. HeadAs(tid)
    BY <2>3, HeadId DEF IInv
  <2>5. tid \in FreeTids /\ tid \in Tids /\ tid # TID_NULL /\ tid # TID_KCD
    BY <1>1, <2>4 DEF HeadAs
  <2>6. PopTid
    BY <1>1, <2>1, <2>5
  <2>7. FreeTids' = FreeTids \ {tid} /\ Ring(U_TID_Q, U_TID_head, U_TID_tail, FreeCount)'
    BY <1>1, <2>3, <2>4, <2>6, Popped
  <2>8. U_TID_head' \in Tids
    BY <2>4, <2>6 DEF HeadAs, PopTid
  <2>10. tid \in TCBs \ {NullTcb}
    BY <2>5, TcbFacts DEF NullTcb, TID_NULL
  <2> QED
    BY <1>1, <1>2, <2>1, <2>2, <2>5, <2>7, <2>8, <2>10
<1> QED
  BY <1>8, <1>9
LEMMA BootTaskStep == ASSUME IInv, BootTask PROVE IInv'
<1> DEFINE tid == BootTid(boot)
           p == BootTcb(boot)
<1>1. /\ boot <= Len(BootTasks) /\ boot' = boot + 1
      /\ is_kcd_init' = (is_kcd_init \/ BootTasks[boot].kcd)
      /\ NewTask(p, BootTasks[boot].prio, BootTasks[boot].priv)
      /\ state' = [state EXCEPT ![p] = READY]
      /\ queue' = Insert(queue, tid)
      /\ UNCHANGED <<gp_current_task, receiving, U_TID_Q, U_TID_tail, irq, rx>>
  BY DEF BootTask
<1>2. /\ tid \in Tids /\ p \in TCBs \ {NullTcb}
      /\ FreeTids' = FreeTids \ {tid}
      /\ Ring(U_TID_Q, U_TID_head, U_TID_tail, FreeCount)' /\ U_TID_head' \in Tids
      /\ tid # TID_KCD => tid \in FreeTids
      /\ tid = TID_KCD => ~is_kcd_init
      /\ tid # TID_KCD => is_kcd_init' = is_kcd_init
      /\ p = IF tid = TID_KCD /\ is_kcd_init' THEN KcdTcb ELSE tid
      /\ (boot' <= Len(BootTasks) /\ ~is_kcd_init') => tid # TID_KCD
      /\ g_num_active_tasks' = boot' /\ boot \in 1..Len(BootTasks)
  BY BootIds
<1> HIDE DEF tid, p
<1>3. /\ gp_current_task = NullTcb /\ receiving = {} /\ ~irq /\ ~Booted /\ ~Booted'
      /\ is_kcd_init \in BOOLEAN /\ TID_KCD \notin FreeTids
  BY <1>1, <1>2, BootLen DEF IInv, BootInv, TypeOK, RingInv, Booted
<1>4. BootInv'
  <2>1. is_kcd_init' <=> \E i \in 1..Len(BootTasks) : i < boot' /\ BootTasks[i].kcd
    <3>1. \A i \in 1..Len(BootTasks) : i < boot' <=> i < boot \/ i = boot
      BY <1>1, <1>2, BootLen
    <3>2. is_kcd_init <=> \E i \in 1..Len(BootTasks) : i < boot /\ BootTasks[i].kcd
      BY DEF IInv, BootInv
    <3>3. BootTasks[boot].kcd \in BOOLEAN
      BY <1>2, BootEntry
    <3> QED
      BY <1>1, <1>2, <1>3, <3>1, <3>2, <3>3
  <2> QED
    BY <1>1, <1>2, <1>3, <2>1 DEF BootInv
<1>5. RingInv'
  BY <1>2, <1>3 DEF RingInv
<1>6. /\ state' \in [TCBs -> States] /\ state'[p] = READY
      /\ \A r \in TCBs \ {p} : state'[r] = state[r]
  BY <1>1, <1>2 DEF IInv, TypeOK, States
<1>7. \A u \in Tids \ {tid} : GetTcb(u)' = GetTcb(u) /\ GetTcb(u) \in TCBs \ {p}
  <2> SUFFICES ASSUME NEW u \in Tids \ {tid}
               PROVE  GetTcb(u)' = GetTcb(u) /\ GetTcb(u) \in TCBs \ {p}
    OBVIOUS
  <2>1. CASE tid = TID_KCD
    BY <1>2, <2>1, TcbFacts DEF GetTcb
  <2>2. CASE tid # TID_KCD
    BY <1>2, <2>2, TcbFacts DEF GetTcb
  <2> QED
    BY <2>1, <2>2
<1>8. \A u : u = tid => GetTcb(u)' = p
  BY <1>2 DEF GetTcb
<1>9. \A u \in Tids \ {tid} : state'[GetTcb(u)'] = state[GetTcb(u)]
  BY <1>6, <1>7
<1>10. \A u : u = tid => state'[GetTcb(u)'] = READY
  BY <1>6, <1>8
<1>11. FreeTids \subseteq Tids /\ tid \notin FreeTids'
  <2>1. FreeTids \subseteq Tids
    BY DEF FreeTids, RingSlots, IInv, TypeOK
  <2> QED
    BY <1>2, <2>1
<1>12. StateInv'
  <2>1. is_kcd_init' => state'[TID_KCD] = DORMANT
    <3> SUFFICES ASSUME is_kcd_init' PROVE state'[TID_KCD] = DORMANT
      OBVIOUS
    <3>1. CASE tid = TID_KCD
      BY <1>1, <1>2, <1>6, <3>1, TcbFacts DEF IInv, StateInv
    <3>2. CASE tid # TID_KCD
      BY <1>2, <1>6, <3>2, TcbFacts DEF IInv, StateInv
    <3> QED
      BY <3>1, <3>2
  <2>2. ~is_kcd_init' => state'[KcdTcb] = DORMANT
    <3> SUFFICES ASSUME ~is_kcd_init' PROVE state'[KcdTcb] = DORMANT
      OBVIOUS
    <3>1. ~is_kcd_init /\ p # KcdTcb
      BY <1>1, <1>2, <1>3, TcbFacts
    <3> QED
      BY <1>6, <3>1, TcbFacts DEF IInv, StateInv
  <2>3. /\ \A u \in FreeTids' : state'[GetTcb(u)'] \in {DORMANT, READY}
        /\ \A u \in FreeTids' : state'[GetTcb(u)'] = READY => MemMayFail
    BY <1>2, <1>9, <1>11 DEF IInv, StateInv
  <2>4. ~is_kcd_init' /\ boot' <= Len(BootTasks) => state'[TID_KCD] = DORMANT
    <3> SUFFICES ASSUME ~is_kcd_init', boot' <= Len(BootTasks) PROVE state'[TID_KCD] = DORMANT
      OBVIOUS
    <3>1. tid # TID_KCD /\ ~is_kcd_init
      BY <1>2
    <3> QED
      BY <1>1, <1>2, <1>6, <3>1, TcbFacts DEF IInv, StateInv
  <2>5. \A u \in Tids \ FreeTids' :
          \/ state'[GetTcb(u)'] # DORMANT
          \/ u = TID_KCD /\ ~is_kcd_init' /\ boot' <= Len(BootTasks)
    <3> SUFFICES ASSUME NEW u \in Tids \ FreeTids', state'[GetTcb(u)'] = DORMANT
                 PROVE  u = TID_KCD /\ ~is_kcd_init' /\ boot' <= Len(BootTasks)
      OBVIOUS
    <3>1. u # tid
      BY <1>10 DEF READY, DORMANT
    <3>2. u \in Tids \ FreeTids /\ state[GetTcb(u)] = DORMANT
      BY <1>2, <1>9, <3>1
    <3>3. u = TID_KCD /\ ~is_kcd_init
      BY <3>2 DEF IInv, StateInv
    <3>4. tid # TID_KCD /\ ~is_kcd_init'
      BY <1>2, <3>1, <3>3
    <3>5. boot' <= Len(BootTasks)
      <4>1. boot = Len(BootTasks) => tid = TID_KCD
        BY <3>3 DEF tid, BootTid
      <4> QED
        BY <1>1, <1>2, <3>4, <4>1, BootLen
    <3> QED
      BY <3>3, <3>4, <3>5
  <2> QED
    BY <2>1, <2>2, <2>3, <2>4, <2>5 DEF StateInv
<1>13. QueueMatchesStates'
  <2>1. queue'.members = queue.members \cup {tid}
    BY <1>1 DEF Insert
  <2>2. \A u \in Tids \ FreeTids' : u \in queue'.members <=> state'[GetTcb(u)'] \in {READY, RUNNING}
    BY <1>2, <1>9, <1>10, <2>1 DEF IInv, QueueMatchesStates
  <2>3. \A u \in FreeTids' : u \notin queue'.members
    BY <1>2, <2>1 DEF IInv, QueueMatchesStates
  <2>4. \A r \in TCBs : state'[r] = RUNNING <=> r = gp_current_task'
    BY <1>1, <1>2, <1>3, <1>6 DEF IInv, QueueMatchesStates, READY, RUNNING
  <2> QED
    BY <2>2, <2>3, <2>4 DEF QueueMatchesStates
<1>14. /\ prio' \in [TCBs -> 0..PRIO_NULL] /\ priv' \in [TCBs -> BOOLEAN]
       /\ capacity' \in [TCBs -> Nat] /\ mail' \in [TCBs -> Seq(Messages)]
  <2>1. BootTasks[boot].prio \in 0..PRIO_NULL /\ BootTasks[boot].priv \in BOOLEAN
    <3>1. BootTasks[boot] \in [prio : 1..(PRIO_NULL - 1), priv : BOOLEAN, kcd : BOOLEAN]
      BY <1>2, BootEntry
    <3>2. BootTasks[boot].prio \in 1..(PRIO_NULL - 1) /\ BootTasks[boot].priv \in BOOLEAN
      BY <3>1
    <3> QED
      BY <3>2, PrioAssumption
  <2> QED
    BY <1>1, <1>2, <2>1, NewTaskFields DEF IInv
<1>15. ReceiveInv' /\ StrictPriority'
  BY <1>1, <1>3 DEF ReceiveInv, StrictPriority
<1>16. NoLostWakeup'
  <2>1. \A r \in TCBs : state'[r] # BLK_MSG
    BY <1>3, <1>6 DEF IInv, NoLostWakeup, READY, BLK_MSG
  <2> QED
    BY <1>1, <1>3, <2>1 DEF NoLostWakeup
<1>17. TypeOK'
  <2>1. QueueOK(queue', Tids)
    <3>1. QueueOK(Insert(queue, tid), Tids)
      BY <1>2, InsertOK DEF IInv, TypeOK
    <3> QED
      BY <1>1, <3>1
  <2>2. is_kcd_init' \in BOOLEAN
    BY <1>1
  <2>3. boot' \in 1..(Len(BootTasks) + 2) /\ g_num_active_tasks' \in 1..MAX_TASKS
    BY <1>1, <1>2, BootLen, TcbFacts
  <2> QED
    BY <1>1, <1>2, <1>6, <1>14, <2>1, <2>2, <2>3 DEF IInv, TypeOK
<1> QED
  BY <1>4, <1>5, <1>12, <1>13, <1>15, <1>16, <1>17 DEF IInv
-----------------------------------------------------------------------------
(***************************************************************************)
(* The initial state.                                                      *)
(***************************************************************************)
\* The ring k_tsk_init builds holds every id but the null task's and the KCD's.
LEMMA InitRing ==
  ASSUME Init
  PROVE  FreeTids = Tids \ {TID_NULL, TID_KCD} /\ RingInv
<1>1. MAX_TASKS \in Nat /\ MAX_TASKS > 1 /\ TID_KCD \in 1..(MAX_TASKS - 1)
  BY TidAssumption
<1>2. /\ boot = 1 /\ ~is_kcd_init /\ g_num_active_tasks = 1
      /\ U_TID_head = 1 /\ U_TID_tail = MAX_TASKS - 1
  BY DEF Init
<1>3. U_TID_Q = [s \in Tids |-> IF s \in {0, MAX_TASKS - 1} THEN 0
                               ELSE IF s < TID_KCD THEN s ELSE s + 1]
  BY DEF Init
<1>4. FreeCount = MAX_TASKS - 2
  BY <1>1, <1>2, BootLen DEF FreeCount
<1>5. Slots(U_TID_head, FreeCount) = 1..(MAX_TASKS - 2)
  BY <1>1, <1>2, <1>4 DEF Slots, Tids
<1>6. \A s \in 1..(MAX_TASKS - 2) : s \in Tids /\ U_TID_Q[s] = IF s < TID_KCD THEN s ELSE s + 1
  BY <1>1, <1>3 DEF Tids
<1>7. U_TID_Q \in [Tids -> Tids]
  <2>1. \A s \in Tids : (IF s \in {0, MAX_TASKS - 1} THEN 0
                         ELSE IF s < TID_KCD THEN s ELSE s + 1) \in Tids
    BY <1>1 DEF Tids
  <2> QED
    BY <1>3, <2>1
<1>8. \A r, s \in Slots(U_TID_head, FreeCount) : U_TID_Q[r] = U_TID_Q[s] => r = s
  BY <1>1, <1>5, <1>6
<1>9. FreeTids = Tids \ {TID_NULL, TID_KCD}
  <2>1. ASSUME NEW t \in FreeTids PROVE t \in Tids \ {TID_NULL, TID_KCD}
    <3>1. PICK s \in 1..(MAX_TASKS - 2) : t = U_TID_Q[s]
      BY <1>5, FreeTidsIds DEF Ids
    <3> QED
      BY <1>1, <1>6, <3>1 DEF Tids, TID_NULL
  <2>2. ASSUME NEW t \in Tids \ {TID_NULL, TID_KCD} PROVE t \in FreeTids
    <3>1. PICK s : s = IF t < TID_KCD THEN t ELSE t - 1
      OBVIOUS
    <3>2. s \in 1..(MAX_TASKS - 2) /\ t = IF s < TID_KCD THEN s ELSE s + 1
      BY <1>1, <3>1 DEF Tids, TID_NULL
    <3> QED
      BY <1>5, <1>6, <3>2, FreeTidsIds DEF Ids
  <2> QED
    BY <2>1, <2>2
<1>10. Cardinality(FreeTids) = FreeCount
  <2>1. IsFiniteSet(Tids \ {TID_NULL}) /\ Cardinality(Tids \ {TID_NULL}) = MAX_TASKS - 1
    BY TidsFinite, TcbFacts, FS_RemoveElement
  <2>2. TID_KCD \in Tids \ {TID_NULL}
    BY TcbFacts
  <2>3. Cardinality((Tids \ {TID_NULL}) \ {TID_KCD}) = (MAX_TASKS - 1) - 1
    BY <2>1, <2>2, FS_RemoveElement
  <2>4. FreeTids = (Tids \ {TID_NULL}) \ {TID_KCD}
    BY <1>9
  <2> QED
    BY <1>1, <1>4, <2>3, <2>4
<1>11. Ring(U_TID_Q, U_TID_head, U_TID_tail, FreeCount)
  <2>1. U_TID_head \in Tids /\ FreeCount \in 0..(MAX_TASKS - 1)
    BY <1>1, <1>2, <1>4 DEF Tids
  <2>2. U_TID_tail = SlotAfter(U_TID_head, FreeCount)
    BY <1>1, <1>2, <1>4 DEF SlotAfter
  <2>3. TID_NULL \notin Ids(U_TID_Q, U_TID_head, FreeCount)
    BY <1>9, FreeTidsIds
  <2>4. Cardinality(Ids(U_TID_Q, U_TID_head, FreeCount)) = FreeCount
    BY <1>10, FreeTidsIds
  <2> QED
    BY <1>7, <1>8, <2>1, <2>2, <2>3, <2>4 DEF Ring
<1> QED
  BY <1>9, <1>11 DEF RingInv

LEMMA InitStep == ASSUME Init PROVE IInv
<1>1. /\ boot = 1 /\ is_kcd_init = FALSE /\ gp_current_task = NullTcb
      /\ state = [p \in TCBs |-> IF p = NullTcb THEN RUNNING ELSE DORMANT]
      /\ receiving = {} /\ irq = FALSE /\ rx = 0 /\ g_num_active_tasks = 1
      /\ queue = Insert(Empty(Tids), TID_NULL)
  BY DEF Init
<1>2. FreeTids = Tids \ {TID_NULL, TID_KCD} /\ RingInv
  BY InitRing
<1>3. \A p \in TCBs : state[p] = IF p = NullTcb THEN RUNNING ELSE DORMANT
  BY <1>1
<1>4. \A t \in Tids : GetTcb(t) = t
  BY <1>1 DEF GetTcb
<1>5. TID_NULL = NullTcb
  BY DEF TID_NULL, NullTcb
<1>6. TypeOK
  <2>1. QueueOK(queue, Tids)
    <3>1. QueueOK(Empty(Tids), Tids)
      BY EmptyOK
    <3>2. QueueOK(Insert(Empty(Tids), TID_NULL), Tids)
      BY <3>1, TcbFacts, InsertOK
    <3> QED
      BY <1>1, <3>2
  <2>2. state \in [TCBs -> States] /\ gp_current_task \in TCBs
    BY <1>1, TcbFacts DEF States
  <2>3. prio \in [TCBs -> 0..PRIO_NULL]
    BY PrioAssumption DEF Init
  <2>4. /\ priv \in [TCBs -> BOOLEAN] /\ capacity \in [TCBs -> Nat]
        /\ mail \in [TCBs -> Seq(Messages)]
    BY DEF Init
  <2>5. U_TID_Q \in [Tids -> Tids] /\ U_TID_head \in Tids
    BY <1>2 DEF RingInv, Ring
  <2>6. U_TID_tail \in Tids
    BY TidAssumption DEF Init, Tids
  <2>7. boot \in 1..(Len(BootTasks) + 2) /\ g_num_active_tasks \in 1..MAX_TASKS /\ rx \in 0..RxMax
    BY <1>1, BootLen, TcbFacts, SizeAssumption
  <2> QED
    BY <1>1, <2>1, <2>2, <2>3, <2>4, <2>5, <2>6, <2>7 DEF TypeOK
<1>7. BootInv
  <2>1. \A i \in 1..Len(BootTasks) : ~(i < boot)
    BY <1>1, BootLen
  <2> QED
    BY <1>1, <2>1 DEF BootInv
<1>8. StateInv
  <2>1. state[TID_KCD] = DORMANT /\ state[KcdTcb] = DORMANT /\ state[TID_NULL] # DORMANT
    BY <1>3, <1>5, TcbFacts DEF RUNNING, DORMANT
  <2>2. \A t \in FreeTids : state[GetTcb(t)] = DORMANT
    BY <1>2, <1>3, <1>4, <1>5, TcbFacts
  <2>3. \A t \in Tids \ FreeTids : t = TID_NULL \/ t = TID_KCD
    BY <1>2
  <2>4. boot <= Len(BootTasks) /\ ~is_kcd_init /\ GetTcb(TID_NULL) = TID_NULL
    BY <1>1, <1>4, BootLen, TcbFacts
  <2> QED
    BY <2>1, <2>2, <2>3, <2>4 DEF StateInv, DORMANT, READY
<1>9. QueueMatchesStates
  <2>1. queue.members = {TID_NULL}
    BY <1>1 DEF Insert, Empty
  <2> QED
    BY <1>1, <1>2, <1>3, <1>4, <1>5, <2>1, TcbFacts
       DEF QueueMatchesStates, RUNNING, READY, DORMANT
<1>10. ReceiveInv /\ NoLostWakeup
  BY <1>1, <1>3 DEF ReceiveInv, NoLostWakeup, RUNNING, DORMANT, BLK_MSG
<1>11. StrictPriority
  BY <1>1, BootLen DEF StrictPriority, Booted
<1> QED
  BY <1>2, <1>6, <1>7, <1>8, <1>9, <1>10, <1>11 DEF IInv

-----------------------------------------------------------------------------
(***************************************************************************)
(* The theorems.                                                           *)
(***************************************************************************)
LEMMA NextStep == ASSUME PhantomFree, IInv, Next PROVE IInv'
<1>1. CASE BootTask
  BY <1>1, BootTaskStep
<1>2. CASE Start
  BY <1>2, StartStep
<1>3. CASE Yield
  BY <1>3, YieldStep
<1>4. CASE \E p \in Prios : Create(p)
  BY <1>4, CreateStep
<1>5. CASE \E p \in Prios : CreateFails(p)
  BY <1>5, CreateFailsStep
<1>6. CASE Exit
  BY <1>6, ExitStep
<1>7. CASE \E t \in Tids, p \in NewPrios : SetPrio(t, p)
  BY <1>7, SetPrioStep
<1>8. CASE \E n \in MbxSizes \cup {KCD_MBX_SIZE} : MbxCreate(n)
  BY <1>8, MbxCreateStep
<1>9. CASE \E t \in Tids, n \in MsgLens : Send(t, n)
  BY <1>9, SendStep
<1>10. CASE Recv
  BY <1>10, RecvStep
<1>11. CASE RecvBlocks
  BY <1>11, RecvBlocksStep
<1>12. CASE RecvResumes
  BY <1>12, RecvResumesStep
<1>13. CASE UartRx
  BY <1>13, UartRxStep
<1>14. CASE IrqEnter
  BY <1>14, IrqEnterStep
<1>15. CASE IrqChar
  BY <1>15, IrqCharStep
<1>16. CASE IrqExit
  BY <1>16, IrqExitStep
<1> QED
  BY <1>1, <1>2, <1>3, <1>4, <1>5, <1>6, <1>7, <1>8, <1>9, <1>10, <1>11, <1>12,
     <1>13, <1>14, <1>15, <1>16 DEF Next

LEMMA StutterStep == ASSUME IInv, UNCHANGED vars PROVE IInv'
<1>1. UNCHANGED <<boot, is_kcd_init, gp_current_task, state, prio, priv, mbx,
                  queue, ring, irq, rx>>
  BY DEF vars
<1>2. FreeTids' = FreeTids /\ RingInv' /\ StateInv' /\ QueueMatchesStates' /\ StrictPriority'
  BY <1>1, Unscheduled
<1>3. TypeOK'
  BY <1>1 DEF IInv, TypeOK, mbx, ring
<1>4. BootInv'
  BY <1>1 DEF IInv, BootInv, mbx, ring
<1>5. ReceiveInv'
  BY <1>1, <1>2, SameTcbs DEF IInv, ReceiveInv, TidOf, mbx
<1>6. NoLostWakeup'
  BY <1>1 DEF IInv, NoLostWakeup, mbx
<1> QED
  BY <1>2, <1>3, <1>4, <1>5, <1>6 DEF IInv

\* The inductive invariant holds in every reachable state, for every number of
\* tasks, boot table, set of priorities and sizes.
THEOREM Invariance == ASSUME PhantomFree PROVE Spec => []IInv
<1>1. Init => IInv
  BY InitStep
<1>2. IInv /\ [Next]_vars => IInv'
  BY NextStep, StutterStep
<1> QED
  BY <1>1, <1>2, PTL DEF Spec
\* Every variable keeps its type (TypeOK).
THEOREM TypeCorrect == ASSUME PhantomFree PROVE Spec => []TypeOK
<1>1. IInv => TypeOK
  BY DEF IInv
<1> QED
  BY <1>1, Invariance, PTL

\* The task that executes its own code is the one the scheduling policy names:
\* strict priority, first come first served among equals (k_task.c:163-166).
THEOREM SchedulingPolicy == ASSUME PhantomFree PROVE Spec => []StrictPriority
<1>1. IInv => StrictPriority
  BY DEF IInv
<1> QED
  BY <1>1, Invariance, PTL

\* The scheduler's queue holds exactly the READY and the RUNNING tasks.
THEOREM QueueConsistent == ASSUME PhantomFree PROVE Spec => []QueueMatchesStates
<1>1. IInv => QueueMatchesStates
  BY DEF IInv
<1> QED
  BY <1>1, Invariance, PTL

\* k_recv_msg's unchecked resumption always finds a message, and no task sleeps
\* on a mailbox that has one (k_msg.c:84-91, 102-110).
THEOREM WakeupCorrect == ASSUME PhantomFree PROVE Spec => []NoLostWakeup
<1>1. IInv => NoLostWakeup
  BY DEF IInv
<1> QED
  BY <1>1, Invariance, PTL

\* The ring of task ids is a pool: no duplicates, nothing lost, nothing that a
\* live task still uses.
THEOREM TidPoolCorrect == ASSUME PhantomFree PROVE Spec => []TidPool
<1>1. IInv => TidPool
  <2> SUFFICES ASSUME IInv PROVE TidPool
    OBVIOUS
  <2>1. Cardinality(FreeTids) = FreeCount /\ TID_NULL \notin FreeTids
    BY FreeTidsIds DEF IInv, RingInv, Ring
  <2>2. \A t \in FreeTids : state[GetTcb(t)] \in {DORMANT, READY}
    BY DEF IInv, StateInv
  <2>3. \A t \in Tids \ FreeTids : Booted => state[GetTcb(t)] # DORMANT
    BY BootLen DEF IInv, StateInv, Booted
  <2> QED
    BY <2>1, <2>2, <2>3 DEF TidPool
<1> QED
  BY <1>1, Invariance, PTL

\* When no creation fails, the TCBs in use are those of the ids in use, one each.
LEMMA UsedTcbs ==
  ASSUME IInv, ~MemMayFail
  PROVE  LET InUse == {t \in Tids \ FreeTids : state[GetTcb(t)] # DORMANT}
         IN Cardinality({p \in TCBs : state[p] # DORMANT}) = Cardinality(InUse)
<1> DEFINE InUse == {t \in Tids \ FreeTids : state[GetTcb(t)] # DORMANT}
           Busy == {p \in TCBs : state[p] # DORMANT}
           f == [t \in InUse |-> GetTcb(t)]
<1>1. IsFiniteSet(InUse)
  BY TidsFinite, FS_Subset
<1>2. f \in [InUse -> Busy]
  BY TcbFacts
<1>3. \A t, u \in InUse : f[t] = f[u] => t = u
  BY TcbFacts
<1>4. ASSUME NEW p \in Busy PROVE \E t \in InUse : f[t] = p
  <2> DEFINE t == TidOf(p)
  <2>1. GetTcb(t) = p
    BY TidAssumption DEF IInv, StateInv, GetTcb, TidOf, TCBs, Tids, KcdTcb
  <2>2. t \in Tids
    BY TcbFacts
  <2>3. t \notin FreeTids
    BY <2>1, <2>2 DEF IInv, StateInv
  <2>4. t \in InUse
    BY <2>1, <2>2, <2>3
  <2>5. f[t] = p
    BY <2>1, <2>4
  <2> QED BY <2>4, <2>5
<1>5. f \in Bijection(InUse, Busy)
  <2> HIDE DEF f, InUse, Busy
  <2> QED BY <1>2, <1>3, <1>4, Fun_IsBij
<1>6. ExistsBijection(InUse, Busy)
  BY <1>5 DEF ExistsBijection
<1> HIDE DEF f, InUse, Busy
<1>7. Cardinality(Busy) = Cardinality(InUse)
  BY <1>1, <1>6, FS_Bijection
<1> QED BY <1>7 DEF InUse, Busy

\* While no creation fails for lack of memory, g_num_active_tasks counts the
\* non-dormant tasks (k_task.c:73), during the boot too.
THEOREM ActiveCounted == ASSUME ~MemMayFail PROVE Spec => []ActiveIsNonDormant
<1>1. IInv => ActiveIsNonDormant
  <2> SUFFICES ASSUME IInv PROVE ActiveIsNonDormant
    OBVIOUS
  <2> DEFINE InUse == {t \in Tids \ FreeTids : state[GetTcb(t)] # DORMANT}
  <2>1. Cardinality({p \in TCBs : state[p] # DORMANT}) = Cardinality(InUse)
    BY UsedTcbs
  <2>2. /\ FreeTids \subseteq Tids /\ IsFiniteSet(FreeTids) /\ Cardinality(FreeTids) = FreeCount
        /\ FreeCount \in Nat
    <3>1. FreeTids \subseteq Tids
      BY DEF IInv, TypeOK, FreeTids, RingSlots
    <3> QED BY <3>1, TidsFinite, FS_Subset, FreeTidsIds DEF IInv, RingInv, Ring
  <2>3. IsFiniteSet(Tids \ FreeTids) /\ Cardinality(Tids \ FreeTids) = MAX_TASKS - FreeCount
    <3>1. Tids \cap FreeTids = FreeTids
      BY <2>2
    <3> QED BY <2>2, <3>1, TidsFinite, FS_Difference
  <2>4. g_num_active_tasks \in Nat /\ MAX_TASKS \in Nat
    BY TcbFacts DEF IInv, TypeOK
  <2>5. CASE is_kcd_init \/ boot > Len(BootTasks)
    <3>1. FreeCount = MAX_TASKS - g_num_active_tasks
      BY <2>4, <2>5 DEF FreeCount
    <3>2. InUse = Tids \ FreeTids
      BY <2>5, BootLen DEF IInv, StateInv, TypeOK
    <3> QED BY <2>1, <2>3, <2>4, <3>1, <3>2 DEF ActiveIsNonDormant
  <2>6. CASE ~(is_kcd_init \/ boot > Len(BootTasks))
    <3>1. FreeCount = MAX_TASKS - g_num_active_tasks - 1
      BY <2>4, <2>6 DEF FreeCount
    <3>2. boot <= Len(BootTasks) /\ ~is_kcd_init
      BY <2>6, BootLen DEF IInv, TypeOK
    <3>3. TID_KCD \in Tids \ FreeTids /\ state[GetTcb(TID_KCD)] = DORMANT
      BY <3>2, TcbFacts DEF IInv, RingInv, StateInv, GetTcb
    <3>4. InUse = (Tids \ FreeTids) \ {TID_KCD}
      BY <3>2, <3>3 DEF IInv, StateInv
    <3>5. Cardinality(InUse) = (MAX_TASKS - FreeCount) - 1
      BY <2>3, <3>3, <3>4, FS_RemoveElement
    <3> QED BY <2>1, <2>4, <3>1, <3>5 DEF ActiveIsNonDormant
  <2> QED BY <2>5, <2>6
<1>2. PhantomFree
  BY DEF PhantomFree
<1> QED
  BY <1>1, <1>2, Invariance, PTL

\* Where tasks name only tasks in k_tsk_set_prio, common.h:72 holds of the task
\* states too: no live READY task is more urgent than the running one.
THEOREM Urgency == ASSUME PhantomFree PROVE Spec => []NoReadyMoreUrgent
<1>1. IInv => NoReadyMoreUrgent
  <2> SUFFICES ASSUME IInv, Booted, ~irq, NEW t \in Tids \ FreeTids,
                      state[GetTcb(t)] = READY
               PROVE  prio[gp_current_task] <= prio[GetTcb(t)]
    BY DEF NoReadyMoreUrgent
  <2>1. IsTop(queue, TidPrio(prio), TidOf(gp_current_task))
    BY DEF IInv, StrictPriority
  <2>2. /\ TidOf(gp_current_task) \in Tids /\ GetTcb(TidOf(gp_current_task)) = gp_current_task
        /\ gp_current_task \in TCBs
    BY Current DEF IInv
  <2>3. t \in queue.members
    BY DEF IInv, QueueMatchesStates
  <2>4. /\ TidPrio(prio)[t] = prio[GetTcb(t)]
        /\ TidPrio(prio)[TidOf(gp_current_task)] = prio[gp_current_task]
    BY <2>2 DEF TidPrio
  <2>5. prio[gp_current_task] \in Int /\ prio[GetTcb(t)] \in Int
    BY <2>2, TcbFacts, PrioAssumption DEF IInv, TypeOK
  <2>6. CASE t = TidOf(gp_current_task)
    BY <2>4, <2>5, <2>6
  <2>7. CASE t # TidOf(gp_current_task)
    BY <2>1, <2>3, <2>4, <2>5, <2>7 DEF IsTop, Before
  <2> QED
    BY <2>6, <2>7
<1> QED
  BY <1>1, Invariance, PTL

\* Nobody but the running task itself is ever taken out of the scheduler's
\* queue: sched_remove never meets a stale heap_idx (prio_heap.c:111-126).
THEOREM RemovalsAreOwn == ASSUME PhantomFree PROVE Spec => OnlySelfLeaves
<1>1. ASSUME IInv, [Next]_vars
      PROVE  \A t \in queue.members \ queue'.members : t = TidOf(gp_current_task)
  <2> USE <1>1
  <2> DEFINE me == TidOf(gp_current_task)
  <2>1. CASE BootTask
    BY <2>1, InsertMembers DEF BootTask
  <2>2. CASE Start \/ Yield
    BY <2>2, InsertMembers DEF Start, Yield, DoYield
  <2>3. CASE \E p \in Prios : Create(p) \/ CreateFails(p)
    <3>1. queue' = queue \/ \E t \in Tids : queue' = Insert(queue, t)
      <4>1. U_TID_Q[U_TID_head] \in Tids
        BY DEF IInv, TypeOK
      <4> QED
        BY <2>3, <4>1 DEF Create, CreateFails
    <3> QED
      BY <3>1 DEF Insert
  <2>4. CASE Exit \/ RecvBlocks
    <3>1. queue' = Remove(queue, me)
      BY <2>4 DEF Exit, RecvBlocks
    <3>2. queue'.members = queue.members \ {me}
      BY <3>1, RemoveMembers
    <3> QED
      BY <3>2
  <2>5. CASE \E t \in Tids, p \in NewPrios : SetPrio(t, p)
    <3> PICK t \in Tids, p \in NewPrios : SetPrio(t, p)
      BY <2>5
    <3>1. /\ state[GetTcb(t)] # DORMANT
          /\ CheckedTids => t \notin FreeTids
          /\ IF state[GetTcb(t)] = BLK_MSG THEN UNCHANGED queue
             ELSE \E u \in Removed(t) : queue' = Insert(Remove(queue, u), t)
      BY DEF SetPrio
    <3>2. t \notin FreeTids
      BY <3>1 DEF IInv, StateInv, PhantomFree
    <3>3. CASE state[GetTcb(t)] = BLK_MSG
      BY <3>1, <3>3
    <3>4. CASE state[GetTcb(t)] # BLK_MSG
      <4>1. GetTcb(t) \in TCBs
        BY TcbFacts
      <4>2. t \in queue.members
        <5>1. state[GetTcb(t)] \in {READY, RUNNING}
          BY <3>1, <3>4, <4>1 DEF IInv, TypeOK, States
        <5> QED
          BY <3>2, <5>1 DEF IInv, QueueMatchesStates
      <4>3. queue' = Insert(Remove(queue, t), t)
        BY <3>1, <3>4, <4>2 DEF Removed
      <4> QED
        BY <4>3 DEF Insert, Remove
    <3> QED
      BY <3>3, <3>4
  <2>6. CASE \E t \in Tids, n \in MsgLens : Send(t, n)
    <3> PICK t \in Tids, n \in MsgLens : Send(t, n)
      BY <2>6
    <3>1. queue' = Insert(Insert(queue, t), me) \/ queue' = queue
      BY DEF Send, DoYield
    <3> QED
      BY <3>1 DEF Insert
  <2>7. CASE IrqChar
    <3>1. queue' = Insert(queue, TID_KCD) \/ queue' = queue
      BY <2>7 DEF IrqChar
    <3> QED
      BY <3>1, InsertMembers
  <2>8. CASE (\E n \in MbxSizes \cup {KCD_MBX_SIZE} : MbxCreate(n)) \/ Recv \/ RecvResumes
    BY <2>8 DEF MbxCreate, Recv, RecvResumes
  <2>9. CASE UartRx \/ IrqEnter \/ IrqExit \/ UNCHANGED vars
    BY <2>9 DEF UartRx, IrqEnter, IrqExit, vars
  <2> QED
    BY <1>1, <2>1, <2>2, <2>3, <2>4, <2>5, <2>6, <2>7, <2>8, <2>9 DEF Next
<1> QED
  BY <1>1, Invariance, PTL DEF Spec, OnlySelfLeaves
\* An insertion of an id that is not queued keeps every queued task's place.
LEMMA InsertKeepsPlace ==
  ASSUME NEW q, QueueOK(q, Tids), NEW x \in Tids, x \notin q.members,
         NEW t \in q.members, NEW u \in q.members, t \in q.ahead[u]
  PROVE  t \in Insert(q, x).ahead[u]
<1>1. u \in Tids /\ u # x /\ t # x
  BY DEF QueueOK
<1>2. Insert(q, x).ahead[u] = IF u = x THEN q.members \ {x} ELSE q.ahead[u] \ {x}
  BY <1>1 DEF QueueOK, Insert
<1> QED
  BY <1>1, <1>2

\* Putting a queued task back in takes it out first.
LEMMA InsertAgain ==
  ASSUME NEW T, NEW q, QueueOK(q, T), NEW t \in T
  PROVE  Insert(q, t) = Insert(Remove(q, t), t)
<1> DEFINE r == Remove(q, t)
<1>1. DOMAIN q.ahead = T
  BY DEF QueueOK
<1>2. r.members = q.members \ {t} /\ DOMAIN r.ahead = T
  BY <1>1 DEF Remove
<1>3. \A u \in T : r.ahead[u] = IF u = t THEN {} ELSE q.ahead[u] \ {t}
  BY <1>1 DEF Remove
<1> HIDE DEF r
<1>4. Insert(q, t) = [members |-> q.members \cup {t},
                      ahead   |-> [u \in T |-> IF u = t THEN q.members \ {t} ELSE q.ahead[u] \ {t}]]
  BY <1>1 DEF Insert
<1>5. Insert(r, t) = [members |-> r.members \cup {t},
                      ahead   |-> [u \in T |-> IF u = t THEN r.members \ {t} ELSE r.ahead[u] \ {t}]]
  BY <1>2 DEF Insert
<1>6. r.members \cup {t} = q.members \cup {t} /\ r.members \ {t} = q.members \ {t}
  BY <1>2
<1>7. \A u \in T : (IF u = t THEN r.members \ {t} ELSE r.ahead[u] \ {t})
                     = (IF u = t THEN q.members \ {t} ELSE q.ahead[u] \ {t})
  BY <1>3, <1>6
<1> QED
  BY <1>4, <1>5, <1>6, <1>7 DEF r

\* The id a boot entry gets is not queued yet.
LEMMA BootTidOut ==
  ASSUME IInv, BootTask PROVE BootTid(boot) \in Tids \ queue.members
<1>1. /\ BootTid(boot) \in Tids
      /\ BootTid(boot) # TID_KCD => BootTid(boot) \in FreeTids
      /\ BootTid(boot) = TID_KCD => ~is_kcd_init
  BY BootIds
<1>2. CASE BootTid(boot) = TID_KCD
  <2>1. boot <= Len(BootTasks) /\ ~is_kcd_init
    BY <1>1, <1>2 DEF BootTask
  <2>2. state[GetTcb(TID_KCD)] = DORMANT /\ TID_KCD \in Tids \ FreeTids
    BY <2>1, TcbFacts DEF IInv, StateInv, RingInv, GetTcb
  <2> QED
    BY <1>2, <2>2 DEF IInv, QueueMatchesStates, DORMANT, READY, RUNNING
<1>3. CASE BootTid(boot) # TID_KCD
  BY <1>1, <1>3 DEF IInv, QueueMatchesStates
<1> QED
  BY <1>2, <1>3

\* Nor is the id a new task gets.
LEMMA NewTidOut ==
  ASSUME IInv, Booted, g_num_active_tasks # MAX_TASKS
  PROVE  HeadAs(U_TID_Q[U_TID_head]) /\ U_TID_Q[U_TID_head] \in Tids \ queue.members
<1> g_num_active_tasks \in 1..MAX_TASKS
  BY DEF IInv, TypeOK
<1>1. FreeCount > 0
  BY BootLen, TcbFacts DEF FreeCount, Booted
<1>2. HeadAs(U_TID_Q[U_TID_head])
  BY <1>1, HeadId DEF IInv
<1> QED
  BY <1>2 DEF HeadAs, IInv, QueueMatchesStates

\* A task that is blocked on a message is not queued.
LEMMA BlockedOut ==
  ASSUME IInv, NEW t \in Tids, state[GetTcb(t)] = BLK_MSG PROVE t \notin queue.members
  BY DEF IInv, QueueMatchesStates, READY, RUNNING, BLK_MSG

\* The task of an id has the priority it had unless it is the one written to.
LEMMA SamePrio ==
  ASSUME IInv, NEW x \in Tids, NEW pr, is_kcd_init' = is_kcd_init,
         prio' = [prio EXCEPT ![GetTcb(x)] = pr] \/ prio' = prio
  PROVE  \A t \in Tids \ {x} : TidPrio(prio)'[t] = TidPrio(prio)[t]
<1> TAKE t \in Tids \ {x}
<1>1. GetTcb(t) # GetTcb(x) /\ GetTcb(t) \in TCBs
  BY TcbFacts
<1>2. GetTcb(t)' = GetTcb(t)
  BY SameTcbs
<1>3. prio'[GetTcb(t)] = prio[GetTcb(t)]
  BY <1>1 DEF IInv, TypeOK
<1> QED
  BY <1>2, <1>3 DEF TidPrio

\* Neither an interrupt nor a creation costs a queued task its place among its
\* equals (k_task.c:499-504, HAL_CA.c:244-297).
THEOREM PlacesKept == ASSUME PhantomFree PROVE Spec => PreemptionKeepsPlace
<1>1. ASSUME IInv, [Next]_vars, irq \/ g_num_active_tasks' > g_num_active_tasks,
             NEW t \in queue.members, NEW u \in queue.members, t \in queue.ahead[u]
      PROVE  t \in queue'.ahead[u]
  <2> USE <1>1
  <2>1. QueueOK(queue, Tids) /\ g_num_active_tasks \in 1..MAX_TASKS
    BY DEF IInv, TypeOK
  <2>2. CASE BootTask
    <3>1. BootTid(boot) \in Tids \ queue.members
      BY <2>2, BootTidOut
    <3>2. queue' = Insert(queue, BootTid(boot))
      BY <2>2 DEF BootTask
    <3> QED
      BY <2>1, <3>1, <3>2, InsertKeepsPlace
  <2>3. CASE \E p \in Prios : Create(p)
    <3> DEFINE tid == U_TID_Q[U_TID_head]
    <3>1. /\ queue' = Insert(queue, tid) /\ Booted
          /\ g_num_active_tasks # MAX_TASKS
      BY <2>3 DEF Create, UserRuns, Running
    <3>2. tid \in Tids \ queue.members
      BY <3>1, NewTidOut
    <3> QED
      BY <2>1, <3>1, <3>2, InsertKeepsPlace
  <2>4. CASE IrqChar
    <3>1. CASE queue' = queue
      BY <3>1
    <3>2. CASE queue' # queue
      <4>1. queue' = Insert(queue, TID_KCD) /\ state[GetTcb(TID_KCD)] = BLK_MSG
        BY <2>4, <3>2 DEF IrqChar
      <4>2. TID_KCD \in Tids
        BY TcbFacts
      <4>3. TID_KCD \notin queue.members
        BY <4>1, <4>2, BlockedOut
      <4> QED
        BY <2>1, <4>1, <4>2, <4>3, InsertKeepsPlace
    <3> QED
      BY <3>1, <3>2
  <2>5. CASE UartRx \/ IrqEnter \/ IrqExit \/ UNCHANGED vars
    BY <2>5 DEF UartRx, IrqEnter, IrqExit, vars
  <2>6. ~irq => g_num_active_tasks' # g_num_active_tasks /\ g_num_active_tasks' # g_num_active_tasks - 1
    BY <2>1, <1>1
  <2>7. CASE \/ Start \/ Yield \/ Recv \/ RecvBlocks \/ RecvResumes
             \/ \E n \in MbxSizes \cup {KCD_MBX_SIZE} : MbxCreate(n)
             \/ \E x \in Tids, n \in MsgLens : Send(x, n)
             \/ \E x \in Tids, p \in NewPrios : SetPrio(x, p)
             \/ \E p \in Prios : CreateFails(p)
    <3>1. g_num_active_tasks' = g_num_active_tasks
      BY <2>7 DEF Start, Yield, Recv, RecvBlocks, RecvResumes, MbxCreate, Send, SetPrio,
                  CreateFails, ring
    <3>2. ~irq
      <4>1. CASE Start
        BY <4>1, BootLen DEF Start, IInv, BootInv
      <4>2. CASE ~Start
        BY <2>7, <4>2 DEF Yield, Recv, RecvBlocks, RecvResumes, MbxCreate, Send,
                          SetPrio, CreateFails, UserRuns, MailerRuns, Running
      <4> QED
        BY <4>1, <4>2
    <3> QED
      BY <2>6, <3>1, <3>2
  <2>8. CASE Exit
    BY <2>6, <2>8 DEF Exit, UserRuns, Running
  <2> QED
    BY <1>1, <2>2, <2>3, <2>4, <2>5, <2>7, <2>8 DEF Next
<1>2. IInv /\ [Next]_vars =>
        (irq \/ g_num_active_tasks' > g_num_active_tasks =>
           \A t, u \in queue.members : t \in queue.ahead[u] => t \in queue'.ahead[u])
  BY <1>1
<1> QED
  BY <1>2, Invariance, PTL DEF Spec, PreemptionKeepsPlace

\* The kernel never inserts a task that is queued, never removes one that is not
\* and never writes a queued task's priority without putting the task in anew:
\* sched_insert and sched_remove, which check nothing, are called as PrioHeap
\* assumes, so that what is proved of it holds in the kernel (prio_heap.c:98-126).
THEOREM QueueCalled == ASSUME PhantomFree PROVE Spec => QueueContract
<1> DEFINE me == TidOf(gp_current_task)
           Moved ==
             \/ UNCHANGED queue
             \/ \E t \in Tids \ queue.members : queue' = Insert(queue, t)
             \/ \E t \in queue.members : queue' = Remove(queue, t)
             \/ \E t \in queue.members : queue' = Insert(Remove(queue, t), t)
             \/ \E t \in Tids \ queue.members, u \in queue.members :
                  queue' = Insert(Remove(Insert(queue, t), u), u)
           Written ==
             \A t \in queue.members :
               TidPrio(prio)[t] # TidPrio(prio)'[t] => queue' = Insert(Remove(queue, t), t)
<1>1. ASSUME IInv, [Next]_vars PROVE Moved /\ Written
  <2> USE <1>1
  <2>1. QueueOK(queue, Tids) /\ queue.members \subseteq Tids
    BY DEF IInv, TypeOK, QueueOK
  <2>2. me \in queue.members
    BY Current DEF IInv
  <2>3. ASSUME UNCHANGED <<prio, is_kcd_init>> PROVE Written
    <3>1. TidPrio(prio)' = TidPrio(prio)
      BY <2>3 DEF TidPrio, GetTcb
    <3> QED
      BY <3>1
  <2>4. CASE BootTask
    <3> DEFINE b == BootTid(boot)
    <3>1. b \in Tids \ queue.members /\ queue' = Insert(queue, b)
      BY <2>4, BootTidOut DEF BootTask
    <3>2. /\ b # TID_KCD => is_kcd_init' = is_kcd_init
          /\ BootTcb(boot) = IF b = TID_KCD /\ is_kcd_init' THEN KcdTcb ELSE b
      BY <2>4, BootIds
    <3>3. prio' = [prio EXCEPT ![BootTcb(boot)] = BootTasks[boot].prio]
      BY <2>4 DEF BootTask, NewTask
    <3>4. ASSUME NEW t \in queue.members PROVE TidPrio(prio)[t] = TidPrio(prio)'[t]
      <4>1. t \in Tids /\ t # b
        BY <2>1, <3>1
      <4>2. GetTcb(t)' = GetTcb(t) /\ GetTcb(t) # BootTcb(boot)
        <5>1. CASE t = TID_KCD
          <6>1. is_kcd_init' = is_kcd_init /\ BootTcb(boot) = b
            BY <3>2, <4>1, <5>1
          <6> QED
            BY <3>1, <4>1, <5>1, <6>1, TcbFacts DEF GetTcb
        <5>2. CASE t # TID_KCD
          BY <3>2, <4>1, <5>2, TcbFacts DEF GetTcb
        <5> QED
          BY <5>1, <5>2
      <4>3. prio'[GetTcb(t)] = prio[GetTcb(t)]
        BY <3>3, <4>1, <4>2, TcbFacts DEF IInv, TypeOK
      <4> QED
        BY <4>1, <4>2, <4>3 DEF TidPrio
    <3> QED
      BY <3>1, <3>4
  <2>5. CASE Start \/ Yield
    <3>1. queue' = Insert(queue, me) /\ UNCHANGED <<prio, is_kcd_init>>
      BY <2>5 DEF Start, Yield, DoYield
    <3>2. queue' = Insert(Remove(queue, me), me)
      BY <2>1, <2>2, <3>1, InsertAgain
    <3> QED
      BY <2>2, <2>3, <3>1, <3>2
  <2>6. CASE \E p \in Prios : Create(p) \/ CreateFails(p)
    <3> DEFINE tid == U_TID_Q[U_TID_head]
    <3> PICK p \in Prios : Create(p) \/ CreateFails(p)
      BY <2>6
    <3>1. /\ Booted /\ g_num_active_tasks # MAX_TASKS /\ is_kcd_init' = is_kcd_init
          /\ prio' = [prio EXCEPT ![tid] = p]
          /\ UNCHANGED queue \/ queue' = Insert(queue, tid)
      BY DEF Create, CreateFails, UserRuns, Running, NewTask
    <3>2. tid \in Tids \ queue.members /\ GetTcb(tid) = tid
      BY <3>1, NewTidOut DEF HeadAs
    <3> HIDE DEF tid
    <3>3. Written
      <4>1. \A t \in Tids \ {tid} : TidPrio(prio)'[t] = TidPrio(prio)[t]
        BY <3>1, <3>2, SamePrio
      <4> QED
        BY <2>1, <3>2, <4>1
    <3> QED
      BY <3>1, <3>2, <3>3
  <2>7. CASE Exit \/ RecvBlocks
    <3>1. queue' = Remove(queue, me) /\ UNCHANGED <<prio, is_kcd_init>>
      BY <2>7 DEF Exit, RecvBlocks
    <3> QED
      BY <2>2, <2>3, <3>1
  <2>8. CASE \E t \in Tids, p \in NewPrios : SetPrio(t, p)
    <3> PICK t \in Tids, p \in NewPrios : SetPrio(t, p)
      BY <2>8
    <3>1. /\ state[GetTcb(t)] # DORMANT /\ is_kcd_init' = is_kcd_init
          /\ CheckedTids => t \notin FreeTids
          /\ prio' = [prio EXCEPT ![GetTcb(t)] = p]
          /\ IF state[GetTcb(t)] = BLK_MSG THEN UNCHANGED queue
             ELSE \E u \in Removed(t) : queue' = Insert(Remove(queue, u), t)
      BY DEF SetPrio
    <3>2. \A u \in Tids \ {t} : TidPrio(prio)'[u] = TidPrio(prio)[u]
      BY <3>1, SamePrio
    <3>3. CASE state[GetTcb(t)] = BLK_MSG
      <4>1. t \notin queue.members /\ UNCHANGED queue
        BY <3>1, <3>3, BlockedOut
      <4> QED
        BY <2>1, <3>2, <4>1
    <3>4. CASE state[GetTcb(t)] # BLK_MSG
      <4>1. t \notin FreeTids
        BY <3>1 DEF IInv, StateInv, PhantomFree
      <4>2. state[GetTcb(t)] \in {READY, RUNNING}
        BY <3>1, <3>4, TcbFacts DEF IInv, TypeOK, States
      <4>3. t \in queue.members
        BY <4>1, <4>2 DEF IInv, QueueMatchesStates
      <4>4. queue' = Insert(Remove(queue, t), t)
        BY <3>1, <3>4, <4>3 DEF Removed
      <4> QED
        BY <2>1, <3>2, <4>3, <4>4
    <3> QED
      BY <3>3, <3>4
  <2>9. CASE \E t \in Tids, n \in MsgLens : Send(t, n)
    <3> PICK t \in Tids, n \in MsgLens : Send(t, n)
      BY <2>9
    <3>1. /\ UNCHANGED <<prio, is_kcd_init>>
          /\ IF state[GetTcb(t)] = BLK_MSG THEN queue' = Insert(Insert(queue, t), me)
             ELSE UNCHANGED queue
      BY DEF Send, DoYield
    <3>2. CASE state[GetTcb(t)] = BLK_MSG
      <4>1. t \notin queue.members
        BY <3>2, BlockedOut
      <4>2. QueueOK(Insert(queue, t), Tids) /\ me \in Tids
        BY <2>1, <2>2, InsertOK
      <4>3. queue' = Insert(Remove(Insert(queue, t), me), me)
        BY <3>1, <3>2, <4>2, InsertAgain
      <4> QED
        BY <2>2, <2>3, <3>1, <4>1, <4>3
    <3>3. CASE state[GetTcb(t)] # BLK_MSG
      BY <2>3, <3>1, <3>3
    <3> QED
      BY <3>2, <3>3
  <2>10. CASE IrqChar
    <3>1. UNCHANGED <<prio, is_kcd_init>>
      BY <2>10 DEF IrqChar
    <3>2. UNCHANGED queue \/ (queue' = Insert(queue, TID_KCD) /\ state[GetTcb(TID_KCD)] = BLK_MSG)
      BY <2>10 DEF IrqChar
    <3>3. TID_KCD \in Tids
      BY TcbFacts
    <3> QED
      BY <2>3, <3>1, <3>2, <3>3, BlockedOut
  <2>11. CASE (\E n \in MbxSizes \cup {KCD_MBX_SIZE} : MbxCreate(n)) \/ Recv \/ RecvResumes
    <3>1. UNCHANGED <<prio, is_kcd_init, queue>>
      BY <2>11 DEF MbxCreate, Recv, RecvResumes
    <3> QED
      BY <2>3, <3>1
  <2>12. CASE UartRx \/ IrqEnter \/ IrqExit \/ UNCHANGED vars
    <3>1. UNCHANGED <<prio, is_kcd_init, queue>>
      BY <2>12 DEF UartRx, IrqEnter, IrqExit, vars
    <3> QED
      BY <2>3, <3>1
  <2> HIDE DEF Moved, Written
  <2> QED
    BY <1>1, <2>4, <2>5, <2>6, <2>7, <2>8, <2>9, <2>10, <2>11, <2>12 DEF Next
<1>2. IInv /\ [Next]_vars => Moved /\ Written
  BY <1>1
<1> QED
  BY <1>2, Invariance, PTL DEF Spec, QueueContract
=============================================================================
