----------------------------- MODULE ReadyQueue -----------------------------
(***************************************************************************)
(* What kernel/prio_heap.c promises to its callers: a set of task ids      *)
(* ordered by priority and, among equals, by the order of their insertion  *)
(* (INC/common.h:72, "strict-priority, FCFS scheduling").  A queue is a    *)
(* record: `members' holds the queued ids, and `ahead[t]' the members that *)
(* were inserted before t.  Priorities stay outside, as they do in the     *)
(* code, where the heap reads them from the TCBs: pr[t] is t's priority, a *)
(* smaller number being more urgent.  PrioHeap.tla shows the heap          *)
(* implements these operators; Kernel.tla schedules with them.             *)
(***************************************************************************)
EXTENDS Integers

Empty(T) == [members |-> {}, ahead |-> [t \in T |-> {}]]

\* sched_insert: t becomes the youngest member, whatever it was before.
Insert(q, t) ==
  [members |-> q.members \cup {t},
   ahead   |-> [u \in DOMAIN q.ahead |->
                  IF u = t THEN q.members \ {t} ELSE q.ahead[u] \ {t}]]

\* sched_remove of a member.
Remove(q, t) ==
  [members |-> q.members \ {t},
   ahead   |-> [u \in DOMAIN q.ahead |->
                  IF u = t THEN {} ELSE q.ahead[u] \ {t}]]

\* has_higher_prio: by priority, then by age.
Before(q, pr, t, u) == pr[t] < pr[u] \/ (pr[t] = pr[u] /\ t \in q.ahead[u])

\* sched_peak: t is the member the scheduler picks.
IsTop(q, pr, t) == /\ t \in q.members
                   /\ \A u \in q.members \ {t} : Before(q, pr, t, u)

\* The shape every queue has: age is a strict total order of the members.
QueueOK(q, T) ==
  /\ q.members \subseteq T
  /\ q.ahead \in [T -> SUBSET T]
  /\ \A t \in T : q.ahead[t] \subseteq q.members \ {t}
  /\ \A t \in T \ q.members : q.ahead[t] = {}
  /\ \A t, u \in q.members : t # u => (t \in q.ahead[u] <=> u \notin q.ahead[t])
  /\ \A t \in T : \A u \in q.ahead[t] : q.ahead[u] \subseteq q.ahead[t]
=============================================================================
