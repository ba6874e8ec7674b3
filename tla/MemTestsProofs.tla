--------------------------- MODULE MemTestsProofs ---------------------------
(***************************************************************************)
(* Theorems about MemTests, for any memory, any number of blocks and any   *)
(* step of the leakage test: under the tests the allocator keeps what      *)
(* FirstFitProofs proves of it, and each test passes exactly if the memory *)
(* is large enough for it.                                                 *)
(***************************************************************************)
EXTENDS MemTests, FirstFitProofs, SequenceTheorems

-----------------------------------------------------------------------------
\* The statements of a test.  They run from a state in which m pointers are
\* known to one in which n are, and use only pointers that are known by then.
Statements ==
  [do : {"alloc"}, bytes : {n \in Nat : n + 16 <= WORD}]
    \cup [do : {"free"}, which : Nat \ {0}]
    \cup [do : {"count"}, stage : 1..4] \cup [do : {"compare"}]

Knows(s, m, n) ==
  /\ s.do = "alloc" => n = m + 1
  /\ s.do # "alloc" => n = m
  /\ s.do = "free" => s.which \in 1..m
  /\ s.do = "count" => 9 <= m

Known(t, c) == c \in [0..Len(t) -> Nat] /\ \A k \in 1..Len(t) : Knows(t[k], c[k - 1], c[k])

Runs(t, m, n) ==
  t \in Seq(Statements) /\ \E c : Known(t, c) /\ c[0] = m /\ c[Len(t)] = n

\* A test never names a block it has not asked for, and keeps what it was given.
PtrInv == p \in Seq({NULL} \cup {a + 1 : a \in Addresses})
TodoInv == \E n \in Nat : Runs(todo, Len(p), n)
CallInv ==
  test # "none" /\ call.op # "idle" =>
    todo # <<>> /\ Head(todo).do = IF call.op = "find" THEN "alloc" ELSE "free"

TestInv == IInv /\ PtrInv /\ TodoInv /\ CallInv

\* The tests' sizes do not wrap either.
SaneTests == 48 <= WORD /\ STEP * BLOCKS + 16 <= WORD

\* One after the other.
LEMMA RunsThen ==
  ASSUME NEW s, NEW t, NEW l \in Nat, NEW m \in Nat, NEW n \in Nat, Runs(s, l, m), Runs(t, m, n)
  PROVE  Runs(s \o t, l, n)
<1>1. PICK c : Known(s, c) /\ c[0] = l /\ c[Len(s)] = m
  BY DEF Runs
<1>2. PICK d : Known(t, d) /\ d[0] = m /\ d[Len(t)] = n
  BY DEF Runs
<1>3. s \in Seq(Statements) /\ t \in Seq(Statements)
  BY DEF Runs
<1>4. Len(s) \in Nat /\ Len(t) \in Nat
  BY <1>3, LenProperties
<1>5. /\ s \o t \in Seq(Statements) /\ Len(s \o t) = Len(s) + Len(t)
      /\ \A i \in 1..(Len(s) + Len(t)) : (s \o t)[i] = IF i <= Len(s) THEN s[i] ELSE t[i - Len(s)]
  BY <1>3, ConcatProperties
<1> DEFINE e == [k \in 0..(Len(s) + Len(t)) |-> IF k <= Len(s) THEN c[k] ELSE d[k - Len(s)]]
<1>6. e \in [0..(Len(s) + Len(t)) -> Nat]
  BY <1>1, <1>2, <1>4 DEF Known
<1>7. ASSUME NEW k \in 1..(Len(s) + Len(t)) PROVE Knows((s \o t)[k], e[k - 1], e[k])
  <2>1. CASE k <= Len(s)
    <3>1. k \in 1..Len(s) /\ e[k - 1] = c[k - 1] /\ e[k] = c[k] /\ (s \o t)[k] = s[k]
      BY <1>4, <1>5, <2>1
    <3> QED BY <1>1, <3>1 DEF Known
  <2>2. CASE ~(k <= Len(s))
    <3> DEFINE j == k - Len(s)
    <3>1. j \in 1..Len(t) /\ e[k] = d[j] /\ (s \o t)[k] = t[j]
      BY <1>4, <1>5, <2>2
    <3>2. e[k - 1] = d[j - 1]
      <4>1. CASE j = 1
        BY <1>1, <1>2, <1>4, <4>1
      <4>2. CASE j # 1
        BY <1>4, <2>2, <4>2
      <4> QED BY <4>1, <4>2
    <3> QED BY <1>2, <3>1, <3>2 DEF Known
  <2> QED BY <2>1, <2>2
<1>8. e[0] = l /\ e[Len(s) + Len(t)] = n
  BY <1>1, <1>2, <1>4
<1> HIDE DEF e
<1>9. Known(s \o t, e)
  BY <1>5, <1>6, <1>7 DEF Known
<1> QED BY <1>5, <1>8, <1>9 DEF Runs

\* What is left to do when the first statement is done.
LEMMA RunsOn ==
  ASSUME NEW t, NEW m \in Nat, NEW n \in Nat, Runs(t, m, n), t # <<>>
  PROVE  /\ Head(t) \in Statements
         /\ \E k \in Nat : Knows(Head(t), m, k) /\ Runs(Tail(t), k, n)
<1>1. PICK c : Known(t, c) /\ c[0] = m /\ c[Len(t)] = n
  BY DEF Runs
<1>2. t \in Seq(Statements)
  BY DEF Runs
<1>3. /\ Tail(t) \in Seq(Statements) /\ Len(Tail(t)) = Len(t) - 1 /\ Head(t) \in Statements
      /\ \A i \in 1..(Len(t) - 1) : Tail(t)[i] = t[i + 1]
  BY <1>2, HeadTailProperties
<1>4. Len(t) \in Nat \ {0} /\ Head(t) = t[1]
  BY <1>2, EmptySeq
<1> DEFINE d == [k \in 0..(Len(t) - 1) |-> c[k + 1]]
<1>5. d \in [0..(Len(t) - 1) -> Nat]
  BY <1>1, <1>4 DEF Known
<1>6. \A k \in 1..(Len(t) - 1) : Knows(Tail(t)[k], d[k - 1], d[k])
  <2> TAKE k \in 1..(Len(t) - 1)
  <2>1. d[k - 1] = c[k] /\ d[k] = c[k + 1] /\ Tail(t)[k] = t[k + 1]
    BY <1>3, <1>4
  <2>2. k + 1 \in 1..Len(t) /\ (k + 1) - 1 = k
    BY <1>4
  <2> QED BY <1>1, <2>1, <2>2 DEF Known
<1>7. d[0] = c[1] /\ d[Len(t) - 1] = n
  BY <1>1, <1>4
<1>8. c[1] \in Nat /\ Knows(Head(t), m, c[1])
  BY <1>1, <1>4 DEF Known
<1> HIDE DEF d
<1>9. Known(Tail(t), d)
  BY <1>3, <1>5, <1>6 DEF Known
<1> QED BY <1>3, <1>7, <1>8, <1>9 DEF Runs

\* Nothing left to do.
LEMMA RunsNot == \A m \in Nat : Runs(<<>>, m, m)
<1> TAKE m \in Nat
<1> DEFINE c == [k \in 0..0 |-> m]
<1>1. <<>> \in Seq(Statements) /\ Len(<<>>) = 0
  BY EmptySeq
<1>2. Known(<<>>, c) /\ c[0] = m
  BY <1>1 DEF Known
<1> QED BY <1>1, <1>2 DEF Runs

\* Allocations add to the pointers that are known.
LEMMA AllocatesRuns ==
  ASSUME NEW sizes \in Seq({n \in Nat : n + 16 <= WORD}), NEW m \in Nat
  PROVE  Runs(Allocates(sizes), m, m + Len(sizes))
<1> DEFINE L == Len(sizes)
           c == [k \in 0..L |-> m + k]
<1>1. L \in Nat /\ \A i \in 1..L : sizes[i] \in {n \in Nat : n + 16 <= WORD}
  BY LenProperties
<1>2. \A i \in 1..L : [do |-> "alloc", bytes |-> sizes[i]] \in Statements
  BY <1>1 DEF Statements
<1>3. Allocates(sizes) \in Seq(Statements) /\ Len(Allocates(sizes)) = L
  <2>1. Allocates(sizes) \in [1..L -> Statements]
    BY <1>2 DEF Allocates
  <2> QED BY <1>1, <2>1, SeqDef
<1>4. c \in [0..L -> Nat] /\ c[0] = m /\ c[L] = m + L
  BY <1>1
<1>5. \A k \in 1..L : Knows(Allocates(sizes)[k], c[k - 1], c[k])
  BY <1>1 DEF Allocates, Knows
<1> HIDE DEF c
<1>6. Known(Allocates(sizes), c)
  BY <1>3, <1>4, <1>5 DEF Known
<1> QED BY <1>3, <1>4, <1>6 DEF Runs

\* Blocks that are known are freed.
LEMMA FreesRuns ==
  ASSUME NEW m \in Nat, NEW which \in Seq(1..m)
  PROVE  Runs(Frees(which), m, m)
<1> DEFINE L == Len(which)
           c == [k \in 0..L |-> m]
<1>1. L \in Nat /\ \A i \in 1..L : which[i] \in 1..m
  BY LenProperties
<1>2. \A i \in 1..L : [do |-> "free", which |-> which[i]] \in Statements
  BY <1>1 DEF Statements
<1>3. Frees(which) \in Seq(Statements) /\ Len(Frees(which)) = L
  <2>1. Frees(which) \in [1..L -> Statements]
    BY <1>2 DEF Frees
  <2> QED BY <1>1, <2>1, SeqDef
<1>4. c \in [0..L -> Nat] /\ c[0] = m /\ c[L] = m
  BY <1>1
<1>5. \A k \in 1..L : Knows(Frees(which)[k], c[k - 1], c[k])
  BY <1>1 DEF Frees, Knows
<1> HIDE DEF c
<1>6. Known(Frees(which), c)
  BY <1>3, <1>4, <1>5 DEF Known
<1> QED BY <1>3, <1>4, <1>6 DEF Runs

\* A count and a comparison.
LEMMA LooksRun ==
  /\ \A m \in Nat, stage \in 1..4 : 9 <= m => Runs(Counts(stage), m, m)
  /\ \A m \in Nat : Runs(Compares, m, m)
<1>1. ASSUME NEW m \in Nat, NEW x \in Statements, Knows(x, m, m) PROVE Runs(<<x>>, m, m)
  <2> DEFINE c == [k \in 0..1 |-> m]
  <2>1. <<x>> \in Seq(Statements) /\ Len(<<x>>) = 1 /\ <<x>>[1] = x
    OBVIOUS
  <2>2. c \in [0..1 -> Nat] /\ c[0] = m /\ c[1] = m
    OBVIOUS
  <2>3. \A k \in 1..1 : Knows(<<x>>[k], c[k - 1], c[k])
    BY <1>1
  <2> HIDE DEF c
  <2> QED BY <2>1, <2>2, <2>3 DEF Runs, Known
<1>2. ASSUME NEW m \in Nat, NEW stage \in 1..4, 9 <= m PROVE Runs(Counts(stage), m, m)
  <2> DEFINE x == [do |-> "count", stage |-> stage]
  <2>1. x \in Statements /\ Knows(x, m, m)
    BY <1>2 DEF Statements, Knows
  <2> HIDE DEF x
  <2> QED BY <1>1, <2>1 DEF Counts, x
<1>3. ASSUME NEW m \in Nat PROVE Runs(Compares, m, m)
  <2> DEFINE x == [do |-> "compare"]
  <2>1. x \in Statements /\ Knows(x, m, m)
    BY DEF Statements, Knows
  <2> HIDE DEF x
  <2> QED BY <1>1, <2>1 DEF Compares, x
<1> QED BY <1>2, <1>3

-----------------------------------------------------------------------------
\* Both tests name only blocks they have asked for by then.
LEMMA CoalescingRuns == ASSUME SaneTests PROVE Runs(Coalescing, 0, 9)
<1> DEFINE nine == [i \in 1..9 |-> 32]
<1>1. Runs(Allocates(nine), 0, 9)
  <2>1. 32 \in {n \in Nat : n + 16 <= WORD}
    BY MemAssumption DEF SaneTests
  <2>2. nine \in Seq({n \in Nat : n + 16 <= WORD}) /\ Len(nine) = 9
    BY <2>1
  <2> HIDE DEF nine
  <2>3. Runs(Allocates(nine), 0, 0 + Len(nine))
    BY <2>2, AllocatesRuns
  <2> QED BY <2>2, <2>3
<1>2. \A stage \in 1..4 : Runs(Counts(stage), 9, 9)
  BY LooksRun
<1>3. \A w \in Seq(1..9) : Runs(Frees(w), 9, 9)
  BY FreesRuns
<1>4. /\ <<2, 4, 6, 8>> \in Seq(1..9) /\ <<3, 7>> \in Seq(1..9) /\ <<1, 5, 9>> \in Seq(1..9)
  OBVIOUS
<1> HIDE DEF nine
<1>5. Coalescing = Allocates(nine) \o Counts(1) \o Frees(<<2, 4, 6, 8>>) \o Counts(2) \o
                   Frees(<<3, 7>>) \o Counts(3) \o Frees(<<1, 5, 9>>) \o Counts(4)
  BY DEF Coalescing, nine
<1>6. Runs(Allocates(nine) \o Counts(1), 0, 9)
  BY <1>1, <1>2, RunsThen
<1>7. Runs(Allocates(nine) \o Counts(1) \o Frees(<<2, 4, 6, 8>>), 0, 9)
  BY <1>3, <1>4, <1>6, RunsThen
<1>8. Runs(Allocates(nine) \o Counts(1) \o Frees(<<2, 4, 6, 8>>) \o Counts(2), 0, 9)
  BY <1>2, <1>7, RunsThen
<1>9. Runs(Allocates(nine) \o Counts(1) \o Frees(<<2, 4, 6, 8>>) \o Counts(2)
            \o Frees(<<3, 7>>), 0, 9)
  BY <1>3, <1>4, <1>8, RunsThen
<1>10. Runs(Allocates(nine) \o Counts(1) \o Frees(<<2, 4, 6, 8>>) \o Counts(2)
            \o Frees(<<3, 7>>) \o Counts(3), 0, 9)
  BY <1>2, <1>9, RunsThen
<1>11. Runs(Allocates(nine) \o Counts(1) \o Frees(<<2, 4, 6, 8>>) \o Counts(2)
            \o Frees(<<3, 7>>) \o Counts(3) \o Frees(<<1, 5, 9>>), 0, 9)
  BY <1>3, <1>4, <1>10, RunsThen
<1> QED BY <1>2, <1>5, <1>11, RunsThen

\* The sizes of the leakage test do not wrap.
LEMMA SizesAreSmall ==
  ASSUME SaneTests
  PROVE  LET Small == {n \in Nat : n + 16 <= WORD}
             up == [i \in 1..BLOCKS |-> STEP * i - 1]
             down == [i \in 1..BLOCKS |-> STEP * (BLOCKS - i + 1) - 1]
         IN  up \in Seq(Small) /\ Len(up) = BLOCKS /\ down \in Seq(Small) /\ Len(down) = BLOCKS
<1> DEFINE N == BLOCKS
           up == [i \in 1..N |-> STEP * i - 1]
           down == [i \in 1..N |-> STEP * (N - i + 1) - 1]
           Small == {n \in Nat : n + 16 <= WORD}
<1>1. N \in Nat \ {0} /\ STEP \in Nat \ {0} /\ WORD \in Nat /\ STEP * N + 16 <= WORD
  BY MemAssumption, TestAssumption DEF SaneTests
<1>2. \A i \in 1..N : STEP * i - 1 \in Small
  <2> TAKE i \in 1..N
  <2>1. STEP * i <= STEP * N /\ STEP * i >= 1 /\ STEP * i \in Nat
    BY <1>1
  <2>2. STEP * N \in Nat
    BY <1>1
  <2> HIDE DEF N
  <2> QED BY <1>1, <2>1, <2>2
<1>3. \A i \in 1..N : STEP * (N - i + 1) - 1 \in Small
  <2> TAKE i \in 1..N
  <2>1. N - i + 1 \in 1..N
    BY <1>1
  <2> QED BY <1>2, <2>1
<1>4. up \in Seq(Small) /\ Len(up) = N /\ down \in Seq(Small) /\ Len(down) = N
  <2>1. up \in [1..N -> Small] /\ down \in [1..N -> Small]
    BY <1>2, <1>3
  <2> HIDE DEF up, down, Small
  <2> QED BY <1>1, <2>1, SeqDef
<1> QED BY <1>4

\* The leakage test allocates twice, and frees each half by the half's own indices.
LEMMA LeakageRuns == ASSUME SaneTests PROVE Runs(Leakage, 0, 2 * BLOCKS)
<1> DEFINE N == BLOCKS
           up == [i \in 1..N |-> STEP * i - 1]
           down == [i \in 1..N |-> STEP * (N - i + 1) - 1]
           old == [i \in 1..N |-> i]
           new == [i \in 1..N |-> N + i]
           Small == {n \in Nat : n + 16 <= WORD}
<1>1. N \in Nat \ {0} /\ STEP \in Nat \ {0} /\ WORD \in Nat /\ STEP * N + 16 <= WORD
  BY MemAssumption, TestAssumption DEF SaneTests
<1>4. up \in Seq(Small) /\ Len(up) = N /\ down \in Seq(Small) /\ Len(down) = N
  BY SizesAreSmall
<1>5. old \in Seq(1..N) /\ new \in Seq(1..(2 * N))
  <2>1. old \in [1..N -> 1..N] /\ new \in [1..N -> 1..(2 * N)]
    BY <1>1
  <2> HIDE DEF N, old, new
  <2>2. \A S : \A f \in [1..N -> S] : f \in Seq(S)
    BY <1>1, SeqDef
  <2> QED BY <2>1, <2>2
<1>6. Leakage = Allocates(up) \o Frees(old) \o Allocates(down) \o Compares \o Frees(new)
  BY DEF Leakage
<1> HIDE DEF N, up, down, old, new, Small
<1>7. 0 \in Nat /\ N \in Nat /\ 2 * N \in Nat /\ 0 + N = N /\ N + N = 2 * N
  BY <1>1
<1>8. Runs(Allocates(up), 0, N) /\ Runs(Allocates(down), N, 2 * N)
  <2>1. Runs(Allocates(up), 0, 0 + Len(up)) /\ Runs(Allocates(down), N, N + Len(down))
    BY <1>4, <1>7, AllocatesRuns DEF Small
  <2> QED BY <1>4, <1>7, <2>1
<1>9. Runs(Frees(old), N, N) /\ Runs(Frees(new), 2 * N, 2 * N)
  BY <1>5, <1>7, FreesRuns
<1>10. Runs(Compares, 2 * N, 2 * N)
  BY <1>7, LooksRun
<1>11. Runs(Allocates(up) \o Frees(old), 0, N)
  BY <1>7, <1>8, <1>9, RunsThen
<1>12. Runs(Allocates(up) \o Frees(old) \o Allocates(down), 0, 2 * N)
  BY <1>7, <1>8, <1>11, RunsThen
<1>13. Runs(Allocates(up) \o Frees(old) \o Allocates(down) \o Compares, 0, 2 * N)
  BY <1>7, <1>10, <1>12, RunsThen
<1>14. Runs(Leakage, 0, 2 * N)
  BY <1>6, <1>7, <1>9, <1>13, RunsThen
<1> QED BY <1>14 DEF N

\* What a test of coalescing that fails does instead of the rest.
LEMMA RemainingRuns ==
  ASSUME NEW m \in Nat, 9 <= m, NEW stage \in 1..4 PROVE Runs(Frees(Remaining[stage]), m, m)
<1> DEFINE nine == [i \in 1..9 |-> i]
<1>1. nine \in Seq(1..m)
  OBVIOUS
<1>2. /\ <<1, 3, 5, 7, 9>> \in Seq(1..m) /\ <<1, 5, 9>> \in Seq(1..m) /\ <<>> \in Seq(1..m)
  OBVIOUS
<1> HIDE DEF nine
<1>3. Remaining = <<nine, <<1, 3, 5, 7, 9>>, <<1, 5, 9>>, <<>>>>
  BY DEF Remaining, nine
<1>4. Remaining[stage] \in {nine, <<1, 3, 5, 7, 9>>, <<1, 5, 9>>, <<>>}
  BY <1>3
<1> QED BY <1>1, <1>2, <1>4, FreesRuns

\* A test begins with the memory just set up.
LEMMA TestInitInv == ASSUME SaneTests, TestInit PROVE TestInv
<1>1. IInv
  BY InitInv DEF TestInit
<1>2. p = <<>> /\ Len(p) = 0 /\ PtrInv
  BY DEF TestInit, PtrInv
<1>3. test \in {"none", "coalescing", "leakage"}
  BY TestAssumption DEF TestInit, Init, test
<1>4. \E n \in Nat : Runs(todo, 0, n)
  <2>1. 0 \in Nat /\ 9 \in Nat /\ 2 * BLOCKS \in Nat
    BY TestAssumption
  <2>2. Runs(<<>>, 0, 0) /\ Runs(Coalescing, 0, 9) /\ Runs(Leakage, 0, 2 * BLOCKS)
    BY RunsNot, CoalescingRuns, LeakageRuns
  <2>3. todo \in {<<>>, Coalescing, Leakage}
    BY <1>3 DEF TestInit
  <2> QED BY <2>1, <2>2, <2>3
<1>5. call.op = "idle"
  BY DEF TestInit, Init, Idle
<1> QED BY <1>1, <1>2, <1>4, <1>5 DEF TestInv, TodoInv, CallInv

-----------------------------------------------------------------------------
\* What a step of the allocator leaves alone, and what comes after it.
LEMMA StepShape ==
  ASSUME IInv, Step
  PROVE  /\ head' = head /\ call.op # "idle"
         /\ \/ call' = Idle
            \/ call.op = "find" /\ call'.op = "find"
            \/ call.op \in {"seek", "walk"} /\ call'.op \in {"seek", "walk"}
<1>1. CASE Find
  <2>1. call.op = "find" /\ call = [call EXCEPT !.op = "find"]
    BY <1>1 DEF Find, IInv, FindInv
  <2>2. [call EXCEPT !.prev = call.curr, !.curr = link[call.curr]].op = "find"
    BY <2>1 DEF IInv, FindInv
  <2> QED BY <1>1, <2>1, <2>2 DEF Find
<1>2. CASE Take
  BY <1>2 DEF Take
<1>3. CASE Seek
  <2>1. [call EXCEPT !.start = call.stop, !.stop = link[call.stop]].op = "seek"
    BY <1>3 DEF Seek, IInv, SeekInv
  <2> QED BY <1>3, <2>1 DEF Seek
<1>4. CASE Walk
  <2>1. [call EXCEPT !.temp = @ + size[call.temp]].op = "walk"
    BY <1>4 DEF Walk, IInv, WalkInv
  <2> QED BY <1>4, <2>1 DEF Walk
<1>5. CASE Free
  BY <1>5 DEF Free
<1> QED BY <1>1, <1>2, <1>3, <1>4, <1>5 DEF Step

\* The test goes on with its next statement, or ends.
LEMMA GoesOn ==
  ASSUME NEW m \in Nat, NEW k \in Nat, todo # <<>>, Runs(todo, m, k)
  PROVE  /\ Head(todo) \in Statements
         /\ Head(todo).do = "alloc" => \E n \in Nat : Runs(Tail(todo), m + 1, n)
         /\ Head(todo).do # "alloc" => \E n \in Nat : Runs(Tail(todo), m, n)
<1>1. PICK j \in Nat : Knows(Head(todo), m, j) /\ Runs(Tail(todo), j, k)
  BY RunsOn
<1>2. Head(todo) \in Statements
  BY RunsOn
<1>3. j = IF Head(todo).do = "alloc" THEN m + 1 ELSE m
  BY <1>1 DEF Knows
<1> QED BY <1>1, <1>2, <1>3

\* A call the test makes, until it returns.
LEMMA TestStepsStep == ASSUME TestInv, Steps PROVE TestInv'
<1>1. /\ IInv /\ PtrInv /\ TodoInv /\ CallInv /\ Step
      /\ head' = head /\ test' = test /\ Addresses' = Addresses
  BY StepShape DEF TestInv, Steps, test, Addresses
<1>2. IInv'
  BY <1>1, FindStep, TakeStep, SeekStep, WalkStep, FreeStep DEF Step
<1>3. CASE UNCHANGED testing
  <2>1. p' = p /\ todo' = todo
    BY <1>3 DEF testing
  <2>2. PtrInv' /\ TodoInv'
    BY <1>1, <2>1 DEF PtrInv, TodoInv
  <2>3. CallInv'
    <3> SUFFICES ASSUME test # "none", call'.op # "idle"
                 PROVE  todo # <<>> /\ Head(todo).do = IF call'.op = "find" THEN "alloc" ELSE "free"
      BY <1>1, <2>1 DEF CallInv
    <3>1. call' # Idle
      BY DEF Idle
    <3> QED BY <1>1, <3>1, StepShape DEF CallInv
  <2> QED BY <1>2, <2>2, <2>3 DEF TestInv
<1>4. CASE ~(test = "none" \/ call' # Idle)
  <2>1. test # "none" /\ call'.op = "idle" /\ call.op # "idle"
    BY <1>1, <1>4, StepShape DEF Idle
  <2>2. todo # <<>> /\ Head(todo).do = IF call.op = "find" THEN "alloc" ELSE "free"
    BY <1>1, <2>1 DEF CallInv
  <2>3. p \in Seq({NULL} \cup {a + 1 : a \in Addresses}) /\ Len(p) \in Nat
    BY <1>1, LenProperties DEF PtrInv
  <2>4. PICK k \in Nat : Runs(todo, Len(p), k)
    BY <1>1 DEF TodoInv
  <2>5. CASE call.op = "find"
    <3> DEFINE ptr == IF call.curr = NULL THEN NULL ELSE call.curr + 1
    <3>1. ptr \in {NULL} \cup {a + 1 : a \in Addresses}
      <4>1. call.curr \in FreeBlocks \cup {NULL} /\ FreeBlocks \subseteq Addresses
        BY <1>1, <2>5, BlockFacts DEF IInv, FindInv
      <4> QED BY <4>1
    <3>2. AllocReturns(ptr)
      BY <1>1, <1>4, <2>5 DEF Steps
    <3> HIDE DEF ptr
    <3>3. p' = Append(p, ptr) /\ (todo' = <<>> \/ todo' = Tail(todo))
      BY <3>2 DEF AllocReturns, Proceeds
    <3>4. p' \in Seq({NULL} \cup {a + 1 : a \in Addresses}) /\ Len(p') = Len(p) + 1
      BY <2>3, <3>1, <3>3, AppendProperties
    <3>5. \E n \in Nat : Runs(todo', Len(p) + 1, n)
      <4>1. \E n \in Nat : Runs(Tail(todo), Len(p) + 1, n)
        BY <2>2, <2>3, <2>4, <2>5, GoesOn
      <4>2. Len(p) + 1 \in Nat
        BY <2>3
      <4>3. Runs(<<>>, Len(p) + 1, Len(p) + 1)
        BY <4>2, RunsNot
      <4> QED BY <3>3, <4>1, <4>2, <4>3
    <3> QED BY <1>1, <1>2, <2>1, <3>4, <3>5 DEF TestInv, PtrInv, TodoInv, CallInv
  <2>6. CASE call.op # "find"
    <3>1. p' = p /\ (todo' = <<>> \/ todo' = Tail(todo))
      BY <1>1, <1>4, <2>6 DEF Steps, DeallocReturns, Proceeds
    <3>2. \E n \in Nat : Runs(todo', Len(p), n)
      BY <2>2, <2>3, <2>4, <2>6, <3>1, GoesOn, RunsNot
    <3> QED BY <1>1, <1>2, <2>1, <3>1, <3>2 DEF TestInv, PtrInv, TodoInv, CallInv
  <2> QED BY <2>5, <2>6
<1> QED BY <1>3, <1>4, <1>1 DEF Steps

\* Between calls a test only looks at the memory.
LEMMA LooksKeep ==
  ASSUME TestInv, UNCHANGED vars, UNCHANGED p, call.op = "idle",
         \E n \in Nat : Runs(todo', Len(p), n)
  PROVE  TestInv'
<1>1. IInv' /\ Addresses' = Addresses
  BY StutterStep DEF TestInv, vars, Addresses
<1>2. call'.op = "idle"
  BY DEF vars
<1> QED BY <1>1, <1>2 DEF TestInv, PtrInv, TodoInv, CallInv

\* The test's own statements.
LEMMA StatementStep ==
  ASSUME SaneTests, TestInv, k_mem_alloc \/ k_mem_dealloc \/ CountTwice \/ Compare
  PROVE  TestInv'
<1>1. /\ IInv /\ PtrInv /\ TodoInv /\ call = Idle /\ todo # <<>> /\ call.op = "idle"
  <2>1. IInv /\ PtrInv /\ TodoInv
    BY DEF TestInv
  <2>2. \E what : Does(what)
    BY Zenon DEF k_mem_alloc, k_mem_dealloc, CountTwice, Compare
  <2> QED BY <2>1, <2>2 DEF Does, Idle
<1>2. p \in Seq({NULL} \cup {a + 1 : a \in Addresses}) /\ Len(p) \in Nat
  BY <1>1, LenProperties DEF PtrInv
<1>3. PICK k \in Nat : Runs(todo, Len(p), k)
  BY <1>1 DEF TodoInv
<1>4. Head(todo) \in Statements /\ \E n \in Nat : Knows(Head(todo), Len(p), n)
  BY <1>1, <1>2, <1>3, RunsOn
<1>5. CASE k_mem_alloc
  <2>1. Head(todo).do = "alloc" /\ Alloc(Head(todo).bytes, Tester) /\ UNCHANGED testing
    BY <1>5 DEF k_mem_alloc, Does
  <2>2. Head(todo).bytes \in Nat /\ Head(todo).bytes + 16 <= WORD
    BY <1>4, <2>1 DEF Statements
  <2>3. IInv'
    BY <1>1, <2>1, <2>2, TestAssumption, AllocStep
  <2>4. call'.op = "find" /\ head' = head /\ Addresses' = Addresses
    BY <2>1 DEF Alloc, Addresses
  <2> QED BY <1>1, <2>1, <2>3, <2>4 DEF testing, TestInv, PtrInv, TodoInv, CallInv
<1>6. CASE k_mem_dealloc
  <2>1. Head(todo).do = "free"
    BY <1>6 DEF k_mem_dealloc, Does
  <2>2. Head(todo).which \in 1..Len(p)
    BY <1>4, <2>1 DEF Knows
  <2>3. Ptr \in {NULL} \cup {a + 1 : a \in Addresses}
    BY <1>2, <2>2, ElementOfSeq DEF Ptr
  <2>4. CASE Refuses(Ptr)
    <3>1. UNCHANGED vars /\ UNCHANGED p /\ (todo' = <<>> \/ todo' = Tail(todo))
      BY <1>6, <2>4 DEF k_mem_dealloc, DeallocReturns, Proceeds, mem
    <3>2. \E n \in Nat : Runs(todo', Len(p), n)
      BY <1>1, <1>2, <1>3, <2>1, <3>1, GoesOn, RunsNot
    <3> QED BY <1>1, <3>1, <3>2, LooksKeep
  <2>5. CASE ~Refuses(Ptr)
    <3>1. Dealloc(Ptr - 1, Tester) /\ UNCHANGED testing
      BY <1>6, <2>5 DEF k_mem_dealloc
    <3>2. Ptr - 1 \in Addresses
      <4>1. PICK a \in Addresses : Ptr = a + 1
        BY <2>3, <2>5 DEF Refuses
      <4>2. a \in Int
        BY DEF Addresses
      <4> QED BY <4>1, <4>2
    <3>3. IInv'
      BY <1>1, <3>1, <3>2, TestAssumption, DeallocStep
    <3>4. call'.op = "seek" /\ head' = head /\ Addresses' = Addresses
      BY <3>1 DEF Dealloc, Addresses
    <3> QED BY <1>1, <2>1, <3>1, <3>3, <3>4 DEF testing, TestInv, PtrInv, TodoInv, CallInv
  <2> QED BY <2>4, <2>5
<1>7. CASE CountTwice
  <2>1. Head(todo).do = "count" /\ UNCHANGED vars /\ UNCHANGED p
    BY <1>7 DEF CountTwice, Does, mem
  <2>2. todo' = Tail(todo) \/ todo' = Frees(Remaining[Head(todo).stage])
    BY <1>7 DEF CountTwice, Proceeds
  <2>3. Head(todo).stage \in 1..4 /\ 9 <= Len(p)
    BY <1>4, <2>1 DEF Statements, Knows
  <2>4. \E n \in Nat : Runs(todo', Len(p), n)
    BY <1>1, <1>2, <1>3, <2>1, <2>2, <2>3, GoesOn, RemainingRuns
  <2> QED BY <1>1, <2>1, <2>4, LooksKeep
<1>8. CASE Compare
  <2>1. /\ Head(todo).do = "compare" /\ UNCHANGED vars /\ UNCHANGED p
        /\ todo' = Tail(todo) \/ todo' = <<>>
    BY <1>8 DEF Compare, Does, mem, Proceeds
  <2>2. \E n \in Nat : Runs(todo', Len(p), n)
    BY <1>1, <1>2, <1>3, <2>1, GoesOn, RunsNot
  <2> QED BY <1>1, <2>1, <2>2, LooksKeep
<1> QED BY <1>5, <1>6, <1>7, <1>8

\* Every step of the callers keeps the invariant.
LEMMA TestNextStep ==
  ASSUME SaneSizes, SaneTests, TestInv, [TestNext]_<<mem, testing>> PROVE TestInv'
<1>1. CASE AnyCall
  <2>1. test = "none" /\ Next /\ IInv /\ UNCHANGED testing
    BY <1>1 DEF AnyCall, Next, TestInv
  <2>2. IInv'
    BY <2>1, NextStep
  <2>3. head' = head /\ Addresses' = Addresses /\ test' = test
    BY <1>1 DEF AnyCall, Call, k_alloc_p_stack, Alloc, Dealloc, Addresses, test
  <2> QED BY <2>1, <2>2, <2>3 DEF testing, TestInv, PtrInv, TodoInv, CallInv
<1>2. CASE UNCHANGED <<mem, testing>>
  <2>1. IInv'
    BY <1>2, StutterStep DEF TestInv, mem
  <2> QED BY <1>2, <2>1 DEF mem, vars, testing, test, Addresses, TestInv, PtrInv, TodoInv, CallInv
<1> QED BY <1>1, <1>2, TestStepsStep, StatementStep DEF TestNext

-----------------------------------------------------------------------------
\* What each test does when.  The i-th block it asks for has Width(i) units, and
\* would begin Offset(i) units into the memory; statement AllocAt(i) asks for it
\* and statement FreedAt(i) frees it.  Upto(n) are the units of the first n
\* blocks of the leakage test.
Unit == STEP \div 8
Upto(n) == Sums(1, [i \in Nat |-> Unit * i])[n]

Script == IF test = "coalescing" THEN Coalescing ELSE Leakage
Count == IF test = "coalescing" THEN 9 ELSE 2 * BLOCKS
Width(i) == IF test = "coalescing" THEN 5
            ELSE IF i <= BLOCKS THEN Unit * i + 1 ELSE Unit * (2 * BLOCKS - i + 1) + 1
Offset(i) == IF test = "coalescing" THEN 5 * (i - 1)
             ELSE IF i <= BLOCKS THEN Upto(i - 1) ELSE Upto(BLOCKS) - Upto(2 * BLOCKS - i + 1)
AllocAt(i) == IF test = "coalescing" \/ i <= BLOCKS THEN i ELSE BLOCKS + i
FreedAt(i) == IF test = "coalescing" THEN <<19, 11, 16, 12, 20, 13, 17, 14, 21>>[i]
              ELSE IF i <= BLOCKS THEN BLOCKS + i ELSE 2 * BLOCKS + 1 + i

\* The blocks held after n statements, of those for which there is memory.
Room == END - head
Fits(i) == Offset(i) + Width(i) <= Room
At(i) == head + Offset(i)
Held(n) == {i \in 1..Count : AllocAt(i) <= n /\ n < FreedAt(i) /\ Fits(i)}

\* The sizes of the leakage test in units.
LEMMA UnitFacts ==
  /\ BLOCKS \in Nat \ {0} /\ Unit \in Nat \ {0} /\ STEP = 8 * Unit /\ STEP \in Nat
  /\ \A i \in Nat : Unit * i \in Nat /\ STEP * i = 8 * (Unit * i)
<1>1. BLOCKS \in Nat \ {0} /\ STEP \in Nat \ {0} /\ STEP % 8 = 0
  BY TestAssumption
<1>2. Unit \in Nat \ {0} /\ STEP = 8 * Unit
  BY <1>1 DEF Unit
<1>3. \A i \in Nat : Unit * i \in Nat /\ (8 * Unit) * i = 8 * (Unit * i)
  BY <1>2
<1> QED BY <1>1, <1>2, <1>3

\* Their sums, and the sums' closed form.
LEMMA UptoIs ==
  /\ Upto(0) = 0
  /\ \A n \in Nat : Upto(n + 1) = Upto(n) + (Unit * (n + 1) + 1)
  /\ \A n \in Nat : Upto(n) \in Nat /\ 2 * Upto(n) = Unit * (n * (n + 1)) + 2 * n
<1> DEFINE d == [i \in Nat |-> Unit * i]
<1>1. \A n \in Nat : d[n + 1] = Unit * (n + 1) /\ d[n + 1] \in Nat
  BY UnitFacts
<1>2. \A n : Upto(n) = Sums(1, d)[n]
  BY DEF Upto
<1> HIDE DEF d
<1>3. Upto(0) = 0 /\ \A n \in Nat : Upto(n + 1) = Upto(n) + 1 + Unit * (n + 1)
  BY <1>1, <1>2, SumsAre
<1> DEFINE S == {n \in Nat : Upto(n) \in Nat /\ 2 * Upto(n) = Unit * (n * (n + 1)) + 2 * n}
<1>4. 0 \in S
  BY <1>3, UnitFacts
<1>5. ASSUME NEW n \in Nat, n \in S PROVE n + 1 \in S
  <2>1. Upto(n + 1) = Upto(n) + 1 + Unit * (n + 1) /\ Upto(n) \in Nat
        /\ 2 * Upto(n) = Unit * (n * (n + 1)) + 2 * n
    BY <1>3, <1>5
  <2>2. Unit \in Nat
    BY UnitFacts
  <2>3. Unit * (n + 1) \in Nat /\ Unit * (n * (n + 1)) \in Nat
    BY <2>2
  <2>4. Unit * ((n + 1) * ((n + 1) + 1)) = Unit * (n * (n + 1)) + 2 * (Unit * (n + 1))
    BY <2>2
  <2> QED BY <2>1, <2>3, <2>4
<1>6. Nat \subseteq S
  <2> HIDE DEF S
  <2> QED BY <1>4, <1>5, NatSetInduction
<1>7. ASSUME NEW n \in Nat PROVE Upto(n + 1) = Upto(n) + (Unit * (n + 1) + 1)
  <2>1. Upto(n) \in Nat /\ Unit * (n + 1) \in Nat
    BY <1>6, UnitFacts
  <2> QED BY <1>3, <2>1
<1> QED BY <1>3, <1>6, <1>7

\* They grow.
LEMMA UptoGrows == \A n \in Nat : \A m \in 0..n : Upto(m) <= Upto(n)
<1> DEFINE S == {n \in Nat : \A m \in 0..n : Upto(m) <= Upto(n)}
<1>1. 0 \in S
  BY UptoIs
<1>2. ASSUME NEW n \in Nat, n \in S PROVE n + 1 \in S
  <2> DEFINE k == n + 1
  <2>1. k \in Nat /\ Upto(n) \in Nat
    BY UptoIs
  <2> HIDE DEF k
  <2>2. Upto(k) \in Nat /\ Unit * k \in Nat
    BY <2>1, UptoIs, UnitFacts
  <2> USE DEF k
  <2>3. Upto(n + 1) = Upto(n) + (Unit * (n + 1) + 1)
    BY UptoIs
  <2>5. ASSUME NEW m \in 0..(n + 1) PROVE Upto(m) <= Upto(n + 1)
    <3>1. CASE m = n + 1
      BY <2>2, <3>1
    <3>2. CASE m # n + 1
      <4>1. m \in 0..n /\ m \in Nat
        BY <3>2
      <4>2. Upto(m) <= Upto(n) /\ Upto(m) \in Nat
        BY <1>2, <4>1, UptoIs
      <4> QED BY <2>1, <2>2, <2>3, <4>2
    <3> QED BY <3>1, <3>2
  <2> QED BY <2>5
<1> HIDE DEF S
<1>3. Nat \subseteq S
  BY <1>1, <1>2, NatSetInduction
<1> QED BY <1>3 DEF S

\* The blocks of a test begin where the memory does, or the block before ends.
Base(i) == IF test = "leakage" /\ i > BLOCKS THEN BLOCKS ELSE 0

\* They are one after the other.
LEMMA PlanFacts ==
  ASSUME test \in {"coalescing", "leakage"}
  PROVE  /\ Count \in Nat \ {0}
         /\ \A i \in 1..Count :
              /\ Width(i) \in Nat \ {0} /\ Offset(i) \in Nat /\ Base(i) \in 0..(i - 1)
              /\ i = Base(i) + 1 => Offset(i) = 0
              /\ i # Base(i) + 1 => /\ i - 1 \in 1..Count /\ Base(i - 1) = Base(i)
                                    /\ Offset(i) = Offset(i - 1) + Width(i - 1)
<1>1. CASE test = "coalescing"
  BY <1>1 DEF Count, Width, Offset, Base
<1>2. CASE test = "leakage"
  <2> DEFINE N == BLOCKS
  <2>1. N \in Nat \ {0} /\ Count = 2 * N
    BY <1>2, UnitFacts DEF Count
  <2>2. \A i : /\ Width(i) = IF i <= N THEN Unit * i + 1 ELSE Unit * (2 * N - i + 1) + 1
               /\ Offset(i) = IF i <= N THEN Upto(i - 1) ELSE Upto(N) - Upto(2 * N - i + 1)
               /\ Base(i) = IF i > N THEN N ELSE 0
    BY <1>2 DEF Width, Offset, Base
  <2> HIDE DEF N
  <2>3. ASSUME NEW i \in 1..(2 * N)
        PROVE  /\ Width(i) \in Nat \ {0} /\ Offset(i) \in Nat /\ Base(i) \in 0..(i - 1)
               /\ i = Base(i) + 1 => Offset(i) = 0
               /\ i # Base(i) + 1 => /\ i - 1 \in 1..(2 * N) /\ Base(i - 1) = Base(i)
                                     /\ Offset(i) = Offset(i - 1) + Width(i - 1)
    <3>1. CASE i <= N
      <4>1. i \in Nat /\ i - 1 \in Nat /\ (i - 1) + 1 = i /\ i - 1 <= N
        BY <2>1, <3>1
      <4>2. Unit * i \in Nat /\ Upto(i - 1) \in Nat
        BY <4>1, UnitFacts, UptoIs
      <4>3. Base(i) = 0 /\ Width(i) = Unit * i + 1 /\ Offset(i) = Upto(i - 1)
        BY <2>2, <3>1, <2>1
      <4>4. i = 1 => Offset(i) = 0
        BY <4>3, UptoIs
      <4>5. CASE i # 1
        <5> DEFINE j == i - 1
        <5>1. j \in Nat /\ j - 1 \in Nat /\ (j - 1) + 1 = j /\ j <= N /\ j \in 1..(2 * N)
              /\ ~(j > N)
          BY <2>1, <4>1, <4>5
        <5>2. Upto((j - 1) + 1) = Upto(j - 1) + (Unit * ((j - 1) + 1) + 1)
          BY <5>1, UptoIs
        <5> HIDE DEF j
        <5>3. Offset(j) = Upto(j - 1) /\ Width(j) = Unit * j + 1 /\ Base(j) = 0
          BY <2>2, <5>1
        <5>4. Offset(i) = Offset(j) + Width(j)
          BY <4>3, <5>1, <5>2, <5>3 DEF j
        <5> QED BY <4>2, <4>3, <4>5, <5>1, <5>3, <5>4 DEF j
      <4> QED BY <4>2, <4>3, <4>4, <4>5
    <3>2. CASE ~(i <= N)
      <4> DEFINE k == 2 * N - i
      <4>1. k \in Nat /\ k + 1 \in Nat /\ k + 1 <= N /\ k + 1 \in 0..N
        BY <2>1, <3>2
      <4>2. 2 * N - i + 1 = k + 1
        BY <2>1
      <4>3. /\ Base(i) = N /\ Width(i) = Unit * (k + 1) + 1
            /\ Offset(i) = Upto(N) - Upto(k + 1)
        BY <2>1, <2>2, <3>2, <4>2
      <4>4. Unit * (k + 1) \in Nat /\ Upto(k + 1) \in Nat /\ Upto(N) \in Nat
            /\ Upto(k + 1) <= Upto(N)
        BY <2>1, <4>1, UnitFacts, UptoIs, UptoGrows
      <4>5. i = N + 1 => Offset(i) = 0
        <5>1. i = N + 1 => k + 1 = N
          BY <2>1
        <5> HIDE DEF k
        <5> QED BY <4>3, <4>4, <5>1
      <4>6. CASE i # N + 1
        <5> DEFINE j == i - 1
        <5>1. j \in 1..(2 * N) /\ ~(j <= N) /\ 2 * N - j + 1 = (k + 1) + 1 /\ j > N
          BY <2>1, <3>2, <4>6
        <5> HIDE DEF j, k
        <5>2. /\ Offset(j) = Upto(N) - Upto((k + 1) + 1) /\ Base(j) = N
              /\ Width(j) = Unit * ((k + 1) + 1) + 1
          BY <2>2, <5>1
        <5>3. Upto((k + 1) + 1) = Upto(k + 1) + (Unit * ((k + 1) + 1) + 1)
          BY <4>1, UptoIs
        <5>4. Unit * ((k + 1) + 1) \in Nat
          BY <4>1, UnitFacts
        <5>5. Offset(i) = Offset(j) + Width(j)
          BY <4>3, <4>4, <5>2, <5>3, <5>4
        <5>6. j = i - 1
          BY DEF j
        <5> QED BY <2>1, <3>2, <4>3, <4>4, <4>6, <5>1, <5>2, <5>5, <5>6
      <4> QED BY <2>1, <3>2, <4>3, <4>4, <4>5, <4>6
    <3> QED BY <3>1, <3>2
  <2> QED BY <2>1, <2>3
<1> QED BY <1>1, <1>2

\* The leakage test needs what its first half takes, which its second half takes again.
LEMMA LeakageNeeds ==
  ASSUME test = "leakage", Room \in Int
  PROVE  /\ EnoughFor <=> Upto(BLOCKS) <= Room
         /\ \A i \in 1..Count : Offset(i) + Width(i) <= Upto(BLOCKS)
         /\ BLOCKS \in 1..Count /\ Offset(BLOCKS) + Width(BLOCKS) = Upto(BLOCKS)
         /\ Upto(BLOCKS) \in Nat
<1> DEFINE N == BLOCKS
           U == Upto(N)
<1>1. N \in Nat \ {0} /\ Unit \in Nat /\ STEP = 8 * Unit /\ Count = 2 * N
  BY UnitFacts DEF Count
<1>2. U \in Nat /\ 2 * U = Unit * (N * (N + 1)) + 2 * N
  BY <1>1, UptoIs
<1>3. \A i : /\ Width(i) = IF i <= N THEN Unit * i + 1 ELSE Unit * (2 * N - i + 1) + 1
             /\ Offset(i) = IF i <= N THEN Upto(i - 1) ELSE Upto(N) - Upto(2 * N - i + 1)
  BY DEF Width, Offset
<1>4. STEP * N * (N + 1) = 8 * (Unit * (N * (N + 1))) /\ Unit * (N * (N + 1)) \in Nat
  BY <1>1
<1>5. N + (STEP * N * (N + 1)) \div 16 = U
  <2>1. STEP * N * (N + 1) = 16 * (U - N) /\ U - N \in Int
    BY <1>1, <1>2, <1>4
  <2> HIDE DEF U, N
  <2>2. \A x \in Int : (16 * x) \div 16 = x
    OBVIOUS
  <2> QED BY <1>1, <1>2, <2>1, <2>2
<1>6. EnoughFor <=> END - head - U >= 0
  <2>1. EnoughFor <=> END - head - (N + (STEP * N * (N + 1)) \div 16) >= 0
    BY DEF EnoughFor, Rest
  <2> HIDE DEF U, N
  <2> QED BY <1>5, <2>1
<1> HIDE DEF N
<1>7. ASSUME NEW i \in 1..(2 * N), i <= N
      PROVE  Offset(i) + Width(i) = Upto(i)
  <2>1. i - 1 \in Nat /\ (i - 1) + 1 = i
    BY <1>1
  <2>2. Upto((i - 1) + 1) = Upto(i - 1) + (Unit * ((i - 1) + 1) + 1)
    BY <2>1, UptoIs
  <2> QED BY <1>3, <1>7, <2>1, <2>2
<1>8. ASSUME NEW i \in 1..(2 * N), ~(i <= N)
      PROVE  Offset(i) + Width(i) <= Upto(N)
  <2> DEFINE k == 2 * N - i
  <2>1. k \in Nat /\ 2 * N - i + 1 = k + 1 /\ k + 1 \in Nat
    BY <1>1
  <2> HIDE DEF k
  <2>2. Upto(k + 1) = Upto(k) + (Unit * (k + 1) + 1)
    BY <2>1, UptoIs
  <2>3. Upto(k) \in Nat /\ Upto(k + 1) \in Nat /\ Upto(N) \in Nat /\ Unit * (k + 1) \in Nat
    BY <1>1, <2>1, UptoIs, UnitFacts
  <2>4. Offset(i) = Upto(N) - Upto(k + 1) /\ Width(i) = Unit * (k + 1) + 1
    BY <1>3, <1>8, <2>1
  <2> QED BY <2>2, <2>3, <2>4
<1>9. ASSUME NEW i \in 1..(2 * N) PROVE Offset(i) + Width(i) <= Upto(N)
  <2>1. CASE i <= N
    <3>1. i \in 0..N
      BY <1>1, <2>1
    <3> QED BY <1>1, <1>7, <2>1, <3>1, UptoGrows
  <2>2. CASE ~(i <= N)
    BY <1>8, <2>2
  <2> QED BY <2>1, <2>2
<1>10. N \in 1..(2 * N) /\ N <= N
  BY <1>1
<1>11. END - head - U >= 0 <=> U <= Room
  <2>1. Room = END - head
    BY DEF Room
  <2> HIDE DEF U
  <2> QED BY <1>2, <2>1
<1> QED BY <1>1, <1>2, <1>6, <1>7, <1>9, <1>10, <1>11 DEF N

-----------------------------------------------------------------------------
\* The statements of a piece of a test.
LEMMA AllocatesAt ==
  ASSUME NEW sizes \in Seq({n \in Nat : n + 16 <= WORD})
  PROVE  /\ Allocates(sizes) \in Seq(Statements) /\ Len(Allocates(sizes)) = Len(sizes)
         /\ \A i \in 1..Len(sizes) : Allocates(sizes)[i] = [do |-> "alloc", bytes |-> sizes[i]]
<1>1. Runs(Allocates(sizes), 0, 0 + Len(sizes))
  BY AllocatesRuns
<1>2. Len(sizes) \in Nat
  BY LenProperties
<1> QED BY <1>1, <1>2 DEF Runs, Allocates

\* What is freed, one by one.
LEMMA FreesAt ==
  ASSUME NEW m \in Nat, NEW which \in Seq(1..m)
  PROVE  /\ Frees(which) \in Seq(Statements) /\ Len(Frees(which)) = Len(which)
         /\ \A i \in 1..Len(which) : Frees(which)[i] = [do |-> "free", which |-> which[i]]
<1>1. Runs(Frees(which), m, m)
  BY FreesRuns
<1>2. Len(which) \in Nat
  BY LenProperties
<1> QED BY <1>1, <1>2 DEF Runs, Frees

\* A count, and the comparison.
LEMMA LooksAt ==
  /\ \A stage \in 1..4 : /\ Counts(stage) \in Seq(Statements) /\ Len(Counts(stage)) = 1
                         /\ Counts(stage)[1] = [do |-> "count", stage |-> stage]
  /\ Compares \in Seq(Statements) /\ Len(Compares) = 1 /\ Compares[1] = [do |-> "compare"]
<1>1. 9 \in Nat /\ 9 <= 9
  OBVIOUS
<1>2. (\A stage \in 1..4 : Runs(Counts(stage), 9, 9)) /\ Runs(Compares, 9, 9)
  BY <1>1, LooksRun
<1> QED BY <1>2 DEF Runs, Counts, Compares

\* Two pieces, one after the other.
LEMMA PiecesAt ==
  ASSUME NEW s \in Seq(Statements), NEW t \in Seq(Statements)
  PROVE  /\ s \o t \in Seq(Statements) /\ Len(s \o t) = Len(s) + Len(t)
          /\ \A n \in 1..Len(s) : (s \o t)[n] = s[n]
         /\ \A n \in 1..Len(t) : (s \o t)[Len(s) + n] = t[n]
<1>1. Len(s) \in Nat /\ Len(t) \in Nat
  BY LenProperties
<1>2. /\ s \o t \in Seq(Statements) /\ Len(s \o t) = Len(s) + Len(t)
      /\ \A i \in 1..(Len(s) + Len(t)) : (s \o t)[i] = IF i <= Len(s) THEN s[i] ELSE t[i - Len(s)]
  BY ConcatProperties
<1>3. \A n \in 1..Len(t) : Len(s) + n \in 1..(Len(s) + Len(t)) /\ ~(Len(s) + n <= Len(s))
                            /\ (Len(s) + n) - Len(s) = n
  BY <1>1
<1> QED BY <1>1, <1>2, <1>3

\* The statements of the leakage test.
LEMMA LeakageAt ==
  ASSUME SaneTests
  PROVE  /\ Leakage \in Seq(Statements) /\ Len(Leakage) = 4 * BLOCKS + 1
         /\ \A n \in 1..BLOCKS :
              /\ Leakage[n] = [do |-> "alloc", bytes |-> STEP * n - 1]
              /\ Leakage[BLOCKS + n] = [do |-> "free", which |-> n]
              /\ Leakage[2 * BLOCKS + n] = [do |-> "alloc", bytes |-> STEP * (BLOCKS - n + 1) - 1]
              /\ Leakage[3 * BLOCKS + 1 + n] = [do |-> "free", which |-> BLOCKS + n]
         /\ Leakage[3 * BLOCKS + 1] = [do |-> "compare"]
<1> DEFINE N == BLOCKS
           up == [i \in 1..N |-> STEP * i - 1]
           down == [i \in 1..N |-> STEP * (N - i + 1) - 1]
           old == [i \in 1..N |-> i]
           new == [i \in 1..N |-> N + i]
           Small == {n \in Nat : n + 16 <= WORD}
<1>1. N \in Nat \ {0} /\ STEP \in Nat \ {0} /\ WORD \in Nat /\ STEP * N + 16 <= WORD
  BY MemAssumption, TestAssumption DEF SaneTests
<1>2. up \in Seq(Small) /\ Len(up) = N /\ down \in Seq(Small) /\ Len(down) = N
  BY SizesAreSmall
<1>3. old \in Seq(1..(2 * N)) /\ new \in Seq(1..(2 * N)) /\ Len(old) = N /\ Len(new) = N
  <2>1. old \in [1..N -> 1..(2 * N)] /\ new \in [1..N -> 1..(2 * N)]
    BY <1>1
  <2>2. \A i \in 1..N : old[i] = i /\ new[i] = N + i
    OBVIOUS
  <2> HIDE DEF N, old, new
  <2>3. \A S : \A f \in [1..N -> S] : f \in Seq(S) /\ Len(f) = N
    BY <1>1, SeqDef
  <2> QED BY <2>1, <2>3
<1>4. Leakage = Allocates(up) \o Frees(old) \o Allocates(down) \o Compares \o Frees(new)
  BY DEF Leakage
<1>5. \A i \in 1..N : /\ up[i] = STEP * i - 1 /\ down[i] = STEP * (N - i + 1) - 1
                      /\ old[i] = i /\ new[i] = N + i
  OBVIOUS
<1> HIDE DEF N, up, down, old, new, Small
<1>6. 2 * N \in Nat
  BY <1>1
<1> DEFINE a == Allocates(up)
           b == Frees(old)
           c == Allocates(down)
           d == Frees(new)
<1>7. /\ a \in Seq(Statements) /\ Len(a) = N /\ b \in Seq(Statements) /\ Len(b) = N
      /\ c \in Seq(Statements) /\ Len(c) = N /\ d \in Seq(Statements) /\ Len(d) = N
      /\ \A i \in 1..N : /\ a[i] = [do |-> "alloc", bytes |-> up[i]]
                         /\ b[i] = [do |-> "free", which |-> old[i]]
                         /\ c[i] = [do |-> "alloc", bytes |-> down[i]]
                         /\ d[i] = [do |-> "free", which |-> new[i]]
  <2>1. /\ Allocates(up) \in Seq(Statements) /\ Len(Allocates(up)) = N
        /\ \A i \in 1..N : Allocates(up)[i] = [do |-> "alloc", bytes |-> up[i]]
    BY <1>2, AllocatesAt DEF Small
  <2>2. /\ Allocates(down) \in Seq(Statements) /\ Len(Allocates(down)) = N
        /\ \A i \in 1..N : Allocates(down)[i] = [do |-> "alloc", bytes |-> down[i]]
    BY <1>2, AllocatesAt DEF Small
  <2>3. /\ Frees(old) \in Seq(Statements) /\ Len(Frees(old)) = N
        /\ \A i \in 1..N : Frees(old)[i] = [do |-> "free", which |-> old[i]]
    BY <1>3, <1>6, FreesAt
  <2>4. /\ Frees(new) \in Seq(Statements) /\ Len(Frees(new)) = N
        /\ \A i \in 1..N : Frees(new)[i] = [do |-> "free", which |-> new[i]]
    BY <1>3, <1>6, FreesAt
  <2> QED BY <2>1, <2>2, <2>3, <2>4
<1> HIDE DEF a, b, c, d
<1>8. Compares \in Seq(Statements) /\ Len(Compares) = 1 /\ Compares[1] = [do |-> "compare"]
  BY LooksAt
<1> DEFINE ab == a \o b
           abc == ab \o c
           abcd == abc \o Compares
           all == abcd \o d
<1>9. /\ ab \in Seq(Statements) /\ Len(ab) = 2 * N
      /\ \A n \in 1..(N) : ab[n] = a[n]
      /\ \A n \in 1..N : ab[N + n] = b[n]
  <2>1. a \in Seq(Statements) /\ b \in Seq(Statements) /\ Len(a) = N /\ Len(b) = N
    BY <1>7, <1>7
  <2> HIDE DEF ab
  <2>2. /\ ab \in Seq(Statements) /\ Len(ab) = Len(a) + Len(b)
        /\ \A n \in 1..Len(a) : ab[n] = a[n]
        /\ \A n \in 1..Len(b) : ab[Len(a) + n] = b[n]
    BY <2>1, PiecesAt DEF ab
  <2> QED BY <1>1, <2>1, <2>2
<1> HIDE DEF ab
<1>10. /\ abc \in Seq(Statements) /\ Len(abc) = 3 * N
       /\ \A n \in 1..(2 * N) : abc[n] = ab[n]
       /\ \A n \in 1..N : abc[2 * N + n] = c[n]
  <2>1. ab \in Seq(Statements) /\ c \in Seq(Statements) /\ Len(ab) = 2 * N /\ Len(c) = N
    BY <1>9, <1>7
  <2> HIDE DEF abc
  <2>2. /\ abc \in Seq(Statements) /\ Len(abc) = Len(ab) + Len(c)
        /\ \A n \in 1..Len(ab) : abc[n] = ab[n]
        /\ \A n \in 1..Len(c) : abc[Len(ab) + n] = c[n]
    BY <2>1, PiecesAt DEF abc
  <2> QED BY <1>1, <2>1, <2>2
<1> HIDE DEF abc
<1>11. /\ abcd \in Seq(Statements) /\ Len(abcd) = 3 * N + 1
       /\ \A n \in 1..(3 * N) : abcd[n] = abc[n]
       /\ abcd[3 * N + 1] = Compares[1]
  <2>1. abc \in Seq(Statements) /\ Compares \in Seq(Statements) /\ Len(abc) = 3 * N
        /\ Len(Compares) = 1
    BY <1>10, <1>8
  <2> HIDE DEF abcd
  <2>2. /\ abcd \in Seq(Statements) /\ Len(abcd) = Len(abc) + Len(Compares)
        /\ \A n \in 1..Len(abc) : abcd[n] = abc[n]
        /\ \A n \in 1..Len(Compares) : abcd[Len(abc) + n] = Compares[n]
    BY <2>1, PiecesAt DEF abcd
  <2> QED BY <1>1, <2>1, <2>2
<1> HIDE DEF abcd
<1>12. /\ all \in Seq(Statements) /\ Len(all) = 4 * N + 1
       /\ \A n \in 1..(3 * N + 1) : all[n] = abcd[n]
       /\ \A n \in 1..N : all[3 * N + 1 + n] = d[n]
  <2>1. abcd \in Seq(Statements) /\ d \in Seq(Statements) /\ Len(abcd) = 3 * N + 1 /\ Len(d) = N
    BY <1>11, <1>7
  <2> HIDE DEF all
  <2>2. /\ all \in Seq(Statements) /\ Len(all) = Len(abcd) + Len(d)
        /\ \A n \in 1..Len(abcd) : all[n] = abcd[n]
        /\ \A n \in 1..Len(d) : all[Len(abcd) + n] = d[n]
    BY <2>1, PiecesAt DEF all
  <2> QED BY <1>1, <2>1, <2>2
<1> HIDE DEF all
<1>13. Leakage = all
  BY <1>4 DEF all, abcd, abc, ab, a, b, c, d
<1>14. ASSUME NEW n \in 1..N
       PROVE  /\ all[n] = a[n] /\ all[N + n] = b[n] /\ all[2 * N + n] = c[n]
              /\ all[3 * N + 1 + n] = d[n]
  <2>1. n \in 1..(2 * N) /\ n \in 1..(3 * N) /\ n \in 1..(3 * N + 1)
    BY <1>1
  <2>2. N + n \in 1..(2 * N) /\ N + n \in 1..(3 * N) /\ N + n \in 1..(3 * N + 1)
    BY <1>1
  <2>3. 2 * N + n \in 1..(3 * N) /\ 2 * N + n \in 1..(3 * N + 1)
    BY <1>1
  <2> QED BY <1>9, <1>10, <1>11, <1>12, <2>1, <2>2, <2>3
<1>15. all[3 * N + 1] = [do |-> "compare"]
  <2>1. 3 * N + 1 \in 1..(3 * N + 1) /\ 1 \in 1..1
    BY <1>1
  <2> QED BY <1>8, <1>11, <1>12, <2>1
<1>16. Len(all) = 4 * N + 1
  BY <1>1, <1>12
<1>17. ASSUME NEW n \in 1..N
       PROVE  /\ all[n] = [do |-> "alloc", bytes |-> STEP * n - 1]
              /\ all[N + n] = [do |-> "free", which |-> n]
              /\ all[2 * N + n] = [do |-> "alloc", bytes |-> STEP * (N - n + 1) - 1]
              /\ all[3 * N + 1 + n] = [do |-> "free", which |-> N + n]
  <2>1. up[n] = STEP * n - 1 /\ down[n] = STEP * (N - n + 1) - 1 /\ old[n] = n /\ new[n] = N + n
    BY <1>5
  <2>2. /\ all[n] = [do |-> "alloc", bytes |-> up[n]]
        /\ all[N + n] = [do |-> "free", which |-> old[n]]
        /\ all[2 * N + n] = [do |-> "alloc", bytes |-> down[n]]
        /\ all[3 * N + 1 + n] = [do |-> "free", which |-> new[n]]
    BY <1>7, <1>14
  <2> QED BY <2>1, <2>2
<1> QED BY <1>12, <1>13, <1>15, <1>16, <1>17 DEF N

\* A piece of one statement after another piece.
LEMMA OneMoreAt ==
  ASSUME NEW s \in Seq(Statements), NEW t \in Seq(Statements), Len(t) = 1
  PROVE  /\ s \o t \in Seq(Statements) /\ Len(s \o t) = Len(s) + 1
         /\ \A n \in 1..Len(s) : (s \o t)[n] = s[n]
         /\ (s \o t)[Len(s) + 1] = t[1]
<1>1. 1 \in 1..Len(t)
  OBVIOUS
<1>2. /\ s \o t \in Seq(Statements) /\ Len(s \o t) = Len(s) + Len(t)
      /\ \A n \in 1..Len(s) : (s \o t)[n] = s[n]
      /\ \A n \in 1..Len(t) : (s \o t)[Len(s) + n] = t[n]
  BY PiecesAt
<1>3. (s \o t)[Len(s) + 1] = t[1]
  BY <1>1, <1>2
<1> QED BY <1>2, <1>3

\* The statements of the test of coalescing.
LEMMA CoalescingAt ==
  ASSUME SaneTests
  PROVE  /\ Coalescing \in Seq(Statements) /\ Len(Coalescing) = 22
         /\ \A n \in 1..9 : Coalescing[n] = [do |-> "alloc", bytes |-> 32]
         /\ \A n \in 1..4 : Coalescing[10 + n] = [do |-> "free", which |-> <<2, 4, 6, 8>>[n]]
         /\ \A n \in 1..2 : Coalescing[15 + n] = [do |-> "free", which |-> <<3, 7>>[n]]
         /\ \A n \in 1..3 : Coalescing[18 + n] = [do |-> "free", which |-> <<1, 5, 9>>[n]]
         /\ Coalescing[10] = [do |-> "count", stage |-> 1]
         /\ Coalescing[15] = [do |-> "count", stage |-> 2]
         /\ Coalescing[18] = [do |-> "count", stage |-> 3]
         /\ Coalescing[22] = [do |-> "count", stage |-> 4]
<1> DEFINE nine == [i \in 1..9 |-> 32]
           a == Allocates(nine)
           f1 == Frees(<<2, 4, 6, 8>>)
           f2 == Frees(<<3, 7>>)
           f3 == Frees(<<1, 5, 9>>)
           c1 == Counts(1)
           c2 == Counts(2)
           c3 == Counts(3)
           c4 == Counts(4)
           look1 == [do |-> "count", stage |-> 1]
           look2 == [do |-> "count", stage |-> 2]
           look3 == [do |-> "count", stage |-> 3]
           look4 == [do |-> "count", stage |-> 4]
<1>1. a \in Seq(Statements) /\ Len(a) = 9 /\ \A n \in 1..9 : a[n] = [do |-> "alloc", bytes |-> 32]
  <2>1. 32 \in {n \in Nat : n + 16 <= WORD}
    BY MemAssumption DEF SaneTests
  <2>2. /\ nine \in Seq({n \in Nat : n + 16 <= WORD}) /\ Len(nine) = 9
        /\ \A n \in 1..9 : nine[n] = 32
    BY <2>1
  <2> HIDE DEF nine
  <2>3. /\ Allocates(nine) \in Seq(Statements) /\ Len(Allocates(nine)) = Len(nine)
        /\ \A i \in 1..Len(nine) : Allocates(nine)[i] = [do |-> "alloc", bytes |-> nine[i]]
    BY <2>2, AllocatesAt
  <2> QED BY <2>2, <2>3
<1>2. /\ f1 \in Seq(Statements) /\ Len(f1) = 4
      /\ \A n \in 1..4 : f1[n] = [do |-> "free", which |-> <<2, 4, 6, 8>>[n]]
  <2>1. <<2, 4, 6, 8>> \in Seq(1..9) /\ Len(<<2, 4, 6, 8>>) = 4
    OBVIOUS
  <2> QED BY <2>1, FreesAt
<1>3. /\ f2 \in Seq(Statements) /\ Len(f2) = 2
      /\ \A n \in 1..2 : f2[n] = [do |-> "free", which |-> <<3, 7>>[n]]
  <2>1. <<3, 7>> \in Seq(1..9) /\ Len(<<3, 7>>) = 2
    OBVIOUS
  <2> QED BY <2>1, FreesAt
<1>4. /\ f3 \in Seq(Statements) /\ Len(f3) = 3
      /\ \A n \in 1..3 : f3[n] = [do |-> "free", which |-> <<1, 5, 9>>[n]]
  <2>1. <<1, 5, 9>> \in Seq(1..9) /\ Len(<<1, 5, 9>>) = 3
    OBVIOUS
  <2> QED BY <2>1, FreesAt
<1>5. /\ c1 \in Seq(Statements) /\ Len(c1) = 1 /\ c1[1] = look1
      /\ c2 \in Seq(Statements) /\ Len(c2) = 1 /\ c2[1] = look2
      /\ c3 \in Seq(Statements) /\ Len(c3) = 1 /\ c3[1] = look3
      /\ c4 \in Seq(Statements) /\ Len(c4) = 1 /\ c4[1] = look4
  <2>1. \A stage \in 1..4 : /\ Counts(stage) \in Seq(Statements) /\ Len(Counts(stage)) = 1
                            /\ Counts(stage)[1] = [do |-> "count", stage |-> stage]
    BY LooksAt
  <2> QED BY <2>1
<1>6. Coalescing = a \o c1 \o f1 \o c2 \o f2 \o c3 \o f3 \o c4
  BY DEF Coalescing
<1> HIDE DEF nine, a, f1, f2, f3, c1, c2, c3, c4
<1> DEFINE s1 == a \o c1
<1>7. /\ s1 \in Seq(Statements) /\ Len(s1) = 10
      /\ \A n \in 1..9 : s1[n] = a[n]
      /\ s1[10] = look1
  <2>1. a \in Seq(Statements) /\ Len(a) = 9 /\ 9 \in Nat
    BY <1>1
  <2> HIDE DEF s1, look1, look2, look3, look4
  <2>2. /\ s1 \in Seq(Statements) /\ Len(s1) = Len(a) + 1
        /\ \A n \in 1..Len(a) : s1[n] = a[n]
        /\ s1[Len(a) + 1] = c1[1]
    BY <1>5, <2>1, OneMoreAt DEF s1
  <2> QED BY <1>5, <2>1, <2>2
<1> HIDE DEF s1
<1> DEFINE s2 == s1 \o f1
<1>8. /\ s2 \in Seq(Statements) /\ Len(s2) = 14
      /\ \A n \in 1..10 : s2[n] = s1[n]
      /\ \A n \in 1..4 : s2[10 + n] = f1[n]
  <2>1. s1 \in Seq(Statements) /\ f1 \in Seq(Statements) /\ Len(s1) = 10 /\ Len(f1) = 4
    BY <1>7, <1>2
  <2> HIDE DEF s2
  <2>2. /\ s2 \in Seq(Statements) /\ Len(s2) = Len(s1) + Len(f1)
        /\ \A n \in 1..Len(s1) : s2[n] = s1[n]
        /\ \A n \in 1..Len(f1) : s2[Len(s1) + n] = f1[n]
    BY <2>1, PiecesAt DEF s2
  <2> QED BY <2>1, <2>2
<1> HIDE DEF s2
<1> DEFINE s3 == s2 \o c2
<1>9. /\ s3 \in Seq(Statements) /\ Len(s3) = 15
      /\ \A n \in 1..14 : s3[n] = s2[n]
      /\ s3[15] = look2
  <2>1. s2 \in Seq(Statements) /\ Len(s2) = 14 /\ 14 \in Nat
    BY <1>8
  <2> HIDE DEF s3, look1, look2, look3, look4
  <2>2. /\ s3 \in Seq(Statements) /\ Len(s3) = Len(s2) + 1
        /\ \A n \in 1..Len(s2) : s3[n] = s2[n]
        /\ s3[Len(s2) + 1] = c2[1]
    BY <1>5, <2>1, OneMoreAt DEF s3
  <2> QED BY <1>5, <2>1, <2>2
<1> HIDE DEF s3
<1> DEFINE s4 == s3 \o f2
<1>10. /\ s4 \in Seq(Statements) /\ Len(s4) = 17
       /\ \A n \in 1..15 : s4[n] = s3[n]
       /\ \A n \in 1..2 : s4[15 + n] = f2[n]
  <2>1. s3 \in Seq(Statements) /\ f2 \in Seq(Statements) /\ Len(s3) = 15 /\ Len(f2) = 2
    BY <1>9, <1>3
  <2> HIDE DEF s4
  <2>2. /\ s4 \in Seq(Statements) /\ Len(s4) = Len(s3) + Len(f2)
        /\ \A n \in 1..Len(s3) : s4[n] = s3[n]
        /\ \A n \in 1..Len(f2) : s4[Len(s3) + n] = f2[n]
    BY <2>1, PiecesAt DEF s4
  <2> QED BY <2>1, <2>2
<1> HIDE DEF s4
<1> DEFINE s5 == s4 \o c3
<1>11. /\ s5 \in Seq(Statements) /\ Len(s5) = 18
       /\ \A n \in 1..17 : s5[n] = s4[n]
       /\ s5[18] = look3
  <2>1. s4 \in Seq(Statements) /\ Len(s4) = 17 /\ 17 \in Nat
    BY <1>10
  <2> HIDE DEF s5, look1, look2, look3, look4
  <2>2. /\ s5 \in Seq(Statements) /\ Len(s5) = Len(s4) + 1
        /\ \A n \in 1..Len(s4) : s5[n] = s4[n]
        /\ s5[Len(s4) + 1] = c3[1]
    BY <1>5, <2>1, OneMoreAt DEF s5
  <2> QED BY <1>5, <2>1, <2>2
<1> HIDE DEF s5
<1> DEFINE s6 == s5 \o f3
<1>12. /\ s6 \in Seq(Statements) /\ Len(s6) = 21
       /\ \A n \in 1..18 : s6[n] = s5[n]
       /\ \A n \in 1..3 : s6[18 + n] = f3[n]
  <2>1. s5 \in Seq(Statements) /\ f3 \in Seq(Statements) /\ Len(s5) = 18 /\ Len(f3) = 3
    BY <1>11, <1>4
  <2> HIDE DEF s6
  <2>2. /\ s6 \in Seq(Statements) /\ Len(s6) = Len(s5) + Len(f3)
        /\ \A n \in 1..Len(s5) : s6[n] = s5[n]
        /\ \A n \in 1..Len(f3) : s6[Len(s5) + n] = f3[n]
    BY <2>1, PiecesAt DEF s6
  <2> QED BY <2>1, <2>2
<1> HIDE DEF s6
<1> DEFINE s7 == s6 \o c4
<1>13. /\ s7 \in Seq(Statements) /\ Len(s7) = 22
       /\ \A n \in 1..21 : s7[n] = s6[n]
       /\ s7[22] = look4
  <2>1. s6 \in Seq(Statements) /\ Len(s6) = 21 /\ 21 \in Nat
    BY <1>12
  <2> HIDE DEF s7
  <2>2. /\ s7 \in Seq(Statements) /\ Len(s7) = Len(s6) + 1
        /\ \A n \in 1..Len(s6) : s7[n] = s6[n]
        /\ s7[Len(s6) + 1] = c4[1]
    BY <1>5, <2>1, OneMoreAt DEF s7
  <2> QED BY <1>5, <2>1, <2>2
<1> HIDE DEF s7
<1>14. Coalescing = s7
  BY <1>6 DEF s1, s2, s3, s4, s5, s6, s7
<1>15. ASSUME NEW n \in 1..9 PROVE s7[n] = a[n]
  <2>1. n \in 1..10 /\ n \in 1..14 /\ n \in 1..15 /\ n \in 1..17 /\ n \in 1..18 /\ n \in 1..21
    OBVIOUS
  <2>2. s3[n] = a[n]
    BY <1>7, <1>8, <1>9, <2>1
  <2>3. s5[n] = s3[n]
    BY <1>10, <1>11, <2>1
  <2>4. s7[n] = s5[n]
    BY <1>12, <1>13, <2>1
  <2> QED BY <2>2, <2>3, <2>4
<1>16. ASSUME NEW n \in 1..4 PROVE s7[10 + n] = f1[n]
  <2> DEFINE k == 10 + n
  <2>1. k \in 1..14 /\ k \in 1..15 /\ k \in 1..17 /\ k \in 1..18 /\ k \in 1..21
    OBVIOUS
  <2>2. s2[k] = f1[n]
    BY <1>8
  <2> HIDE DEF k
  <2>3. s5[k] = s2[k]
    BY <1>9, <1>10, <1>11, <2>1
  <2>4. s7[k] = s5[k]
    BY <1>12, <1>13, <2>1
  <2> QED BY <2>2, <2>3, <2>4 DEF k
<1>17. ASSUME NEW n \in 1..2 PROVE s7[15 + n] = f2[n]
  <2> DEFINE k == 15 + n
  <2>1. k \in 1..17 /\ k \in 1..18 /\ k \in 1..21
    OBVIOUS
  <2>2. s4[k] = f2[n]
    BY <1>10
  <2> HIDE DEF k
  <2>3. s7[k] = f2[n]
    BY <1>11, <1>12, <1>13, <2>1, <2>2
  <2> QED BY <2>3 DEF k
<1>18. ASSUME NEW n \in 1..3 PROVE s7[18 + n] = f3[n]
  <2> DEFINE k == 18 + n
  <2>1. k \in 1..21
    OBVIOUS
  <2>2. s6[k] = f3[n]
    BY <1>12
  <2> HIDE DEF k
  <2>3. s7[k] = f3[n]
    BY <1>13, <2>1, <2>2
  <2> QED BY <2>3 DEF k
<1>19. s7[10] = look1 /\ s7[15] = look2 /\ s7[18] = look3 /\ s7[22] = look4
  <2>1. /\ 10 \in 1..10 /\ 10 \in 1..14 /\ 10 \in 1..15 /\ 10 \in 1..17 /\ 10 \in 1..18
           /\ 10 \in 1..21
        /\ 15 \in 1..15 /\ 15 \in 1..17 /\ 15 \in 1..18 /\ 15 \in 1..21
        /\ 18 \in 1..18 /\ 18 \in 1..21
    OBVIOUS
  <2> HIDE DEF look1, look2, look3, look4
  <2>2. s7[10] = look1
    BY <1>7, <1>8, <1>9, <1>10, <1>11, <1>12, <1>13, <2>1
  <2>3. s7[15] = look2
    BY <1>9, <1>10, <1>11, <1>12, <1>13, <2>1
  <2>4. s7[18] = look3 /\ s7[22] = look4
    BY <1>11, <1>12, <1>13, <2>1
  <2> QED BY <2>2, <2>3, <2>4
<1>20. /\ \A n \in 1..9 : s7[n] = [do |-> "alloc", bytes |-> 32]
       /\ \A n \in 1..4 : s7[10 + n] = [do |-> "free", which |-> <<2, 4, 6, 8>>[n]]
       /\ \A n \in 1..2 : s7[15 + n] = [do |-> "free", which |-> <<3, 7>>[n]]
       /\ \A n \in 1..3 : s7[18 + n] = [do |-> "free", which |-> <<1, 5, 9>>[n]]
  BY <1>1, <1>2, <1>3, <1>4, <1>15, <1>16, <1>17, <1>18
<1> QED BY <1>13, <1>14, <1>19, <1>20

-----------------------------------------------------------------------------
\* Blocks are asked for one after the other, and freed later.
LEMMA PlanOrder ==
  ASSUME test \in {"coalescing", "leakage"}
  PROVE  \A i \in 1..Count : /\ AllocAt(i) \in Nat \ {0} /\ FreedAt(i) \in Nat
                             /\ AllocAt(i) < FreedAt(i)
                             /\ \A j \in 1..Count : j < i => AllocAt(j) < AllocAt(i)
<1>1. CASE test = "coalescing"
  <2>1. Count = 9 /\ \A i \in 1..9 : AllocAt(i) = i /\ FreedAt(i) \in 11..21
    BY <1>1 DEF Count, AllocAt, FreedAt
  <2> QED BY <2>1
<1>2. CASE test = "leakage"
  <2> DEFINE N == BLOCKS
  <2>1. N \in Nat \ {0} /\ Count = 2 * N
    BY <1>2, UnitFacts DEF Count
  <2>2. \A i : /\ AllocAt(i) = IF i <= N THEN i ELSE N + i
               /\ FreedAt(i) = IF i <= N THEN N + i ELSE 2 * N + 1 + i
    BY <1>2 DEF AllocAt, FreedAt
  <2> HIDE DEF N
  <2> QED BY <2>1, <2>2
<1> QED BY <1>1, <1>2

\* What statement n does to the blocks: s asks for a block when all those since the
\* first of its half are held, or frees one, or only looks.
Plan(s, n) ==
  /\ s.do = "alloc" =>
       \E i \in 1..Count :
         /\ AllocAt(i) = n /\ Want(s.bytes) = Width(i)
         /\ \A j \in 1..Count : /\ FreedAt(j) # n
                                /\ AllocAt(j) < n /\ n - 1 < FreedAt(j) <=> Base(i) < j /\ j < i
  /\ s.do = "free" =>
       /\ s.which \in 1..Count /\ FreedAt(s.which) = n
       /\ \A j \in 1..Count : AllocAt(j) # n /\ (FreedAt(j) = n => j = s.which)
  /\ s.do \in {"count", "compare"} => \A j \in 1..Count : AllocAt(j) # n /\ FreedAt(j) # n
  /\ s.do = "count" => /\ test = "coalescing"
                       /\ <<n, s.stage>> \in {<<10, 1>>, <<15, 2>>, <<18, 3>>, <<22, 4>>}
  /\ s.do = "compare" => test = "leakage" /\ n = 3 * BLOCKS + 1

\* The sizes asked for, in units.
LEMMA WidthsWanted ==
  ASSUME SaneTests
  PROVE  /\ Want(32) = 5
         /\ \A i \in 1..BLOCKS : Want(STEP * i - 1) = Unit * i + 1
<1>1. WORD \in Nat /\ 48 <= WORD
  BY MemAssumption DEF SaneTests
<1>2. Want(32) = 5
  <2>1. 32 \in Nat /\ 32 + 16 <= WORD
    BY <1>1
  <2>2. Want(32) = (32 + 7) \div 8 + 1
    BY <2>1, WantFacts
  <2> QED BY <2>2
<1>3. ASSUME NEW i \in 1..BLOCKS PROVE Want(STEP * i - 1) = Unit * i + 1
  <2> DEFINE n == STEP * i - 1
  <2>1. n \in Nat /\ n + 16 <= WORD
    <3> DEFINE up == [j \in 1..BLOCKS |-> STEP * j - 1]
    <3>1. up \in Seq({k \in Nat : k + 16 <= WORD}) /\ Len(up) = BLOCKS
      BY SizesAreSmall
    <3>2. up[i] = n
      OBVIOUS
    <3> HIDE DEF up, n
    <3>3. i \in 1..Len(up)
      BY <3>1
    <3>4. up[i] \in {k \in Nat : k + 16 <= WORD}
      BY <3>1, <3>3, ElementOfSeq
    <3> QED BY <3>2, <3>4
  <2>2. n = 8 * (Unit * i) - 1 /\ Unit * i \in Nat
    BY UnitFacts
  <2> HIDE DEF n
  <2>3. Want(n) = (n + 7) \div 8 + 1
    BY <2>1, WantFacts
  <2>4. \A u \in Nat : (8 * u - 1 + 7) \div 8 = u
    OBVIOUS
  <2>5. \A u \in Nat : n = 8 * u - 1 => (n + 7) \div 8 = u
    OBVIOUS
  <2>6. Want(n) = Unit * i + 1
    BY <2>2, <2>3, <2>5
  <2> QED BY <2>6 DEF n
<1> QED BY <1>2, <1>3

\* The script of the test of coalescing does what is planned.
LEMMA CoalescingPlan ==
  ASSUME SaneTests, test = "coalescing"
  PROVE  Len(Script) = 22 /\ Script \in Seq(Statements) /\ \A n \in 1..22 : Plan(Script[n], n)
<1>1. /\ Count = 9 /\ Script = Coalescing
      /\ \A i \in 1..9 : AllocAt(i) = i /\ Width(i) = 5 /\ Base(i) = 0
      /\ FreedAt(1) = 19 /\ FreedAt(2) = 11 /\ FreedAt(3) = 16 /\ FreedAt(4) = 12 /\ FreedAt(5) = 20
      /\ FreedAt(6) = 13 /\ FreedAt(7) = 17 /\ FreedAt(8) = 14 /\ FreedAt(9) = 21
  BY DEF Count, Script, AllocAt, Width, Base, FreedAt
<1>2. \A j \in 1..9 : FreedAt(j) \in 11..21
  BY <1>1
<1>3. ASSUME NEW n \in 1..9 PROVE Plan(Script[n], n)
  <2>1. Script[n] = [do |-> "alloc", bytes |-> 32]
    BY <1>1, CoalescingAt
  <2>2. Want(32) = Width(n) /\ AllocAt(n) = n /\ n \in 1..Count
    BY <1>1, WidthsWanted
  <2>3. ASSUME NEW j \in 1..Count
        PROVE  FreedAt(j) # n /\ (AllocAt(j) < n /\ n - 1 < FreedAt(j) <=> Base(n) < j /\ j < n)
    BY <1>1, <1>2
  <2> QED BY <2>1, <2>2, <2>3 DEF Plan
<1>4. ASSUME NEW n \in 1..22, NEW k \in 1..9,
             Script[n] = [do |-> "free", which |-> k], FreedAt(k) = n
      PROVE  Plan(Script[n], n)
  <2>1. \A j \in 1..9 : AllocAt(j) # n /\ (FreedAt(j) = n => j = k)
    BY <1>1, <1>2, <1>4
  <2> QED BY <1>1, <1>4, <2>1 DEF Plan
<1>5. ASSUME NEW n \in 1..22, NEW k \in 1..4, Script[n] = [do |-> "count", stage |-> k],
             <<n, k>> \in {<<10, 1>>, <<15, 2>>, <<18, 3>>, <<22, 4>>}
      PROVE  Plan(Script[n], n)
  <2>1. \A j \in 1..9 : AllocAt(j) # n /\ FreedAt(j) # n
    BY <1>1, <1>2, <1>5
  <2> QED BY <1>1, <1>5, <2>1 DEF Plan
<1>6. /\ Script[11] = [do |-> "free", which |-> 2] /\ Script[12] = [do |-> "free", which |-> 4]
      /\ Script[13] = [do |-> "free", which |-> 6] /\ Script[14] = [do |-> "free", which |-> 8]
  <2>1. \A n \in 1..4 : Coalescing[10 + n] = [do |-> "free", which |-> <<2, 4, 6, 8>>[n]]
    BY CoalescingAt
  <2>2. Coalescing[10 + 1] = [do |-> "free", which |-> 2]
        /\ Coalescing[10 + 2] = [do |-> "free", which |-> 4]
    BY <2>1
  <2>3. Coalescing[10 + 3] = [do |-> "free", which |-> 6]
        /\ Coalescing[10 + 4] = [do |-> "free", which |-> 8]
    BY <2>1
  <2> QED BY <1>1, <2>2, <2>3
<1>7. Script[16] = [do |-> "free", which |-> 3] /\ Script[17] = [do |-> "free", which |-> 7]
  <2>1. \A n \in 1..2 : Coalescing[15 + n] = [do |-> "free", which |-> <<3, 7>>[n]]
    BY CoalescingAt
  <2>2. Coalescing[15 + 1] = [do |-> "free", which |-> 3]
        /\ Coalescing[15 + 2] = [do |-> "free", which |-> 7]
    BY <2>1
  <2> QED BY <1>1, <2>2
<1>8. /\ Script[19] = [do |-> "free", which |-> 1] /\ Script[20] = [do |-> "free", which |-> 5]
      /\ Script[21] = [do |-> "free", which |-> 9]
  <2>1. \A n \in 1..3 : Coalescing[18 + n] = [do |-> "free", which |-> <<1, 5, 9>>[n]]
    BY CoalescingAt
  <2>2. Coalescing[18 + 1] = [do |-> "free", which |-> 1]
        /\ Coalescing[18 + 2] = [do |-> "free", which |-> 5]
    BY <2>1
  <2>3. Coalescing[18 + 3] = [do |-> "free", which |-> 9]
    BY <2>1
  <2> QED BY <1>1, <2>2, <2>3
<1>9. /\ Plan(Script[11], 11) /\ Plan(Script[12], 12) /\ Plan(Script[13], 13)
         /\ Plan(Script[14], 14)
  BY <1>1, <1>4, <1>6
<1>10. Plan(Script[16], 16) /\ Plan(Script[17], 17)
  BY <1>1, <1>4, <1>7
<1>11. Plan(Script[19], 19) /\ Plan(Script[20], 20) /\ Plan(Script[21], 21)
  BY <1>1, <1>4, <1>8
<1>12. Plan(Script[10], 10) /\ Plan(Script[15], 15) /\ Plan(Script[18], 18) /\ Plan(Script[22], 22)
  <2>1. /\ Script[10] = [do |-> "count", stage |-> 1] /\ Script[15] = [do |-> "count", stage |-> 2]
        /\ Script[18] = [do |-> "count", stage |-> 3] /\ Script[22] = [do |-> "count", stage |-> 4]
    BY <1>1, CoalescingAt
  <2> QED BY <1>5, <2>1
<1>13. \A n \in 1..22 : n \in 1..9 \/ n \in {10, 15, 18, 22} \/ n \in {11, 12, 13, 14}
                        \/ n \in {16, 17} \/ n \in {19, 20, 21}
  OBVIOUS
<1>14. \A n \in 1..22 : Plan(Script[n], n)
  BY <1>3, <1>9, <1>10, <1>11, <1>12, <1>13
<1> QED BY <1>1, <1>14, CoalescingAt

\* And that of the leakage test.
LEMMA LeakagePlan ==
  ASSUME SaneTests, test = "leakage"
  PROVE  /\ Len(Script) = 4 * BLOCKS + 1 /\ Script \in Seq(Statements)
         /\ \A n \in 1..(4 * BLOCKS + 1) : Plan(Script[n], n)
<1> DEFINE N == BLOCKS
<1>1. N \in Nat \ {0} /\ Count = 2 * N /\ Script = Leakage
  BY UnitFacts DEF Count, Script
<1>2. \A i : /\ AllocAt(i) = IF i <= N THEN i ELSE N + i
             /\ FreedAt(i) = IF i <= N THEN N + i ELSE 2 * N + 1 + i
             /\ Width(i) = IF i <= N THEN Unit * i + 1 ELSE Unit * (2 * N - i + 1) + 1
             /\ Base(i) = IF i > N THEN N ELSE 0
  BY DEF AllocAt, FreedAt, Width, Base
<1>3. /\ Leakage \in Seq(Statements) /\ Len(Leakage) = 4 * N + 1
      /\ \A n \in 1..N : /\ Leakage[n] = [do |-> "alloc", bytes |-> STEP * n - 1]
                         /\ Leakage[N + n] = [do |-> "free", which |-> n]
                         /\ Leakage[2 * N + n] = [do |-> "alloc", bytes |-> STEP * (N - n + 1) - 1]
                         /\ Leakage[3 * N + 1 + n] = [do |-> "free", which |-> N + n]
      /\ Leakage[3 * N + 1] = [do |-> "compare"]
  BY LeakageAt
<1>4. \A i \in 1..N : Want(STEP * i - 1) = Unit * i + 1
  BY WidthsWanted
<1> HIDE DEF N
<1>5. ASSUME NEW n \in 1..N PROVE Plan(Script[n], n)
  <2>1. Script[n] = [do |-> "alloc", bytes |-> STEP * n - 1]
    BY <1>1, <1>3
  <2>2. Want(STEP * n - 1) = Width(n) /\ AllocAt(n) = n /\ n \in 1..Count
    BY <1>1, <1>2, <1>4
  <2>3. ASSUME NEW j \in 1..Count
        PROVE  FreedAt(j) # n /\ (AllocAt(j) < n /\ n - 1 < FreedAt(j) <=> Base(n) < j /\ j < n)
    BY <1>1, <1>2
  <2> QED BY <2>1, <2>2, <2>3 DEF Plan
<1>6. ASSUME NEW n \in 1..N PROVE Plan(Script[N + n], N + n)
  <2>1. Script[N + n] = [do |-> "free", which |-> n]
    BY <1>1, <1>3
  <2>2. n \in 1..Count /\ FreedAt(n) = N + n
    BY <1>1, <1>2
  <2>3. ASSUME NEW j \in 1..Count PROVE AllocAt(j) # N + n /\ (FreedAt(j) = N + n => j = n)
    BY <1>1, <1>2
  <2> QED BY <2>1, <2>2, <2>3 DEF Plan
<1>7. ASSUME NEW n \in 1..N PROVE Plan(Script[2 * N + n], 2 * N + n)
  <2> DEFINE i == N + n
             m == N - n + 1
  <2>1. Script[2 * N + n] = [do |-> "alloc", bytes |-> STEP * m - 1]
    BY <1>1, <1>3
  <2>2. m \in 1..N /\ 2 * N - i + 1 = m /\ i \in 1..Count /\ ~(i <= N)
    BY <1>1
  <2>3. Want(STEP * m - 1) = Unit * m + 1
    BY <1>4, <2>2
  <2>4. AllocAt(i) = 2 * N + n
    BY <1>1, <1>2, <2>2
  <2>5. Width(i) = Unit * m + 1
    <3> HIDE DEF i, m
    <3> QED BY <1>2, <2>2
  <2>6. ASSUME NEW j \in 1..Count
        PROVE  /\ FreedAt(j) # 2 * N + n
               /\ AllocAt(j) < 2 * N + n /\ (2 * N + n) - 1 < FreedAt(j) <=> Base(i) < j /\ j < i
    BY <1>1, <1>2
  <2> HIDE DEF m, i
  <2> QED BY <2>1, <2>2, <2>3, <2>4, <2>5, <2>6 DEF Plan
<1>8. ASSUME NEW n \in 1..N PROVE Plan(Script[3 * N + 1 + n], 3 * N + 1 + n)
  <2>1. Script[3 * N + 1 + n] = [do |-> "free", which |-> N + n]
    BY <1>1, <1>3
  <2>2. N + n \in 1..Count /\ FreedAt(N + n) = 3 * N + 1 + n
    BY <1>1, <1>2
  <2>3. ASSUME NEW j \in 1..Count
        PROVE  AllocAt(j) # 3 * N + 1 + n /\ (FreedAt(j) = 3 * N + 1 + n => j = N + n)
    BY <1>1, <1>2
  <2> QED BY <2>1, <2>2, <2>3 DEF Plan
<1>9. Plan(Script[3 * N + 1], 3 * N + 1)
  <2>1. Script[3 * N + 1] = [do |-> "compare"]
    BY <1>1, <1>3
  <2>2. ASSUME NEW j \in 1..Count PROVE AllocAt(j) # 3 * N + 1 /\ FreedAt(j) # 3 * N + 1
    BY <1>1, <1>2
  <2> QED BY <2>1, <2>2 DEF Plan, N
<1>10. ASSUME NEW n \in 1..(4 * N + 1) PROVE Plan(Script[n], n)
  <2>1. CASE n <= N
    BY <1>1, <1>5, <2>1
  <2>2. CASE N < n /\ n <= 2 * N
    <3> DEFINE k == n - N
    <3>1. k \in 1..N /\ N + k = n
      BY <1>1, <2>2
    <3> HIDE DEF k
    <3> QED BY <1>6, <3>1
  <2>3. CASE 2 * N < n /\ n <= 3 * N
    <3> DEFINE k == n - 2 * N
    <3>1. k \in 1..N /\ 2 * N + k = n
      BY <1>1, <2>3
    <3> HIDE DEF k
    <3> QED BY <1>7, <3>1
  <2>4. CASE n = 3 * N + 1
    BY <1>9, <2>4
  <2>5. CASE 3 * N + 1 < n
    <3> DEFINE k == n - (3 * N + 1)
    <3>1. k \in 1..N /\ 3 * N + 1 + k = n
      BY <1>1, <2>5
    <3> HIDE DEF k
    <3> QED BY <1>8, <3>1
  <2> QED BY <1>1, <2>1, <2>2, <2>3, <2>4, <2>5
<1> QED BY <1>1, <1>3, <1>10 DEF N

-----------------------------------------------------------------------------
\* The blocks of a half of a test do not overlap.
LEMMA OffsetsGrow ==
  ASSUME test \in {"coalescing", "leakage"}, NEW i \in 1..Count
  PROVE  \A j \in 1..Count :
           Base(i) < j /\ j < i => Base(j) = Base(i) /\ Offset(j) + Width(j) <= Offset(i)
<1> DEFINE Grows(n) == \A j \in 1..Count : Base(n) < j /\ j < n =>
                         Base(j) = Base(n) /\ Offset(j) + Width(j) <= Offset(n)
           S == {n \in Nat : n \in 1..Count => Grows(n)}
<1>1. Count \in Nat \ {0} /\ \A k \in 1..Count : /\ Width(k) \in Nat \ {0} /\ Offset(k) \in Nat
                                                 /\ Base(k) \in 0..(k - 1)
  BY PlanFacts
<1>2. ASSUME NEW n \in Nat, n \in S, n + 1 \in 1..Count PROVE Grows(n + 1)
  <2> DEFINE k == n + 1
  <2>1. k \in 1..Count /\ k - 1 = n
    BY <1>2
  <2> HIDE DEF k
  <2>2. CASE k = Base(k) + 1
    <3>1. \A j \in 1..Count : ~(Base(k) < j /\ j < k)
      BY <1>1, <2>1, <2>2
    <3> QED BY <3>1 DEF k
  <2>3. CASE k # Base(k) + 1
    <3>1. n \in 1..Count /\ Base(n) = Base(k) /\ Offset(k) = Offset(n) + Width(n)
      BY <2>1, <2>3, PlanFacts
    <3>2. Grows(n)
      BY <1>2, <3>1
    <3>3. ASSUME NEW j \in 1..Count, Base(k) < j, j < k
          PROVE  Base(j) = Base(k) /\ Offset(j) + Width(j) <= Offset(k)
      <4>1. CASE j = n
        BY <1>1, <3>1, <4>1
      <4>2. CASE j # n
        <5>1. j < n
          BY <2>1, <3>3, <4>2
        <5>2. Base(j) = Base(n) /\ Offset(j) + Width(j) <= Offset(n)
          BY <3>1, <3>2, <3>3, <5>1
        <5> QED BY <1>1, <3>1, <5>2
      <4> QED BY <4>1, <4>2
    <3> QED BY <3>3 DEF k
  <2> QED BY <2>2, <2>3
<1>3. 0 \in S
  OBVIOUS
<1> HIDE DEF Grows
<1>4. \A n \in Nat : n \in S => n + 1 \in S
  BY <1>2
<1>5. Nat \subseteq S
  <2> HIDE DEF S
  <2> QED BY <1>3, <1>4, NatSetInduction
<1>6. Grows(i)
  BY <1>5
<1> QED BY <1>6 DEF Grows

\* Where a block of a test begins and ends.
LEMMA AtFacts ==
  ASSUME IInv, test \in {"coalescing", "leakage"}
  PROVE  /\ head \in Nat \ {0} /\ head <= MEM /\ END \in Nat /\ END = MEM + 1
         /\ Room \in Nat \ {0} /\ END = head + Room
         /\ \A i \in 1..Count :
              /\ At(i) \in Nat \ {0} /\ head <= At(i) /\ Width(i) \in Nat \ {0}
              /\ Fits(i) <=> At(i) + Width(i) <= END
              /\ \A j \in 1..Count : Base(i) < j /\ j < i =>
                   /\ Base(j) = Base(i) /\ At(j) + Width(j) <= At(i) /\ (Fits(i) => Fits(j))
<1>1. head \in Nat \ {0} /\ head <= MEM /\ MEM \in Nat /\ END = MEM + 1
  BY MemNat DEF IInv, HeapInv
<1>2. Room \in Nat \ {0} /\ END = head + Room
  BY <1>1 DEF Room
<1>3. \A i \in 1..Count : Width(i) \in Nat \ {0} /\ Offset(i) \in Nat
  BY PlanFacts
<1>4. \A i \in 1..Count : At(i) = head + Offset(i) /\ (Fits(i) <=> Offset(i) + Width(i) <= Room)
  BY DEF At, Fits
<1> QED BY <1>1, <1>2, <1>3, <1>4, OffsetsGrow

\* The blocks before a block, all held, leave no room below it.
LEMMA NoFreeBelow ==
  ASSUME IInv, test \in {"coalescing", "leakage"}, NEW i \in 1..Count,
         \A j \in 1..Count : Base(i) < j /\ j < i => At(j) \in Allocated /\ size[At(j)] = Width(j)
  PROVE  \A f \in FreeBlocks : At(i) <= f
<1> DEFINE None(k) == \A f \in FreeBlocks : At(k) <= f
           S == {k \in Nat : k \in 1..Count /\ Base(i) < k /\ k <= i => None(k)}
<1>1. /\ head \in Nat /\ FreeBlocks \subseteq head..MEM /\ MEM \in Nat
      /\ \A k \in 1..Count : At(k) \in Nat /\ Width(k) \in Nat /\ Base(k) \in 0..(k - 1)
      /\ Base(i) \in 0..(i - 1)
  BY BlockFacts, AtFacts, PlanFacts DEF IInv, Addresses
<1>2. ASSUME NEW n \in Nat, n \in S, n + 1 \in 1..Count, Base(i) < n + 1, n + 1 <= i
      PROVE  None(n + 1)
  <2> DEFINE k == n + 1
  <2>1. k \in 1..Count /\ k - 1 = n /\ Base(i) < k /\ k <= i
    BY <1>2
  <2> HIDE DEF k
  <2>2. Base(k) = Base(i)
    BY <1>1, <2>1, OffsetsGrow
  <2>3. CASE k = Base(k) + 1
    <3>1. At(k) = head
      BY <1>1, <2>1, <2>3, PlanFacts DEF At
    <3>2. None(k)
      BY <1>1, <3>1
    <3> QED BY <3>2 DEF k
  <2>4. CASE k # Base(k) + 1
    <3>1. n \in 1..Count /\ Offset(k) = Offset(n) + Width(n) /\ Offset(n) \in Nat
          /\ Width(n) \in Nat
      BY <2>1, <2>4, PlanFacts
    <3>2. Base(i) < n /\ n < i
      BY <1>1, <2>1, <2>2, <2>4
    <3>3. At(k) = At(n) + Width(n)
      BY <1>1, <3>1 DEF At
    <3>4. At(n) \in Allocated /\ size[At(n)] = Width(n)
      BY <3>1, <3>2
    <3>5. None(n)
      BY <1>2, <3>1, <3>2
    <3>6. ASSUME NEW f \in FreeBlocks PROVE At(k) <= f
      <4>1. ~(At(n) <= f /\ f < At(n) + size[At(n)])
        BY <3>4, Inside
      <4>2. At(n) <= f /\ f \in Nat
        BY <1>1, <3>5
      <4> QED BY <1>1, <3>1, <3>3, <3>4, <4>1, <4>2
    <3> QED BY <3>6 DEF k
  <2> QED BY <2>3, <2>4
<1>3. 0 \in S
  OBVIOUS
<1> HIDE DEF None
<1>4. \A n \in Nat : n \in S => n + 1 \in S
  BY <1>2
<1>5. Nat \subseteq S
  <2> HIDE DEF S
  <2> QED BY <1>3, <1>4, NatSetInduction
<1>6. None(i)
  BY <1>1, <1>5
<1> QED BY <1>6 DEF None

\* When a test asks for its next block, what is free is what is left of the memory,
\* and that is enough for the block exactly if the block fits.
LEMMA NextBlock ==
  ASSUME IInv, test \in {"coalescing", "leakage"}, NEW i \in 1..Count, NEW H,
         H = {j \in 1..Count : Base(i) < j /\ j < i /\ Fits(j)},
         Allocated = {At(j) : j \in H}, \A j \in H : size[At(j)] = Width(j),
         test = "leakage" => \A j \in 1..Count : j < i => Fits(j)
  PROVE  /\ Fits(i) => /\ At(i) \in FreeBlocks /\ Width(i) <= size[At(i)]
                       /\ \A f \in FreeBlocks : f = At(i)
         /\ ~Fits(i) => \A f \in FreeBlocks : size[f] < Width(i)
<1>1. /\ head \in Nat /\ END \in Nat /\ MEM \in Nat /\ END = MEM + 1
      /\ \A k \in 1..Count : /\ At(k) \in Nat /\ Width(k) \in Nat \ {0} /\ Base(k) \in 0..(k - 1)
                             /\ Fits(k) <=> At(k) + Width(k) <= END
                             /\ \A j \in 1..Count : Base(k) < j /\ j < k =>
                                  /\ Base(j) = Base(k) /\ At(j) + Width(j) <= At(k)
                                     /\ (Fits(k) => Fits(j))
  BY AtFacts, PlanFacts, MemNat
<1>2. \A f \in FreeBlocks : f \in Nat /\ f <= MEM /\ size[f] \in Nat \ {0} /\ f + size[f] <= END
  BY BlockFacts DEF IInv
<1>3. ASSUME NEW k \in 1..Count, k <= i, Base(k) = Base(i),
             \A j \in 1..Count : Base(i) < j /\ j < k => Fits(j)
      PROVE  \A f \in FreeBlocks : At(k) <= f
  <2>1. ASSUME NEW j \in 1..Count, Base(k) < j, j < k
        PROVE  At(j) \in Allocated /\ size[At(j)] = Width(j)
    <3>1. j < i /\ Base(i) < j /\ Fits(j)
      BY <1>3, <2>1
    <3>2. j \in H
      BY <3>1
    <3> QED BY <3>2
  <2> QED BY <2>1, NoFreeBelow
<1>4. ASSUME Fits(i)
      PROVE  /\ At(i) \in FreeBlocks /\ Width(i) <= size[At(i)]
             /\ \A f \in FreeBlocks : f = At(i)
  <2>1. \A j \in 1..Count : Base(i) < j /\ j < i => Fits(j)
    BY <1>1, <1>4
  <2>2. \A f \in FreeBlocks : At(i) <= f
    BY <1>3, <2>1
  <2> DEFINE x == At(i)
  <2>3. x \in Nat /\ END \in Nat /\ x + Width(i) <= END /\ x < END
    BY <1>1, <1>4
  <2>4. x = head \/ \E a \in Allocated : a + size[a] = x
    <3>1. CASE i = Base(i) + 1
      BY <1>1, <3>1, PlanFacts DEF At
    <3>2. CASE i # Base(i) + 1
      <4> DEFINE k == i - 1
      <4>1. k \in 1..Count /\ Base(k) = Base(i) /\ Offset(i) = Offset(k) + Width(k)
            /\ Offset(k) \in Nat /\ Width(k) \in Nat
        BY <3>2, PlanFacts
      <4>2. Base(i) < k /\ k < i
        BY <1>1, <3>2
      <4> HIDE DEF k
      <4>3. k \in H
        BY <2>1, <4>1, <4>2
      <4>4. At(k) \in Allocated /\ size[At(k)] = Width(k)
        BY <4>3
      <4>5. At(k) + Width(k) = At(i)
        BY <1>1, <4>1 DEF At
      <4> QED BY <4>4, <4>5
    <3> QED BY <3>1, <3>2
  <2>5. \A a \in Allocated : ~(x <= a /\ a < END)
    <3> SUFFICES ASSUME NEW j \in H PROVE ~(x <= At(j))
      OBVIOUS
    <3>1. At(j) \in Nat /\ Width(j) \in Nat \ {0} /\ At(j) + Width(j) <= At(i) /\ At(i) \in Nat
      BY <1>1
    <3> QED BY <3>1
  <2> HIDE DEF x
  <2>6. /\ x \in FreeBlocks /\ size[x] = END - x
        /\ \A f \in FreeBlocks : x <= f /\ f < END => f = x
    BY <2>3, <2>4, <2>5, Gap
  <2>7. \A f \in FreeBlocks : x <= f /\ f < END
    BY <1>1, <1>2, <2>2 DEF x
  <2>8. Width(i) <= size[x]
    BY <1>1, <2>3, <2>6
  <2> QED BY <2>6, <2>7, <2>8 DEF x
<1>5. ASSUME ~Fits(i), NEW f \in FreeBlocks PROVE size[f] < Width(i)
  <2> DEFINE T == {k \in 1..Count : Base(i) < k /\ k <= i /\ ~Fits(k)}
  <2>1. i \in T /\ T \in SUBSET Nat
    BY <1>1, <1>5
  <2>2. PICK k \in T : \A j \in T : k <= j
    BY <2>1, Least
  <2>3. k \in 1..Count /\ Base(i) < k /\ k <= i /\ ~Fits(k) /\ Base(k) = Base(i)
    BY <1>1, <2>2
  <2>4. ASSUME NEW j \in 1..Count, Base(i) < j, j < k PROVE Fits(j)
    <3>1. j <= i /\ ~(k <= j)
      BY <2>3, <2>4
    <3>2. j \notin T
      BY <2>2, <3>1
    <3> QED BY <2>4, <3>1, <3>2
  <2>5. At(k) <= f
    BY <1>3, <2>3, <2>4
  <2>6. Width(k) = Width(i)
    <3>1. CASE test = "coalescing"
      BY <3>1 DEF Width
    <3>2. CASE test = "leakage"
      <4>1. k = i
        BY <2>3, <3>2
      <4> QED BY <4>1
    <3> QED BY <3>1, <3>2
  <2> HIDE DEF T
  <2> QED BY <1>1, <1>2, <2>3, <2>5, <2>6
<1> QED BY <1>4, <1>5

-----------------------------------------------------------------------------
\* A test that is running has done the first n statements of its script: it has the
\* pointers it asked for, NULL for a block for which there was no memory; what is
\* allocated are the others that it has not freed, where they were planned; and
\* counting free blocks has shown what the memory is not.
Done(n) == /\ n \in Nat /\ n < Len(Script) /\ Len(todo) = Len(Script) - n
           /\ \A j \in 1..Len(todo) : todo[j] = Script[n + j]

PtrsInv(n) ==
  \A i \in 1..Count :
    /\ i <= Len(p) <=> AllocAt(i) <= n
    /\ i <= Len(p) => /\ p[i] = IF Fits(i) THEN At(i) + 1 ELSE NULL
                      /\ test = "leakage" => Fits(i)

BlocksInv(n) ==
  /\ Allocated = {At(i) : i \in Held(n)}
  /\ \A i, j \in Held(n) : size[At(i)] = Width(i) /\ (At(i) = At(j) => i = j)
  /\ \A b \in live : b.owner = Tester

CallsInv ==
  /\ call.op = "find" => call.want = Width(Len(p) + 1) /\ call.owner = Tester
  /\ call.op \in {"seek", "walk"} =>
       /\ call.owner = Tester /\ Fits(Head(todo).which)
       /\ call.node = At(Head(todo).which)

Counted(n) ==
  test = "coalescing" => /\ n >= 10 /\ Room > 45 => Room > 60
                         /\ n >= 15 => Room >= 10

RunInv(n) == Done(n) /\ PtrsInv(n) /\ BlocksInv(n) /\ CallsInv /\ Counted(n)

VerdictInv ==
  test # "none" =>
    /\ result = "running" => \E n \in Nat : RunInv(n)
    /\ result = "passed" => todo = <<>> /\ EnoughFor
    /\ result \notin {"running", "passed"} => ~EnoughFor

\* The plan is that of the place the image ends at.
LEMMA SamePlan ==
  ASSUME head' = head
  PROVE  /\ test' = test /\ Script' = Script /\ Count' = Count /\ Room' = Room
         /\ EnoughFor' = EnoughFor
         /\ \A i : /\ Width(i)' = Width(i) /\ At(i)' = At(i) /\ Fits(i)' = Fits(i)
                   /\ AllocAt(i)' = AllocAt(i) /\ FreedAt(i)' = FreedAt(i)
         /\ \A n : Held(n)' = Held(n) /\ Counted(n)' = Counted(n)
<1>1. test' = test /\ Room' = Room /\ EnoughFor' = EnoughFor
  BY DEF test, Room, EnoughFor, Rest
<1>2. \A i : /\ Width(i)' = Width(i) /\ Offset(i)' = Offset(i)
             /\ AllocAt(i)' = AllocAt(i) /\ FreedAt(i)' = FreedAt(i)
  BY <1>1 DEF Width, Offset, AllocAt, FreedAt
<1>3. \A i : At(i)' = At(i) /\ Fits(i)' = Fits(i)
  BY <1>1, <1>2 DEF At, Fits
<1>4. Script' = Script /\ Count' = Count
  BY <1>1 DEF Script, Count
<1>5. \A n : Held(n)' = Held(n) /\ Counted(n)' = Counted(n)
  BY <1>1, <1>2, <1>3, <1>4 DEF Held, Counted
<1> QED BY <1>1, <1>2, <1>3, <1>4, <1>5

\* Both scripts do to the blocks what is planned.
LEMMA ScriptPlan ==
  ASSUME SaneTests, test \in {"coalescing", "leakage"}
  PROVE  /\ Len(Script) \in Nat /\ Script \in Seq(Statements)
         /\ \A n \in 1..Len(Script) : Plan(Script[n], n)
         /\ Len(Script) = IF test = "coalescing" THEN 22 ELSE 4 * BLOCKS + 1
<1> HIDE DEF Plan
<1>1. CASE test = "coalescing"
  <2>1. /\ Len(Script) = 22 /\ Script \in Seq(Statements)
        /\ \A n \in 1..22 : Plan(Script[n], n)
    BY <1>1, CoalescingPlan
  <2> QED BY <1>1, <2>1
<1>2. CASE test = "leakage"
  <2>1. /\ Len(Script) = 4 * BLOCKS + 1 /\ Script \in Seq(Statements)
        /\ \A n \in 1..(4 * BLOCKS + 1) : Plan(Script[n], n)
    BY <1>2, LeakagePlan
  <2>2. BLOCKS \in Nat
    BY UnitFacts
  <2>3. 4 * BLOCKS + 1 \in Nat
    BY <2>2
  <2>4. test # "coalescing"
    BY <1>2
  <2> QED BY <2>1, <2>3, <2>4
<1> QED BY <1>1, <1>2

\* The statement a running test is at, and what is left after it.
LEMMA NowAt ==
  ASSUME SaneTests, test \in {"coalescing", "leakage"}, TodoInv, NEW n, Done(n)
  PROVE  /\ n \in Nat /\ n + 1 \in 1..Len(Script) /\ todo # <<>> /\ Head(todo) = Script[n + 1]
         /\ Head(todo) \in Statements /\ Plan(Head(todo), n + 1)
         /\ Len(Tail(todo)) = Len(Script) - (n + 1)
         /\ \A j \in 1..Len(Tail(todo)) : Tail(todo)[j] = Script[(n + 1) + j]
         /\ Tail(todo) = <<>> <=> n + 1 = Len(Script)
<1>1. todo \in Seq(Statements) /\ Len(todo) \in Nat
  BY LenProperties DEF TodoInv, Runs
<1>2. /\ n \in Nat /\ Len(Script) \in Nat /\ n < Len(Script) /\ Len(todo) = Len(Script) - n
      /\ \A j \in 1..Len(todo) : todo[j] = Script[n + j]
  BY ScriptPlan DEF Done
<1>3. todo # <<>> /\ Len(todo) # 0
  BY <1>1, <1>2, EmptySeq
<1>4. /\ Head(todo) = todo[1] /\ Head(todo) \in Statements /\ Tail(todo) \in Seq(Statements)
      /\ Len(Tail(todo)) = Len(todo) - 1
         /\ \A j \in 1..(Len(todo) - 1) : Tail(todo)[j] = todo[j + 1]
  BY <1>1, <1>3, HeadTailProperties
<1>5. Head(todo) = Script[n + 1] /\ n + 1 \in 1..Len(Script)
  BY <1>1, <1>2, <1>3, <1>4
<1>6. Plan(Head(todo), n + 1)
  BY <1>5, ScriptPlan
<1>7. ASSUME NEW j \in 1..Len(Tail(todo)) PROVE Tail(todo)[j] = Script[(n + 1) + j]
  <2> DEFINE k == j + 1
  <2>1. k \in 1..Len(todo) /\ n + k = (n + 1) + j /\ Tail(todo)[j] = todo[k]
    BY <1>1, <1>2, <1>4
  <2> HIDE DEF k
  <2> QED BY <1>2, <2>1
<1>8. Tail(todo) = <<>> <=> Len(Tail(todo)) = 0
  BY <1>4, EmptySeq
<1> HIDE DEF Plan
<1> QED BY <1>1, <1>2, <1>3, <1>4, <1>5, <1>6, <1>7, <1>8

\* After a statement the test is at the next one, or has passed.
LEMMA NextAt ==
  ASSUME SaneTests, test \in {"coalescing", "leakage"}, TodoInv, NEW n, Done(n),
         result = "running", Proceeds(Tail(todo), result), head' = head
  PROVE  IF n + 1 < Len(Script) THEN result' = "running" /\ Done(n + 1)'
         ELSE result' = "passed" /\ todo' = <<>> /\ n + 1 = Len(Script)
<1>1. todo' = Tail(todo) /\ result' = IF Tail(todo) = <<>> THEN "passed" ELSE "running"
  BY DEF Proceeds
<1>2. /\ n \in Nat /\ n + 1 \in 1..Len(Script) /\ Len(Script) \in Nat
      /\ Len(Tail(todo)) = Len(Script) - (n + 1)
      /\ \A j \in 1..Len(Tail(todo)) : Tail(todo)[j] = Script[(n + 1) + j]
      /\ Tail(todo) = <<>> <=> n + 1 = Len(Script)
  BY NowAt, ScriptPlan
<1>3. Script' = Script
  BY SamePlan
<1> QED BY <1>1, <1>2, <1>3 DEF Done

\* What is held changes as the plan says.
LEMMA HeldNext ==
  ASSUME test \in {"coalescing", "leakage"}, NEW n \in Nat, NEW s, Plan(s, n + 1)
  PROVE  /\ s.do = "alloc" =>
              \E i \in 1..Count :
                /\ AllocAt(i) = n + 1 /\ Want(s.bytes) = Width(i)
                /\ Held(n) = {j \in 1..Count : Base(i) < j /\ j < i /\ Fits(j)}
                /\ Held(n + 1) = IF Fits(i) THEN Held(n) \cup {i} ELSE Held(n)
                /\ \A j \in 1..Count : /\ AllocAt(j) <= n + 1 <=> j <= i
                                       /\ AllocAt(j) <= n <=> j < i
         /\ s.do = "free" =>
              /\ s.which \in 1..Count /\ AllocAt(s.which) <= n
              /\ Fits(s.which) => s.which \in Held(n)
              /\ Held(n + 1) = Held(n) \ {s.which}
         /\ s.do \in {"count", "compare"} => Held(n + 1) = Held(n)
         /\ s.do # "alloc" /\ s.do \in {"free", "count", "compare"} =>
              \A j \in 1..Count : AllocAt(j) <= n + 1 <=> AllocAt(j) <= n
<1>1. /\ Count \in Nat
      /\ \A i \in 1..Count : /\ AllocAt(i) \in Nat /\ FreedAt(i) \in Nat /\ AllocAt(i) < FreedAt(i)
                             /\ \A j \in 1..Count : j < i => AllocAt(j) < AllocAt(i)
  BY PlanOrder, PlanFacts
<1>2. \A k : Held(k) = {i \in 1..Count : AllocAt(i) <= k /\ k < FreedAt(i) /\ Fits(i)}
  BY DEF Held
<1>3. ASSUME s.do = "alloc"
      PROVE  \E i \in 1..Count :
                /\ AllocAt(i) = n + 1 /\ Want(s.bytes) = Width(i)
                /\ Held(n) = {j \in 1..Count : Base(i) < j /\ j < i /\ Fits(j)}
                /\ Held(n + 1) = IF Fits(i) THEN Held(n) \cup {i} ELSE Held(n)
                /\ \A j \in 1..Count : /\ AllocAt(j) <= n + 1 <=> j <= i
                                       /\ AllocAt(j) <= n <=> j < i
  <2>1. PICK i \in 1..Count :
          /\ AllocAt(i) = n + 1 /\ Want(s.bytes) = Width(i)
          /\ \A j \in 1..Count :
               /\ FreedAt(j) # n + 1
               /\ AllocAt(j) < n + 1 /\ (n + 1) - 1 < FreedAt(j) <=> Base(i) < j /\ j < i
    BY <1>3 DEF Plan
  <2>2. \A j \in 1..Count : AllocAt(j) <= n <=> AllocAt(j) < n + 1
    BY <1>1
  <2>3. (n + 1) - 1 = n
    OBVIOUS
  <2>4. Held(n) = {j \in 1..Count : Base(i) < j /\ j < i /\ Fits(j)}
    BY <1>2, <2>1, <2>2, <2>3
  <2>5. \A j \in 1..Count : /\ AllocAt(j) <= n + 1 <=> AllocAt(j) <= n \/ AllocAt(j) = n + 1
                            /\ n + 1 < FreedAt(j) <=> n < FreedAt(j)
    BY <1>1, <2>1
  <2>6. \A j \in 1..Count : AllocAt(j) = n + 1 <=> j = i
    BY <1>1, <2>1
  <2>7. n + 1 < FreedAt(i) /\ n < FreedAt(i)
    BY <1>1, <2>1
  <2>8. Held(n + 1) = IF Fits(i) THEN Held(n) \cup {i} ELSE Held(n)
    BY <1>2, <2>1, <2>5, <2>6, <2>7
  <2>9. \A j \in 1..Count : /\ AllocAt(j) <= n + 1 <=> j <= i
                            /\ AllocAt(j) <= n <=> j < i
    BY <1>1, <2>1
  <2> QED BY <2>1, <2>4, <2>8, <2>9
<1>4. ASSUME s.do = "free"
      PROVE  /\ s.which \in 1..Count /\ AllocAt(s.which) <= n
             /\ Fits(s.which) => s.which \in Held(n)
             /\ Held(n + 1) = Held(n) \ {s.which}
             /\ \A j \in 1..Count : AllocAt(j) <= n + 1 <=> AllocAt(j) <= n
  <2> DEFINE k == s.which
  <2>1. /\ k \in 1..Count /\ FreedAt(k) = n + 1
        /\ \A j \in 1..Count : AllocAt(j) # n + 1 /\ (FreedAt(j) = n + 1 => j = k)
    BY <1>4 DEF Plan
  <2> HIDE DEF k
  <2>2. AllocAt(k) <= n /\ n < FreedAt(k) /\ ~(n + 1 < FreedAt(k))
    BY <1>1, <2>1
  <2>3. \A j \in 1..Count : /\ AllocAt(j) <= n + 1 <=> AllocAt(j) <= n
                            /\ j # k => (n + 1 < FreedAt(j) <=> n < FreedAt(j))
    BY <1>1, <2>1
  <2>4. Held(n + 1) = Held(n) \ {k}
    BY <1>2, <2>2, <2>3
  <2> QED BY <1>2, <2>1, <2>2, <2>3, <2>4 DEF k
<1>5. ASSUME s.do \in {"count", "compare"}
      PROVE  Held(n + 1) = Held(n) /\ \A j \in 1..Count : AllocAt(j) <= n + 1 <=> AllocAt(j) <= n
  <2>1. \A j \in 1..Count : AllocAt(j) # n + 1 /\ FreedAt(j) # n + 1
    BY <1>5 DEF Plan
  <2>2. \A j \in 1..Count : /\ AllocAt(j) <= n + 1 <=> AllocAt(j) <= n
                            /\ n + 1 < FreedAt(j) <=> n < FreedAt(j)
    BY <1>1, <2>1
  <2> QED BY <1>2, <2>2
<1> QED BY <1>3, <1>4, <1>5

-----------------------------------------------------------------------------
\* A call under way keeps what it was called for, and changes no block.
LEMMA StepKeeps ==
  ASSUME IInv, Step, call' # Idle
  PROVE  /\ live' = live /\ size' = size /\ head' = head
         /\ call.op = "find" => /\ call'.op = "find"
                                /\ call'.want = call.want /\ call'.owner = call.owner
         /\ call.op # "find" => /\ call.op \in {"seek", "walk"} /\ call'.op \in {"seek", "walk"}
                                /\ call'.node = call.node /\ call'.owner = call.owner
<1>1. CASE Find
  <2>1. call.op = "find" /\ call' = [call EXCEPT !.prev = call.curr, !.curr = link[call.curr]]
    BY <1>1 DEF Find
  <2>2. call \in [op : {"find"}, curr : FreeBlocks \cup {NULL}, prev : FreeBlocks \cup {NULL},
                  want : Nat \ {0}, bytes : Nat, owner : Owners]
    BY <2>1 DEF IInv, FindInv
  <2>3. call'.op = "find" /\ call'.want = call.want /\ call'.owner = call.owner
    BY <2>1, <2>2
  <2> QED BY <1>1, <2>1, <2>3 DEF Find
<1>2. CASE Take
  BY <1>2 DEF Take
<1>3. CASE Seek
  <2>1. call.op = "seek"
        /\ call \in [op : {"seek"}, node : Int, owner : Owners, start : Int, stop : Int]
    BY <1>3 DEF Seek, IInv, SeekInv
  <2>2. call'.op \in {"seek", "walk"} /\ call'.node = call.node /\ call'.owner = call.owner
    BY <1>3, <2>1 DEF Seek
  <2> QED BY <1>3, <2>1, <2>2 DEF Seek
<1>4. CASE Walk
  <2>1. /\ call.op = "walk"
        /\ call \in [op : {"walk"}, node : Int, owner : Owners, start : Int, stop : Int, temp : Int]
        /\ call' = [call EXCEPT !.temp = @ + size[call.temp]]
    BY <1>4 DEF Walk, IInv, WalkInv
  <2>2. call'.op = "walk" /\ call'.node = call.node /\ call'.owner = call.owner
    BY <2>1
  <2> QED BY <1>4, <2>1, <2>2 DEF Walk
<1>5. CASE Free
  BY <1>5 DEF Free
<1> QED BY <1>1, <1>2, <1>3, <1>4, <1>5 DEF Step

\* How a search ends.
LEMMA SearchEnds ==
  ASSUME IInv, Step, call' = Idle, call.op = "find"
  PROVE  \/ Take
         \/ /\ call.curr = NULL /\ live' = live /\ size' = size /\ head' = head
            /\ \A f \in FreeBlocks : size[f] < call.want
<1>1. CASE Find
  <2>1. call.curr = NULL
    <3>1. [call EXCEPT !.prev = call.curr, !.curr = link[call.curr]].op = "find"
      BY DEF IInv, FindInv
    <3> QED BY <1>1, <3>1 DEF Find, Idle
  <2>2. \A f \in FreeBlocks : size[f] < call.want
    BY <2>1 DEF IInv, FindInv, PassedAreTooSmall
  <2> QED BY <1>1, <2>1, <2>2 DEF Find
<1> QED BY <1>1 DEF Step, Seek, Walk, Free

\* A block of the leakage test is far enough from the one before.
LEMMA Far ==
  ASSUME IInv, test = "leakage", NEW i \in 1..Count, NEW ptr,
         Len(p) = i - 1, i # 1 => p[i - 1] = At(i - 1) + 1,
         ptr = IF Fits(i) THEN At(i) + 1 ELSE NULL
  PROVE  FarEnough(ptr) <=> Fits(i)
<1> DEFINE N == BLOCKS
           k == i - 1
           r == k % N
           gap == IF k < N THEN STEP * r ELSE STEP * (N - r + 1)
<1>1. N \in Nat \ {0} /\ Count = 2 * N /\ k \in 0..(2 * N - 1)
  BY UnitFacts DEF Count
<1>2. At(i) \in Nat /\ NULL = 0
  BY AtFacts DEF NULL
<1>3. FarEnough(ptr) <=> ptr # NULL /\ (r > 0 => 8 * p[k] + gap < 8 * ptr)
  BY DEF FarEnough
<1>4. r = IF k < N THEN k ELSE k - N
  <2> HIDE DEF N, k
  <2> QED BY <1>1
<1>5. ASSUME Fits(i), r > 0 PROVE 8 * p[k] + gap < 8 * ptr
  <2> DEFINE w == IF k < N THEN Unit * k ELSE Unit * (2 * N - k + 1)
  <2>1. k # 0 /\ k # N
    BY <1>1, <1>4, <1>5
  <2>2. Base(i) = IF i > N THEN N ELSE 0
    BY DEF Base
  <2>3. i # Base(i) + 1
    BY <1>1, <2>1, <2>2
  <2>4. k \in 1..Count /\ Offset(i) = Offset(k) + Width(k) /\ Offset(k) \in Nat /\ Width(k) \in Nat
    BY <2>3, PlanFacts
  <2>5. At(i) = At(k) + Width(k) /\ At(k) \in Nat
    BY <2>4, AtFacts DEF At
  <2>6. Width(k) = w + 1
    BY <1>1, <2>1 DEF Width
  <2>7. gap = 8 * w /\ w \in Nat
    <3>1. CASE k < N
      BY <1>1, <1>4, <3>1, UnitFacts
    <3>2. CASE ~(k < N)
      <4>1. 2 * N - k + 1 = N - r + 1 /\ 2 * N - k + 1 \in Nat
        BY <1>1, <1>4, <3>2
      <4>2. STEP * (2 * N - k + 1) = 8 * (Unit * (2 * N - k + 1)) /\ Unit * (2 * N - k + 1) \in Nat
        BY <4>1, UnitFacts
      <4> QED BY <3>2, <4>1, <4>2
    <3> QED BY <3>1, <3>2
  <2>8. i # 1 /\ p[k] = At(k) + 1 /\ ptr = At(i) + 1
    BY <1>5, <2>1
  <2> HIDE DEF w, gap, k
  <2> QED BY <2>4, <2>5, <2>6, <2>7, <2>8
<1> HIDE DEF r, gap, k
<1>6. ASSUME Fits(i) PROVE ptr # NULL
  BY <1>2, <1>6
<1> QED BY <1>3, <1>5, <1>6

\* A search of a running test ends with the block as planned, or without one.
LEMMA AllocEnds ==
  ASSUME SaneTests, TestInv, test \in {"coalescing", "leakage"}, result = "running",
         NEW n, RunInv(n), Steps, call' = Idle, call.op = "find"
  PROVE  VerdictInv'
<1>1. /\ IInv /\ TodoInv /\ Step /\ head' = head /\ Head(todo).do = "alloc"
      /\ Done(n) /\ PtrsInv(n) /\ BlocksInv(n) /\ CallsInv /\ Counted(n)
  BY StepShape DEF TestInv, CallInv, RunInv, Steps
<1> DEFINE ptr == IF call.curr = NULL THEN NULL ELSE call.curr + 1
<1>2. AllocReturns(ptr)
  BY DEF Steps
<1>3. /\ n \in Nat /\ n + 1 \in 1..Len(Script) /\ Plan(Head(todo), n + 1)
  BY <1>1, NowAt
<1>4. PICK i \in 1..Count :
        /\ AllocAt(i) = n + 1 /\ Want(Head(todo).bytes) = Width(i)
        /\ Held(n) = {j \in 1..Count : Base(i) < j /\ j < i /\ Fits(j)}
        /\ Held(n + 1) = IF Fits(i) THEN Held(n) \cup {i} ELSE Held(n)
        /\ \A j \in 1..Count : /\ AllocAt(j) <= n + 1 <=> j <= i
                               /\ AllocAt(j) <= n <=> j < i
  BY <1>1, <1>3, HeldNext
<1>5. p \in Seq({NULL} \cup {a + 1 : a \in Addresses}) /\ Len(p) \in Nat
  BY LenProperties DEF TestInv, PtrInv
<1>6. Len(p) = i - 1 /\ Count \in Nat
  <2>1. \A j \in 1..Count : j <= Len(p) <=> j < i
    BY <1>1, <1>4 DEF PtrsInv
  <2>2. Count \in Nat
    BY PlanFacts
  <2>3. ~(i <= Len(p))
    BY <2>1
  <2>4. i # 1 => i - 1 <= Len(p)
    <3>1. i # 1 => i - 1 \in 1..Count /\ i - 1 < i
      BY <2>2
    <3> QED BY <2>1, <3>1
  <2> QED BY <1>5, <2>2, <2>3, <2>4
<1>7. call.want = Width(i) /\ call.owner = Tester
  <2>1. Len(p) + 1 = i
    BY <1>6
  <2> QED BY <1>1, <2>1 DEF CallsInv
<1>8. test = "leakage" => \A j \in 1..Count : j < i => Fits(j)
  BY <1>1, <1>4 DEF PtrsInv
<1>9. /\ Fits(i) => /\ At(i) \in FreeBlocks /\ Width(i) <= size[At(i)]
                    /\ \A f \in FreeBlocks : f = At(i)
      /\ ~Fits(i) => \A f \in FreeBlocks : size[f] < Width(i)
  <2> DEFINE H == Held(n)
  <2>1. /\ H = {j \in 1..Count : Base(i) < j /\ j < i /\ Fits(j)}
        /\ Allocated = {At(j) : j \in H} /\ \A j \in H : size[At(j)] = Width(j)
    BY <1>1, <1>4 DEF BlocksInv
  <2> HIDE DEF H
  <2> QED BY <1>1, <1>8, <2>1, NextBlock
<1>10. /\ ptr = IF Fits(i) THEN At(i) + 1 ELSE NULL
       /\ IF Fits(i)
          THEN /\ live' = live \cup {[at |-> At(i), bytes |-> call.bytes, owner |-> Tester]}
               /\ Allocated' = Allocated \cup {At(i)} /\ At(i) \notin Allocated
               /\ size'[At(i)] = Width(i) /\ \A a \in Allocated : size'[a] = size[a]
          ELSE live' = live /\ size' = size
  <2>1. CASE Take
    <3>1. /\ call.curr \in FreeBlocks /\ call.want <= size[call.curr] /\ call.curr # NULL
          /\ live' = live \cup {[at |-> call.curr, bytes |-> call.bytes, owner |-> call.owner]}
          /\ Allocated' = Allocated \cup {call.curr}
          /\ size'[call.curr] = call.want /\ \A a \in Allocated : size'[a] = size[a]
      BY <1>1, <2>1, Taken DEF Take
    <3>2. size[call.curr] \in Nat /\ Width(i) \in Nat
      BY <1>1, <3>1, BlockFacts, PlanFacts DEF IInv
    <3>3. Fits(i)
      BY <1>7, <1>9, <3>1, <3>2
    <3>4. call.curr = At(i)
      BY <1>9, <3>1, <3>3
    <3>5. At(i) \notin Allocated
      BY <1>1, <3>1, <3>4 DEF IInv, HeapInv
    <3> QED BY <1>7, <3>1, <3>3, <3>4, <3>5
  <2>2. CASE /\ call.curr = NULL /\ live' = live /\ size' = size
             /\ \A f \in FreeBlocks : size[f] < call.want
    <3>1. ~Fits(i)
      <4> SUFFICES ASSUME Fits(i) PROVE FALSE
        OBVIOUS
      <4>1. At(i) \in FreeBlocks /\ Width(i) <= size[At(i)] /\ size[At(i)] < Width(i)
        BY <1>7, <1>9, <2>2
      <4>2. size[At(i)] \in Nat /\ Width(i) \in Nat
        BY <1>1, <4>1, BlockFacts, PlanFacts DEF IInv
      <4> QED BY <4>1, <4>2
    <3> QED BY <2>2, <3>1
  <2> QED BY <1>1, <2>1, <2>2, SearchEnds
<1> HIDE DEF ptr
<1>11. p' = Append(p, ptr) /\ Len(p') = i /\ p'[i] = ptr
       /\ \A j \in 1..Count : j < i => p'[j] = p[j]
  <2>1. p' = Append(p, ptr)
    BY <1>2 DEF AllocReturns
  <2>2. ptr \in {NULL} \cup {a + 1 : a \in Addresses} \cup {ptr}
    OBVIOUS
  <2> DEFINE T == {NULL} \cup {a + 1 : a \in Addresses} \cup {ptr}
  <2>3. p \in Seq(T) /\ ptr \in T
    BY <1>5
  <2> HIDE DEF T
  <2>4. Len(Append(p, ptr)) = Len(p) + 1 /\ \A j \in 1..Len(p) : Append(p, ptr)[j] = p[j]
        /\ Append(p, ptr)[Len(p) + 1] = ptr
    BY <2>3, AppendProperties
  <2> QED BY <1>6, <2>1, <2>4
<1>12. test' = test /\ call'.op = "idle" /\ EnoughFor' = EnoughFor
  BY <1>1, SamePlan DEF Idle
<1>13. CASE test = "leakage" /\ ~Fits(i)
  <2>1. ~FarEnough(ptr)
    <3>1. \A j \in 1..Count : j < i => p[j] = At(j) + 1
      BY <1>1, <1>4, <1>8, <1>13 DEF PtrsInv
    <3>2. i # 1 => p[i - 1] = At(i - 1) + 1
      BY <1>6, <3>1
    <3> QED BY <1>1, <1>6, <1>10, <1>13, <3>2, Far
  <2>2. result' \notin {"running", "passed"}
    BY <1>2, <1>13, <2>1 DEF AllocReturns, Proceeds
  <2>3. ~EnoughFor
    <3>1. /\ Room \in Int /\ Offset(i) \in Nat /\ Width(i) \in Nat
      BY <1>1, AtFacts, PlanFacts
    <3>2. Offset(i) + Width(i) <= Upto(BLOCKS) /\ Upto(BLOCKS) \in Nat
          /\ (EnoughFor <=> Upto(BLOCKS) <= Room)
      BY <1>13, <3>1, LeakageNeeds
    <3>3. ~(Offset(i) + Width(i) <= Room)
      BY <1>13 DEF Fits
    <3> QED BY <3>1, <3>2, <3>3
  <2> QED BY <1>12, <2>2, <2>3 DEF VerdictInv
<1>14. CASE ~(test = "leakage" /\ ~Fits(i))
  <2>1. Proceeds(Tail(todo), result)
    <3>1. test = "leakage" => FarEnough(ptr)
      <4> SUFFICES ASSUME test = "leakage" PROVE FarEnough(ptr)
        OBVIOUS
      <4>1. \A j \in 1..Count : j < i => p[j] = At(j) + 1
        BY <1>1, <1>4, <1>8 DEF PtrsInv
      <4>2. i # 1 => p[i - 1] = At(i - 1) + 1
        BY <1>6, <4>1
      <4> QED BY <1>1, <1>6, <1>10, <1>14, <4>2, Far
    <3> QED BY <1>2, <3>1 DEF AllocReturns
  <2>2. n + 1 # Len(Script)
    <3>1. AllocAt(i) < FreedAt(i) /\ FreedAt(i) <= Len(Script)
      <4>1. CASE test = "coalescing"
        <5>1. FreedAt(i) \in 11..21 /\ Len(Script) = 22 /\ AllocAt(i) = i /\ Count = 9
          BY <4>1, CoalescingPlan DEF FreedAt, AllocAt, Count
        <5> QED BY <5>1
      <4>2. CASE test = "leakage"
        <5>1. Len(Script) = 4 * BLOCKS + 1 /\ BLOCKS \in Nat \ {0} /\ Count = 2 * BLOCKS
          BY <4>2, LeakagePlan, UnitFacts DEF Count
        <5>2. FreedAt(i) = IF i <= BLOCKS THEN BLOCKS + i ELSE 2 * BLOCKS + 1 + i
          BY <4>2 DEF FreedAt
        <5>3. AllocAt(i) < FreedAt(i)
          BY PlanOrder
        <5> QED BY <5>1, <5>2, <5>3
      <4> QED BY <4>1, <4>2
    <3>2. FreedAt(i) \in Nat /\ Len(Script) \in Nat
      BY PlanOrder, ScriptPlan
    <3> QED BY <1>3, <1>4, <3>1, <3>2
  <2>3. result' = "running" /\ Done(n + 1)'
    <3>1. n + 1 < Len(Script)
      BY <1>3, <2>2, ScriptPlan
    <3> QED BY <1>1, <2>1, <3>1, NextAt
  <2>4. PtrsInv(n + 1)'
    <3> SUFFICES ASSUME NEW j \in 1..Count
                 PROVE  /\ j <= Len(p') <=> AllocAt(j) <= n + 1
                        /\ j <= Len(p') => /\ p'[j] = IF Fits(j) THEN At(j) + 1 ELSE NULL
                                           /\ test = "leakage" => Fits(j)
      BY <1>1, SamePlan DEF PtrsInv
    <3>1. j <= Len(p') <=> AllocAt(j) <= n + 1
      BY <1>4, <1>11
    <3>2. CASE j = i
      BY <1>10, <1>11, <1>14, <3>1, <3>2
    <3>3. CASE j # i
      <4>1. ASSUME j <= Len(p')
            PROVE  p'[j] = (IF Fits(j) THEN At(j) + 1 ELSE NULL) /\ (test = "leakage" => Fits(j))
        <5>1. j < i
          BY <1>6, <1>11, <3>3, <4>1
        <5>2. j <= Len(p)
          BY <1>1, <1>4, <5>1 DEF PtrsInv
        <5> QED BY <1>1, <1>11, <5>1, <5>2 DEF PtrsInv
      <4> QED BY <3>1, <4>1
    <3> QED BY <3>2, <3>3
  <2>5. BlocksInv(n + 1)'
    <3> DEFINE H == Held(n)
               K == Held(n + 1)
    <3>1. /\ Allocated = {At(j) : j \in H}
          /\ \A j, k \in H : size[At(j)] = Width(j) /\ (At(j) = At(k) => j = k)
          /\ \A b \in live : b.owner = Tester
      BY <1>1 DEF BlocksInv
    <3>2. K = IF Fits(i) THEN H \cup {i} ELSE H
      BY <1>4
    <3> HIDE DEF H, K
    <3>3. /\ Allocated' = {At(j) : j \in K}
          /\ \A j, k \in K : size'[At(j)] = Width(j) /\ (At(j) = At(k) => j = k)
          /\ \A b \in live' : b.owner = Tester
      <4>1. CASE Fits(i)
        <5>1. \A j \in H : At(j) \in Allocated
          BY <3>1
        <5>2. Allocated' = {At(j) : j \in K}
          BY <1>10, <3>1, <3>2, <4>1
        <5>3. \A b \in live' : b.owner = Tester
          BY <1>10, <3>1, <4>1
        <5>4. \A j, k \in K : size'[At(j)] = Width(j) /\ (At(j) = At(k) => j = k)
          BY <1>10, <3>1, <3>2, <4>1, <5>1
        <5> QED BY <5>2, <5>3, <5>4
      <4>2. CASE ~Fits(i)
        <5>1. Allocated' = Allocated
          BY <1>10, <4>2 DEF Allocated
        <5> QED BY <1>10, <3>1, <3>2, <4>2, <5>1
      <4> QED BY <4>1, <4>2
    <3> QED BY <1>1, <3>3, SamePlan DEF BlocksInv, K
  <2>6. Counted(n + 1)'
    <3>1. Counted(n + 1)
      <4>1. test = "coalescing" => n + 1 <= 9
        BY <1>4 DEF AllocAt, Count
      <4> QED BY <1>3, <4>1 DEF Counted
    <3> QED BY <1>1, <3>1, SamePlan
  <2>7. RunInv(n + 1)'
    BY <1>12, <2>3, <2>4, <2>5, <2>6 DEF RunInv, CallsInv
  <2>8. n + 1 \in Nat
    BY <1>3
  <2> QED BY <1>12, <2>3, <2>7, <2>8 DEF VerdictInv
<1> QED BY <1>13, <1>14

-----------------------------------------------------------------------------
\* What was said of the blocks holds as long as they do not change.
LEMMA BlocksKept ==
  ASSUME NEW n, NEW m, BlocksInv(n), Held(m) = Held(n), head' = head, live' = live, size' = size
  PROVE  BlocksInv(m)'
<1>1. Allocated' = Allocated
  BY DEF Allocated
<1> DEFINE H == Held(n)
<1>2. /\ Allocated = {At(i) : i \in H}
      /\ \A i, j \in H : size[At(i)] = Width(i) /\ (At(i) = At(j) => i = j)
      /\ \A b \in live : b.owner = Tester
  BY DEF BlocksInv
<1>3. Held(m)' = H /\ \A i : At(i)' = At(i) /\ Width(i)' = Width(i)
  BY SamePlan
<1> HIDE DEF H
<1> QED BY <1>1, <1>2, <1>3 DEF BlocksInv

\* And of the pointers, as long as no block was to be asked for.
LEMMA PtrsKept ==
  ASSUME NEW n, NEW m, PtrsInv(n), p' = p, head' = head,
         \A j \in 1..Count : AllocAt(j) <= m <=> AllocAt(j) <= n
  PROVE  PtrsInv(m)'
<1>1. test' = test /\ Count' = Count
      /\ \A i : At(i)' = At(i) /\ Fits(i)' = Fits(i) /\ AllocAt(i)' = AllocAt(i)
  BY SamePlan
<1> QED BY <1>1 DEF PtrsInv

\* A call under way.
LEMMA CallGoesOn ==
  ASSUME TestInv, NEW n, RunInv(n), Steps, call' # Idle
  PROVE  RunInv(n)' /\ result' = result
<1>1. /\ IInv /\ Step /\ head' = head /\ live' = live /\ size' = size
      /\ UNCHANGED testing
      /\ Done(n) /\ PtrsInv(n) /\ BlocksInv(n) /\ CallsInv /\ Counted(n)
  BY StepKeeps DEF TestInv, RunInv, Steps
<1>2. p' = p /\ todo' = todo /\ result' = result
  BY <1>1 DEF testing
<1>3. /\ Script' = Script /\ Counted(n)' = Counted(n)
      /\ \A i : Width(i)' = Width(i) /\ At(i)' = At(i) /\ Fits(i)' = Fits(i)
  BY <1>1, SamePlan
<1>4. Done(n)' /\ PtrsInv(n)' /\ BlocksInv(n)' /\ Counted(n)'
  BY <1>1, <1>2, <1>3, BlocksKept, PtrsKept DEF Done
<1>5. CallsInv'
  <2>1. CASE call.op = "find"
    <3>1. call'.op = "find" /\ call'.want = call.want /\ call'.owner = call.owner
      BY <1>1, <2>1, StepKeeps
    <3> QED BY <1>1, <1>2, <1>3, <2>1, <3>1 DEF CallsInv
  <2>2. CASE call.op # "find"
    <3>1. /\ call.op \in {"seek", "walk"} /\ call'.op \in {"seek", "walk"}
          /\ call'.node = call.node /\ call'.owner = call.owner
      BY <1>1, <2>2, StepKeeps
    <3>2. call'.op # "find"
      BY <3>1
    <3> QED BY <1>1, <1>2, <1>3, <3>1, <3>2 DEF CallsInv
  <2> QED BY <2>1, <2>2
<1> QED BY <1>2, <1>4, <1>5 DEF RunInv

\* The test asks for its next block.
LEMMA AllocBegins ==
  ASSUME SaneTests, TestInv, test \in {"coalescing", "leakage"}, NEW n, RunInv(n), k_mem_alloc
  PROVE  RunInv(n)' /\ result' = result
<1>1. /\ IInv /\ TodoInv /\ Head(todo).do = "alloc" /\ Alloc(Head(todo).bytes, Tester)
      /\ UNCHANGED testing
      /\ Done(n) /\ PtrsInv(n) /\ BlocksInv(n) /\ Counted(n)
  BY DEF TestInv, RunInv, k_mem_alloc, Does
<1>2. /\ p' = p /\ todo' = todo /\ result' = result /\ head' = head /\ live' = live /\ size' = size
      /\ call'.op = "find" /\ call'.want = Want(Head(todo).bytes) /\ call'.owner = Tester
  BY <1>1 DEF testing, Alloc
<1>3. /\ Script' = Script /\ Counted(n)' = Counted(n) /\ \A i : Width(i)' = Width(i)
  BY <1>2, SamePlan
<1>4. Done(n)' /\ PtrsInv(n)' /\ BlocksInv(n)' /\ Counted(n)'
  BY <1>1, <1>2, <1>3, BlocksKept, PtrsKept DEF Done
<1>5. Want(Head(todo).bytes) = Width(Len(p) + 1)
  <2>1. n \in Nat /\ Plan(Head(todo), n + 1)
    BY <1>1, NowAt
  <2>2. PICK i \in 1..Count :
          /\ Want(Head(todo).bytes) = Width(i)
          /\ \A j \in 1..Count : AllocAt(j) <= n <=> j < i
    BY <1>1, <2>1, HeldNext
  <2>3. \A j \in 1..Count : j <= Len(p) <=> j < i
    BY <1>1, <2>2 DEF PtrsInv
  <2>4. Len(p) \in Nat /\ Count \in Nat
    BY LenProperties, PlanFacts DEF TestInv, PtrInv
  <2>5. i # 1 => i - 1 \in 1..Count /\ i - 1 < i
    BY <2>4
  <2>6. Len(p) + 1 = i
    BY <2>3, <2>4, <2>5
  <2> QED BY <2>2, <2>6
<1>6. CallsInv'
  BY <1>2, <1>3, <1>5 DEF CallsInv
<1> QED BY <1>2, <1>4, <1>6 DEF RunInv

\* A test that goes on passes only with a memory that was large enough.
LEMMA LastPasses ==
  ASSUME SaneTests, TestInv, test \in {"coalescing", "leakage"}, NEW n, PtrsInv(n), n \in Nat,
         n + 1 = Len(Script), test = "coalescing" => Room > 60
  PROVE  EnoughFor
<1>1. /\ head \in Nat /\ END \in Nat /\ Room \in Nat /\ END = head + Room
  BY AtFacts DEF TestInv
<1>2. CASE test = "coalescing"
  <2>1. Rest(9 * 5) = Room - 45
    BY <1>1 DEF Rest
  <2>2. EnoughFor <=> 8 * Rest(9 * 5) > 3 * 40
    BY <1>2 DEF EnoughFor
  <2> QED BY <1>1, <1>2, <2>1, <2>2
<1>3. CASE test = "leakage"
  <2>1. /\ EnoughFor <=> Upto(BLOCKS) <= Room
        /\ BLOCKS \in 1..Count /\ Offset(BLOCKS) + Width(BLOCKS) = Upto(BLOCKS)
    BY <1>1, <1>3, LeakageNeeds
  <2>2. AllocAt(BLOCKS) <= n
    <3>1. AllocAt(BLOCKS) = BLOCKS /\ Len(Script) = 4 * BLOCKS + 1 /\ BLOCKS \in Nat
      <4>1. BLOCKS \in Nat /\ AllocAt(BLOCKS) = BLOCKS
        BY UnitFacts DEF AllocAt
      <4> QED BY <1>3, <4>1, LeakagePlan
    <3> QED BY <3>1
  <2>3. Fits(BLOCKS)
    BY <1>3, <2>1, <2>2 DEF PtrsInv
  <2> QED BY <2>1, <2>3 DEF Fits
<1> QED BY <1>2, <1>3

\* What the test goes on to after a deallocation.
LEMMA FreedOn ==
  ASSUME SaneTests, TestInv, test \in {"coalescing", "leakage"}, result = "running",
         NEW n, RunInv(n), todo # <<>>, Head(todo).do = "free", Proceeds(Tail(todo), result),
         p' = p, head' = head, call' = Idle, BlocksInv(n + 1)'
  PROVE  VerdictInv'
<1>1. /\ TodoInv /\ Done(n) /\ PtrsInv(n) /\ Counted(n)
  BY DEF TestInv, RunInv
<1>2. n \in Nat /\ n + 1 \in 1..Len(Script) /\ Len(Script) \in Nat /\ Plan(Head(todo), n + 1)
  BY <1>1, NowAt, ScriptPlan
<1>3. \A j \in 1..Count : AllocAt(j) <= n + 1 <=> AllocAt(j) <= n
  BY <1>2, HeldNext
<1>4. test' = test /\ EnoughFor' = EnoughFor /\ call'.op = "idle"
  BY SamePlan DEF Idle
<1>5. CASE n + 1 < Len(Script)
  <2>1. result' = "running" /\ Done(n + 1)'
    BY <1>1, <1>5, NextAt
  <2>2. PtrsInv(n + 1)'
    BY <1>1, <1>3, PtrsKept
  <2>3. Counted(n + 1)'
    <3>1. test = "coalescing" => n + 1 # 10 /\ n + 1 # 15
      <4> SUFFICES ASSUME test = "coalescing", n + 1 = 10 \/ n + 1 = 15 PROVE FALSE
        OBVIOUS
      <4>1. Head(todo) = Script[n + 1] /\ Script = Coalescing
        BY <1>1, NowAt DEF Script
      <4>2. Coalescing[10].do = "count" /\ Coalescing[15].do = "count"
        BY CoalescingAt
      <4> QED BY <4>1, <4>2
    <3>2. Counted(n + 1)
      BY <1>1, <1>2, <3>1 DEF Counted
    <3> QED BY <3>2, SamePlan
  <2>4. RunInv(n + 1)'
    BY <1>4, <2>1, <2>2, <2>3 DEF RunInv, CallsInv
  <2>5. n + 1 \in Nat
    BY <1>2
  <2> QED BY <1>4, <2>1, <2>4, <2>5 DEF VerdictInv
<1>6. CASE ~(n + 1 < Len(Script))
  <2>1. result' = "passed" /\ todo' = <<>> /\ n + 1 = Len(Script)
    BY <1>1, <1>6, NextAt
  <2>2. test # "coalescing"
    <3> SUFFICES ASSUME test = "coalescing" PROVE FALSE
      OBVIOUS
    <3>1. Head(todo) = Script[n + 1] /\ Script = Coalescing /\ Len(Script) = 22
      BY <1>1, NowAt, CoalescingPlan DEF Script
    <3>2. Coalescing[22].do = "count"
      BY CoalescingAt
    <3> QED BY <2>1, <3>1, <3>2
  <2>3. EnoughFor
    BY <1>1, <1>2, <2>1, <2>2, LastPasses
  <2> QED BY <1>4, <2>1, <2>3 DEF VerdictInv
<1> QED BY <1>5, <1>6

\* The test frees a block, or what it got instead of one.
LEMMA DeallocBegins ==
  ASSUME SaneTests, TestInv, test \in {"coalescing", "leakage"}, result = "running",
         NEW n, RunInv(n), k_mem_dealloc
  PROVE  VerdictInv'
<1>1. /\ IInv /\ TodoInv /\ todo # <<>> /\ Head(todo).do = "free" /\ call = Idle
      /\ Done(n) /\ PtrsInv(n) /\ BlocksInv(n) /\ Counted(n)
  BY DEF TestInv, RunInv, k_mem_dealloc, Does
<1>2. n \in Nat /\ Plan(Head(todo), n + 1)
  BY <1>1, NowAt
<1> DEFINE k == Head(todo).which
<1>3. /\ k \in 1..Count /\ AllocAt(k) <= n
      /\ Fits(k) => k \in Held(n)
      /\ Held(n + 1) = Held(n) \ {k}
  BY <1>1, <1>2, HeldNext
<1>4. Ptr = p[k]
  BY DEF Ptr
<1>5. /\ p[k] = IF Fits(k) THEN At(k) + 1 ELSE NULL
      /\ test = "leakage" => Fits(k)
  BY <1>1, <1>3 DEF PtrsInv
<1>6. CASE Fits(k)
  <2>1. At(k) \in Allocated /\ At(k) \in Nat
    BY <1>1, <1>3, <1>6, AtFacts DEF BlocksInv
  <2>2. PICK b \in live : b.at = At(k)
    BY <2>1 DEF Allocated
  <2>3. link[At(k)] = Tester
    BY <1>1, <2>2 DEF BlocksInv, IInv, LiveInv, RoomForAll
  <2>4. Ptr - 1 = At(k) /\ Ptr # NULL
    BY <1>4, <1>5, <1>6, <2>1 DEF NULL
  <2>5. ~Refuses(Ptr)
    BY <2>3, <2>4 DEF Refuses
  <2>6. Dealloc(At(k), Tester) /\ UNCHANGED testing
    BY <2>4, <2>5 DEF k_mem_dealloc
  <2>7. /\ p' = p /\ todo' = todo /\ result' = result /\ head' = head /\ live' = live
           /\ size' = size
        /\ call'.op = "seek" /\ call'.node = At(k) /\ call'.owner = Tester
    BY <2>6 DEF testing, Dealloc
  <2>8. /\ Script' = Script /\ Counted(n)' = Counted(n) /\ test' = test
        /\ \A i : At(i)' = At(i) /\ Fits(i)' = Fits(i)
    BY <2>7, SamePlan
  <2>9. Done(n)' /\ PtrsInv(n)' /\ BlocksInv(n)' /\ Counted(n)'
    BY <1>1, <2>7, <2>8, BlocksKept, PtrsKept DEF Done
  <2>10. CallsInv'
    BY <1>6, <2>7, <2>8 DEF CallsInv
  <2>11. RunInv(n)'
    BY <2>9, <2>10 DEF RunInv
  <2> QED BY <1>2, <2>7, <2>11 DEF VerdictInv
<1>7. CASE ~Fits(k)
  <2>1. Refuses(Ptr)
    BY <1>4, <1>5, <1>7 DEF Refuses
  <2>2. DeallocReturns(RTX_ERR) /\ UNCHANGED mem
    BY <2>1 DEF k_mem_dealloc
  <2>3. p' = p /\ Proceeds(Tail(todo), result)
    BY <1>5, <1>7, <2>2 DEF DeallocReturns
  <2>4. head' = head /\ live' = live /\ size' = size /\ call' = Idle
    BY <1>1, <2>2 DEF mem, vars
  <2>5. Held(n + 1) = Held(n)
    <3>1. k \notin Held(n)
      BY <1>7 DEF Held
    <3> QED BY <1>3, <3>1
  <2>6. BlocksInv(n + 1)'
    BY <1>1, <2>4, <2>5, BlocksKept
  <2> QED BY <1>1, <2>3, <2>4, <2>6, FreedOn
<1> QED BY <1>6, <1>7

\* The deallocation of a held block ends with the block freed.
LEMMA DeallocEnds ==
  ASSUME SaneTests, TestInv, test \in {"coalescing", "leakage"}, result = "running",
         NEW n, RunInv(n), Steps, call' = Idle, call.op # "find"
  PROVE  VerdictInv'
<1>1. /\ IInv /\ TodoInv /\ Step /\ head' = head /\ todo # <<>> /\ Head(todo).do = "free"
      /\ Done(n) /\ PtrsInv(n) /\ BlocksInv(n) /\ CallsInv /\ Counted(n)
      /\ call.op \in {"seek", "walk"}
  BY StepShape DEF TestInv, CallInv, RunInv, Steps, IInv
<1>2. n \in Nat /\ Plan(Head(todo), n + 1)
  BY <1>1, NowAt
<1> DEFINE k == Head(todo).which
<1>3. /\ k \in 1..Count /\ Fits(k) /\ k \in Held(n) /\ Held(n + 1) = Held(n) \ {k}
      /\ call.node = At(k) /\ At(k) \in Allocated
  <2>1. Fits(k) /\ call.node = At(k)
    BY <1>1 DEF CallsInv
  <2> QED BY <1>1, <1>2, <2>1, HeldNext DEF BlocksInv
<1>4. Free
  <2>1. ~Seek
    <3> SUFFICES ASSUME Seek PROVE FALSE
      OBVIOUS
    <3>1. call \in [op : {"seek"}, node : Int, owner : Owners, start : Int, stop : Int]
      BY <1>1 DEF Seek, IInv, SeekInv
    <3>2. [call EXCEPT !.start = call.stop, !.stop = link[call.stop]].op = "seek"
      BY <3>1
    <3>3. call'.op \in {"seek", "walk"}
      BY <3>2 DEF Seek
    <3> QED BY <3>3 DEF Idle
  <2>2. ~Walk
    <3> SUFFICES ASSUME Walk PROVE FALSE
      OBVIOUS
    <3>1. call.op = "walk"
      BY DEF Walk
    <3>2. /\ call \in [op : {"walk"}, node : Int, owner : Owners,
                      start : Int, stop : Int, temp : Int]
          /\ call.temp \in Allocated \cup FreeBlocks \cup {END} /\ call.temp <= call.node
      BY <1>1, <1>3, <3>1 DEF IInv, WalkInv
    <3>3. call.temp <= call.node /\ (call.stop = NULL \/ call.node < call.stop)
      <4>1. PICK b \in live : b.at = At(k)
        BY <1>3 DEF Allocated
      <4>2. b.owner = call.owner
        BY <1>1, <4>1 DEF BlocksInv, CallsInv
      <4> QED BY <1>1, <1>3, <3>1, <4>1, <4>2, InvImpliesFound DEF LiveIsFound
    <3>4. /\ END \in Nat /\ call.node < END /\ NULL = 0
          /\ \A a \in Allocated \cup FreeBlocks \cup {END} : a \in Nat \ {0}
      <4>1. /\ \A a \in Allocated \cup FreeBlocks : a \in Addresses
            /\ head \in Nat \ {0} /\ MEM \in Nat /\ END = MEM + 1
        BY <1>1, BlockFacts, AtFacts, MemNat DEF IInv
      <4> QED BY <1>3, <4>1 DEF NULL, Addresses
    <3>5. call.temp \in Nat \ {0} /\ call.stop \in Int /\ call.node \in Int
      BY <3>2, <3>4
    <3>6. call.temp < END /\ call.temp # call.stop
      BY <3>2, <3>3, <3>4, <3>5
    <3>7. [call EXCEPT !.temp = @ + size[call.temp]].op = "walk"
      BY <3>2
    <3> QED BY <3>6, <3>7 DEF Walk, Idle
  <2> QED BY <1>1, <2>1, <2>2 DEF Step, Find, Take
<1>5. /\ live' \subseteq live /\ Allocated' = Allocated \ {At(k)}
      /\ \A a \in Allocated \ {At(k)} : size'[a] = size[a]
  BY <1>1, <1>3, <1>4, Freed
<1>6. p' = p /\ Proceeds(Tail(todo), result)
  <2>1. call.temp = call.node /\ call.temp # call.stop
    BY <1>4 DEF Free
  <2>2. DeallocReturns(RTX_OK)
    BY <2>1 DEF Steps
  <2>3. RTX_OK # RTX_ERR
    BY DEF RTX_OK, RTX_ERR
  <2> QED BY <2>2, <2>3 DEF DeallocReturns
<1>7. BlocksInv(n + 1)'
  <2> DEFINE H == Held(n)
             K == Held(n + 1)
  <2>1. /\ Allocated = {At(i) : i \in H}
        /\ \A i, j \in H : size[At(i)] = Width(i) /\ (At(i) = At(j) => i = j)
        /\ \A b \in live : b.owner = Tester
    BY <1>1 DEF BlocksInv
  <2>2. K = H \ {k} /\ k \in H
    BY <1>3
  <2> HIDE DEF H, K, k
  <2>3. /\ Allocated' = {At(i) : i \in K}
        /\ \A b \in live' : b.owner = Tester
    BY <1>5, <2>1, <2>2
  <2>4. \A i, j \in K : size'[At(i)] = Width(i) /\ (At(i) = At(j) => i = j)
    <3>1. \A i \in K : At(i) \in Allocated \ {At(k)}
      BY <2>1, <2>2
    <3> QED BY <1>5, <2>1, <2>2, <3>1
  <2> QED BY <1>1, <2>3, <2>4, SamePlan DEF BlocksInv, K
<1> QED BY <1>1, <1>6, <1>7, FreedOn

-----------------------------------------------------------------------------
\* What CountTwice counts, and what it expects of it.
Header == 8 * (p[2] - p[1]) - 32
SmallBlocks(blocks) == k_mem_count_extfrag(blocks * (32 + Header) + 1)
AsExpected(stage) ==
  CASE stage = 1 -> SmallBlocks(1) = 0 /\ SmallBlocks(3) = 0
    [] stage = 2 -> SmallBlocks(1) = 4 /\ SmallBlocks(3) = 4
    [] stage = 3 -> SmallBlocks(1) = 0 /\ SmallBlocks(3) = 2
    [] stage = 4 -> SmallBlocks(9) = 0

\* The action in these terms.
LEMMA CountTwiceIs ==
  ASSUME CountTwice
  PROVE  /\ Does("count") /\ UNCHANGED mem /\ p' = p
         /\ IF AsExpected(Head(todo).stage) THEN Proceeds(Tail(todo), result)
            ELSE Proceeds(Frees(Remaining[Head(todo).stage]), "failed")
  BY Zenon DEF CountTwice, AsExpected, SmallBlocks, Header

\* The number of a few things.
LEMMA FewThings ==
  /\ Cardinality({}) = 0
  /\ \A a : Cardinality({a}) = 1
  /\ \A a, b : a # b => Cardinality({a, b}) = 2
  /\ \A a, b, c, d : a # b /\ a # c /\ a # d /\ b # c /\ b # d /\ c # d
                       => Cardinality({a, b, c, d}) = 4
<1>1. IsFiniteSet({}) /\ Cardinality({}) = 0
  BY FS_EmptySet
<1>2. ASSUME NEW S, IsFiniteSet(S), NEW x, x \notin S
      PROVE  IsFiniteSet(S \cup {x}) /\ Cardinality(S \cup {x}) = Cardinality(S) + 1
  BY <1>2, FS_AddElement
<1>3. \A a : IsFiniteSet({a}) /\ Cardinality({a}) = 1
  BY FS_Singleton
<1>4. ASSUME NEW a, NEW b, a # b PROVE IsFiniteSet({a, b}) /\ Cardinality({a, b}) = 2
  <2>1. {a, b} = {a} \cup {b} /\ b \notin {a}
    BY <1>4
  <2>2. IsFiniteSet({a}) /\ Cardinality({a}) = 1
    BY <1>3
  <2>3. IsFiniteSet({a} \cup {b}) /\ Cardinality({a} \cup {b}) = Cardinality({a}) + 1
    BY <1>2, <2>1, <2>2
  <2> QED BY <2>1, <2>2, <2>3
<1>5. ASSUME NEW a, NEW b, NEW c, NEW d, a # b, a # c, a # d, b # c, b # d, c # d
      PROVE  Cardinality({a, b, c, d}) = 4
  <2>1. {a, b, c} = {a, b} \cup {c} /\ c \notin {a, b}
    BY <1>5
  <2>2. IsFiniteSet({a, b, c}) /\ Cardinality({a, b, c}) = 3
    <3>1. IsFiniteSet({a, b}) /\ Cardinality({a, b}) = 2
      BY <1>4, <1>5
    <3> QED BY <1>2, <2>1, <3>1
  <2>3. {a, b, c, d} = {a, b, c} \cup {d} /\ d \notin {a, b, c}
    BY <1>5
  <2> QED BY <1>2, <2>2, <2>3
<1>6. \A a, b : a # b => Cardinality({a, b}) = 2
  BY <1>4
<1>7. \A a, b, c, d : a # b /\ a # c /\ a # d /\ b # c /\ b # d /\ c # d
                        => Cardinality({a, b, c, d}) = 4
  BY <1>5
<1> QED BY <1>1, <1>3, <1>6, <1>7

\* The free blocks counted are those of the few that are small enough.
LEMMA CountIs ==
  ASSUME NEW bytes, NEW F, F = FreeBlocks
  PROVE  /\ (\A a \in F : ~(8 * size[a] < bytes)) => k_mem_count_extfrag(bytes) = 0
         /\ (\E a \in F : 8 * size[a] < bytes /\ F = {a}) => k_mem_count_extfrag(bytes) = 1
         /\ F = {} => k_mem_count_extfrag(bytes) = 0
         /\ \A S : S \subseteq F /\ (\A a \in F : a \in S <=> 8 * size[a] < bytes)
                     => k_mem_count_extfrag(bytes) = Cardinality(S)
<1> DEFINE C == {a \in FreeBlocks : 8 * size[a] < bytes}
<1>1. k_mem_count_extfrag(bytes) = Cardinality(C)
  BY DEF k_mem_count_extfrag
<1>2. (\A a \in F : ~(8 * size[a] < bytes)) => C = {}
  OBVIOUS
<1>3. \A a \in F : 8 * size[a] < bytes /\ F = {a} => C = {a}
  OBVIOUS
<1>4. F = {} => C = {}
  OBVIOUS
<1>5. \A S : S \subseteq F /\ (\A a \in F : a \in S <=> 8 * size[a] < bytes) => C = S
  OBVIOUS
<1> HIDE DEF C
<1> QED BY <1>1, <1>2, <1>3, <1>4, <1>5, FewThings

\* The test of coalescing in numbers.
LEMMA CoalescingFacts ==
  ASSUME SaneTests, TestInv, test = "coalescing", NEW n \in Nat, 9 <= n, PtrsInv(n), BlocksInv(n)
  PROVE  /\ head \in Nat \ {0} /\ END \in Nat /\ Room \in Nat \ {0} /\ END = head + Room
         /\ FreeBlocks \subseteq head..(END - 1)
         /\ 10 <= Room => Header = 8
         /\ \A i \in 1..9 : /\ Fits(i) <=> 5 * i <= Room
                            /\ i \in Held(n) <=> n < FreedAt(i) /\ Fits(i)
                            /\ i \in Held(n) => head + 5 * (i - 1) \in Allocated
                                                /\ size[head + 5 * (i - 1)] = 5
         /\ \A a \in Allocated : \E i \in Held(n) : i \in 1..9 /\ a = head + 5 * (i - 1)
<1>1. IInv /\ Count = 9 /\ \A i \in 1..9 : AllocAt(i) = i /\ Width(i) = 5 /\ Offset(i) = 5 * (i - 1)
  BY DEF TestInv, Count, AllocAt, Width, Offset
<1>2. head \in Nat \ {0} /\ MEM \in Nat /\ END \in Nat /\ END = MEM + 1 /\ Room \in Nat \ {0}
      /\ END = head + Room
  BY <1>1, AtFacts, MemNat
<1>3. FreeBlocks \subseteq head..(END - 1)
  <2>1. FreeBlocks \subseteq head..MEM
    BY <1>1, BlockFacts DEF IInv, Addresses
  <2>2. END - 1 = MEM
    BY <1>2
  <2> QED BY <2>1, <2>2
<1>4. \A i \in 1..9 : At(i) = head + 5 * (i - 1)
  BY <1>1 DEF At
<1>5. \A i \in 1..9 : Fits(i) <=> 5 * i <= Room
  <2> TAKE i \in 1..9
  <2>1. Fits(i) <=> 5 * (i - 1) + 5 <= Room
    BY <1>1 DEF Fits
  <2>2. 5 * (i - 1) + 5 = 5 * i
    OBVIOUS
  <2> QED BY <2>1, <2>2
<1>6. \A i \in 1..9 : i \in Held(n) <=> n < FreedAt(i) /\ Fits(i)
  <2>1. \A i \in 1..9 : AllocAt(i) <= n
    BY <1>1
  <2> QED BY <1>1, <2>1 DEF Held
<1>7. 10 <= Room => Header = 8
  <2> SUFFICES ASSUME 10 <= Room PROVE Header = 8
    OBVIOUS
  <2>1. 1 \in 1..9 /\ 2 \in 1..9
    OBVIOUS
  <2>2. Fits(1) /\ Fits(2)
    BY <1>2, <1>5, <2>1
  <2>3. AllocAt(1) <= n /\ AllocAt(2) <= n
    BY <1>1, <2>1
  <2>4. p[1] = At(1) + 1 /\ p[2] = At(2) + 1
    BY <1>1, <2>1, <2>2, <2>3 DEF PtrsInv
  <2>5. At(1) = head /\ At(2) = head + 5
    BY <1>2, <1>4, <2>1
  <2> QED BY <1>2, <2>4, <2>5 DEF Header
<1>8. \A i \in Held(n) : i \in 1..9 /\ At(i) \in Allocated /\ size[At(i)] = 5
  BY <1>1 DEF BlocksInv, Held
<1>9. \A a \in Allocated : \E i \in Held(n) : i \in 1..9 /\ a = head + 5 * (i - 1)
  BY <1>1, <1>4, <1>8 DEF BlocksInv
<1> QED BY <1>2, <1>3, <1>4, <1>5, <1>6, <1>7, <1>8, <1>9

\* Nine blocks allocated: what is free is the rest.
LEMMA StageOne ==
  ASSUME SaneTests, TestInv, test = "coalescing", PtrsInv(9), BlocksInv(9)
  PROVE  /\ Room > 60 => AsExpected(1)
         /\ AsExpected(1) => (Room > 45 => Room > 60)
<1>1. IInv
  BY DEF TestInv
<1>2. 9 \in Nat /\ 9 <= 9
  OBVIOUS
<1>3. /\ head \in Nat \ {0} /\ END \in Nat /\ Room \in Nat \ {0} /\ END = head + Room
      /\ FreeBlocks \subseteq head..(END - 1)
      /\ 10 <= Room => Header = 8
      /\ \A i \in 1..9 : /\ Fits(i) <=> 5 * i <= Room
                         /\ i \in Held(9) <=> 9 < FreedAt(i) /\ Fits(i)
                         /\ i \in Held(9) => head + 5 * (i - 1) \in Allocated
                                             /\ size[head + 5 * (i - 1)] = 5
      /\ \A a \in Allocated : \E i \in Held(9) : i \in 1..9 /\ a = head + 5 * (i - 1)
  BY <1>2, CoalescingFacts
<1> SUFFICES ASSUME Room > 45 PROVE AsExpected(1) <=> Room > 60
  BY <1>3
<1> DEFINE x == head + 45
<1>4. \A i \in 1..9 : FreedAt(i) \in 11..21
  BY DEF FreedAt
<1>5. \A i \in 1..9 : i \in Held(9)
  <2> TAKE i \in 1..9
  <2>1. 5 * i <= Room /\ 9 < FreedAt(i)
    BY <1>3, <1>4
  <2> QED BY <1>3, <2>1
<1>6. /\ x \in FreeBlocks /\ size[x] = END - x
      /\ \A f \in FreeBlocks : x <= f /\ f < END => f = x
  <2>1. x \in Nat /\ x < END
    BY <1>3
  <2>2. \E a \in Allocated : a + size[a] = x
    <3>1. 9 \in 1..9 /\ head + 5 * (9 - 1) = head + 40
      BY <1>3
    <3>2. head + 40 \in Allocated /\ size[head + 40] = 5
      BY <1>3, <1>5, <3>1
    <3>3. (head + 40) + 5 = x
      BY <1>3
    <3> QED BY <3>2, <3>3
  <2>3. \A a \in Allocated : ~(x <= a /\ a < END)
    <3> TAKE a \in Allocated
    <3>1. PICK i \in 1..9 : a = head + 5 * (i - 1)
      BY <1>3
    <3> QED BY <1>3, <3>1
  <2> HIDE DEF x
  <2> QED BY <1>1, <1>3, <2>1, <2>2, <2>3, Gap
<1>7. \A f \in FreeBlocks : x <= f /\ f < END
  <2> SUFFICES ASSUME NEW f \in FreeBlocks, f < x PROVE FALSE
    BY <1>3
  <2> DEFINE i == (f - head) \div 5 + 1
  <2>1. f \in Nat /\ head <= f /\ f - head \in 0..44
    BY <1>3
  <2>2. i \in 1..9 /\ 5 * (i - 1) <= f - head /\ f - head < 5 * (i - 1) + 5
    BY <2>1
  <2> HIDE DEF i
  <2>3. head + 5 * (i - 1) \in Allocated /\ size[head + 5 * (i - 1)] = 5
    BY <1>3, <1>5, <2>2
  <2>4. head + 5 * (i - 1) <= f /\ f < head + 5 * (i - 1) + 5
    BY <1>3, <2>1, <2>2
  <2> QED BY <1>1, <2>3, <2>4, Inside
<1>8. FreeBlocks = {x} /\ size[x] = Room - 45
  <2>1. END - x = Room - 45
    BY <1>3
  <2> HIDE DEF x
  <2>2. FreeBlocks = {x}
    BY <1>6, <1>7
  <2> QED BY <1>6, <2>1, <2>2
<1>9. SmallBlocks(1) = k_mem_count_extfrag(41) /\ SmallBlocks(3) = k_mem_count_extfrag(121)
  BY <1>3 DEF SmallBlocks
<1>10. CASE Room > 60
  <2>1. ~(8 * size[x] < 41) /\ ~(8 * size[x] < 121)
    BY <1>3, <1>8, <1>10
  <2>2. k_mem_count_extfrag(41) = 0 /\ k_mem_count_extfrag(121) = 0
    BY <1>8, <2>1, CountIs
  <2> QED BY <1>9, <1>10, <2>2 DEF AsExpected
<1>11. CASE ~(Room > 60)
  <2>1. 8 * size[x] < 121
    BY <1>3, <1>8, <1>11
  <2>2. k_mem_count_extfrag(121) = 1
    BY <1>8, <2>1, CountIs
  <2> QED BY <1>9, <1>11, <2>2 DEF AsExpected
<1> QED BY <1>10, <1>11

-----------------------------------------------------------------------------
\* Every other block freed: four blocks are free and the rest.
LEMMA StageTwo ==
  ASSUME SaneTests, TestInv, test = "coalescing", PtrsInv(14), BlocksInv(14), Room > 60
  PROVE  AsExpected(2)
<1>1. IInv
  BY DEF TestInv
<1>2. 14 \in Nat /\ 9 <= 14
  OBVIOUS
<1>3. /\ head \in Nat \ {0} /\ END \in Nat /\ Room \in Nat \ {0} /\ END = head + Room
      /\ FreeBlocks \subseteq head..(END - 1)
      /\ 10 <= Room => Header = 8
      /\ \A i \in 1..9 : /\ Fits(i) <=> 5 * i <= Room
                         /\ i \in Held(14) <=> 14 < FreedAt(i) /\ Fits(i)
                         /\ i \in Held(14) => head + 5 * (i - 1) \in Allocated
                                              /\ size[head + 5 * (i - 1)] = 5
      /\ \A a \in Allocated : \E i \in Held(14) : i \in 1..9 /\ a = head + 5 * (i - 1)
  BY <1>2, CoalescingFacts
<1>4. head \in Nat \ {0} /\ END \in Nat /\ Room \in Nat /\ END = head + Room
  BY <1>3
<1>5. /\ head \in Allocated /\ size[head] = 5
      /\ head + 10 \in Allocated /\ size[head + 10] = 5
      /\ head + 20 \in Allocated /\ size[head + 20] = 5
      /\ head + 30 \in Allocated /\ size[head + 30] = 5
      /\ head + 40 \in Allocated /\ size[head + 40] = 5
  <2>1. \A i \in {1, 3, 5, 7, 9} : i \in 1..9 /\ 14 < FreedAt(i) /\ 5 * i <= Room
    BY <1>3 DEF FreedAt
  <2>2. \A i \in {1, 3, 5, 7, 9} : head + 5 * (i - 1) \in Allocated /\ size[head + 5 * (i - 1)] = 5
    BY <1>3, <2>1
  <2>3. /\ head + 5 * (1 - 1) = head /\ head + 5 * (3 - 1) = head + 10
        /\ head + 5 * (5 - 1) = head + 20 /\ head + 5 * (7 - 1) = head + 30
        /\ head + 5 * (9 - 1) = head + 40
    BY <1>4
  <2> QED BY <2>2, <2>3
<1>6. \A a \in Allocated : a = head \/ a = head + 10 \/ a = head + 20 \/ a = head + 30
      \/ a = head + 40
  <2> TAKE a \in Allocated
  <2>1. PICK i \in 1..9 : 14 < FreedAt(i) /\ a = head + 5 * (i - 1)
    BY <1>3
  <2>2. i \in {1, 3, 5, 7, 9}
    BY <2>1 DEF FreedAt
  <2> QED BY <1>4, <2>1, <2>2
<1>7. /\ head + 5 \in FreeBlocks /\ size[head + 5] = 5
      /\ \A f \in FreeBlocks : head + 5 <= f /\ f < head + 10 => f = head + 5
  <2> DEFINE x == head + 5
             y == head + 10
  <2>1. x \in Nat /\ y \in Nat /\ x < y /\ y - x = 5 /\ head + 5 = x
    BY <1>4
  <2>2. (\E a \in Allocated : a + size[a] = x) /\ (y = END \/ y \in Allocated)
    BY <1>5, <2>1
  <2>3. \A a \in Allocated : ~(x <= a /\ a < y)
    BY <1>4, <1>6
  <2> HIDE DEF x, y
  <2>4. /\ x \in FreeBlocks /\ size[x] = y - x
        /\ \A f \in FreeBlocks : x <= f /\ f < y => f = x
    BY <1>1, <2>1, <2>2, <2>3, Gap
  <2> QED BY <2>1, <2>4 DEF x, y
<1>8. /\ head + 15 \in FreeBlocks /\ size[head + 15] = 5
      /\ \A f \in FreeBlocks : head + 15 <= f /\ f < head + 20 => f = head + 15
  <2> DEFINE x == head + 15
             y == head + 20
  <2>1. x \in Nat /\ y \in Nat /\ x < y /\ y - x = 5 /\ head + 10 + 5 = x
    BY <1>4
  <2>2. (\E a \in Allocated : a + size[a] = x) /\ (y = END \/ y \in Allocated)
    BY <1>5, <2>1
  <2>3. \A a \in Allocated : ~(x <= a /\ a < y)
    BY <1>4, <1>6
  <2> HIDE DEF x, y
  <2>4. /\ x \in FreeBlocks /\ size[x] = y - x
        /\ \A f \in FreeBlocks : x <= f /\ f < y => f = x
    BY <1>1, <2>1, <2>2, <2>3, Gap
  <2> QED BY <2>1, <2>4 DEF x, y
<1>9. /\ head + 25 \in FreeBlocks /\ size[head + 25] = 5
      /\ \A f \in FreeBlocks : head + 25 <= f /\ f < head + 30 => f = head + 25
  <2> DEFINE x == head + 25
             y == head + 30
  <2>1. x \in Nat /\ y \in Nat /\ x < y /\ y - x = 5 /\ head + 20 + 5 = x
    BY <1>4
  <2>2. (\E a \in Allocated : a + size[a] = x) /\ (y = END \/ y \in Allocated)
    BY <1>5, <2>1
  <2>3. \A a \in Allocated : ~(x <= a /\ a < y)
    BY <1>4, <1>6
  <2> HIDE DEF x, y
  <2>4. /\ x \in FreeBlocks /\ size[x] = y - x
        /\ \A f \in FreeBlocks : x <= f /\ f < y => f = x
    BY <1>1, <2>1, <2>2, <2>3, Gap
  <2> QED BY <2>1, <2>4 DEF x, y
<1>10. /\ head + 35 \in FreeBlocks /\ size[head + 35] = 5
       /\ \A f \in FreeBlocks : head + 35 <= f /\ f < head + 40 => f = head + 35
  <2> DEFINE x == head + 35
             y == head + 40
  <2>1. x \in Nat /\ y \in Nat /\ x < y /\ y - x = 5 /\ head + 30 + 5 = x
    BY <1>4
  <2>2. (\E a \in Allocated : a + size[a] = x) /\ (y = END \/ y \in Allocated)
    BY <1>5, <2>1
  <2>3. \A a \in Allocated : ~(x <= a /\ a < y)
    BY <1>4, <1>6
  <2> HIDE DEF x, y
  <2>4. /\ x \in FreeBlocks /\ size[x] = y - x
        /\ \A f \in FreeBlocks : x <= f /\ f < y => f = x
    BY <1>1, <2>1, <2>2, <2>3, Gap
  <2> QED BY <2>1, <2>4 DEF x, y
<1>11. /\ head + 45 \in FreeBlocks /\ size[head + 45] = Room - 45
       /\ \A f \in FreeBlocks : head + 45 <= f /\ f < END => f = head + 45
  <2> DEFINE x == head + 45
  <2>1. x \in Nat /\ END \in Nat /\ x < END /\ END - x = Room - 45 /\ head + 40 + 5 = x
    BY <1>4
  <2>2. (\E a \in Allocated : a + size[a] = x) /\ (END = END \/ END \in Allocated)
    BY <1>5, <2>1
  <2>3. \A a \in Allocated : ~(x <= a /\ a < END)
    BY <1>4, <1>6
  <2> HIDE DEF x
  <2>4. /\ x \in FreeBlocks /\ size[x] = END - x
        /\ \A f \in FreeBlocks : x <= f /\ f < END => f = x
    BY <1>1, <2>1, <2>2, <2>3, Gap
  <2> QED BY <2>1, <2>4 DEF x
<1>12. ASSUME NEW f \in FreeBlocks
       PROVE  f = head + 5 \/ f = head + 15 \/ f = head + 25 \/ f = head + 35 \/ f = head + 45
  <2>1. f \in Nat /\ head <= f /\ f < END
    BY <1>3
  <2>2. ~(head <= f /\ f < head + 5) /\ ~(head + 10 <= f /\ f < head + 10 + 5)
        /\ ~(head + 20 <= f /\ f < head + 20 + 5)
    BY <1>1, <1>5, Inside
  <2>3. ~(head + 30 <= f /\ f < head + 30 + 5) /\ ~(head + 40 <= f /\ f < head + 40 + 5)
    BY <1>1, <1>5, Inside
  <2> QED BY <1>4, <1>7, <1>8, <1>9, <1>10, <1>11, <2>1, <2>2, <2>3
<1>13. SmallBlocks(1) = k_mem_count_extfrag(41) /\ SmallBlocks(3) = k_mem_count_extfrag(121)
  BY <1>4, <1>3 DEF SmallBlocks
<1> DEFINE S == {head + 5, head + 15, head + 25, head + 35}
<1>14. S \subseteq FreeBlocks /\ Cardinality(S) = 4
  <2> DEFINE a == head + 5
             b == head + 15
             c == head + 25
             d == head + 35
  <2>1. a # b /\ a # c /\ a # d /\ b # c /\ b # d /\ c # d
    BY <1>4
  <2>2. S = {a, b, c, d}
    OBVIOUS
  <2>3. {a, b, c, d} \subseteq FreeBlocks
    BY <1>7, <1>8, <1>9, <1>10, <1>11
  <2> HIDE DEF a, b, c, d, S
  <2>4. Cardinality({a, b, c, d}) = 4
    <3>1. \A w, x, y, z : w # x /\ w # y /\ w # z /\ x # y /\ x # z /\ y # z
                            => Cardinality({w, x, y, z}) = 4
      BY FewThings
    <3> QED BY <2>1, <3>1, Zenon
  <2> QED BY <2>2, <2>3, <2>4
<1>15. ASSUME NEW a \in FreeBlocks
       PROVE  (a \in S <=> 8 * size[a] < 41) /\ (a \in S <=> 8 * size[a] < 121)
  <2>1. CASE a \in S
    BY <1>7, <1>8, <1>9, <1>10, <1>11, <2>1
  <2>2. CASE a \notin S
    <3>1. a = head + 45 /\ size[a] = Room - 45
      BY <1>7, <1>8, <1>9, <1>10, <1>11, <1>12, <2>2
    <3> QED BY <1>4, <2>2, <3>1
  <2> QED BY <2>1, <2>2
<1> HIDE DEF S
<1>16. k_mem_count_extfrag(41) = 4 /\ k_mem_count_extfrag(121) = 4
  BY <1>14, <1>15, CountIs
<1> QED BY <1>13, <1>16 DEF AsExpected

\* Two more freed: two blocks three times as large are free and the rest.
LEMMA StageThree ==
  ASSUME SaneTests, TestInv, test = "coalescing", PtrsInv(17), BlocksInv(17), Room > 60
  PROVE  AsExpected(3)
<1>1. IInv
  BY DEF TestInv
<1>2. 17 \in Nat /\ 9 <= 17
  OBVIOUS
<1>3. /\ head \in Nat \ {0} /\ END \in Nat /\ Room \in Nat \ {0} /\ END = head + Room
      /\ FreeBlocks \subseteq head..(END - 1)
      /\ 10 <= Room => Header = 8
      /\ \A i \in 1..9 : /\ Fits(i) <=> 5 * i <= Room
                         /\ i \in Held(17) <=> 17 < FreedAt(i) /\ Fits(i)
                         /\ i \in Held(17) => head + 5 * (i - 1) \in Allocated
                                              /\ size[head + 5 * (i - 1)] = 5
      /\ \A a \in Allocated : \E i \in Held(17) : i \in 1..9 /\ a = head + 5 * (i - 1)
  BY <1>2, CoalescingFacts
<1>4. head \in Nat \ {0} /\ END \in Nat /\ Room \in Nat /\ END = head + Room
  BY <1>3
<1>5. /\ head \in Allocated /\ size[head] = 5
      /\ head + 20 \in Allocated /\ size[head + 20] = 5
      /\ head + 40 \in Allocated /\ size[head + 40] = 5
  <2>1. \A i \in {1, 5, 9} : i \in 1..9 /\ 17 < FreedAt(i) /\ 5 * i <= Room
    BY <1>3 DEF FreedAt
  <2>2. \A i \in {1, 5, 9} : head + 5 * (i - 1) \in Allocated /\ size[head + 5 * (i - 1)] = 5
    BY <1>3, <2>1
  <2>3. head + 5 * (1 - 1) = head /\ head + 5 * (5 - 1) = head + 20
        /\ head + 5 * (9 - 1) = head + 40
    BY <1>4
  <2> QED BY <2>2, <2>3
<1>6. \A a \in Allocated : a = head \/ a = head + 20 \/ a = head + 40
  <2> TAKE a \in Allocated
  <2>1. PICK i \in 1..9 : 17 < FreedAt(i) /\ a = head + 5 * (i - 1)
    BY <1>3
  <2>2. i \in {1, 5, 9}
    BY <2>1 DEF FreedAt
  <2> QED BY <1>4, <2>1, <2>2
<1>7. /\ head + 5 \in FreeBlocks /\ size[head + 5] = 15
      /\ \A f \in FreeBlocks : head + 5 <= f /\ f < head + 20 => f = head + 5
  <2> DEFINE x == head + 5
             y == head + 20
  <2>1. x \in Nat /\ y \in Nat /\ x < y /\ y - x = 15 /\ head + 5 = x
    BY <1>4
  <2>2. (\E a \in Allocated : a + size[a] = x) /\ (y = END \/ y \in Allocated)
    BY <1>5, <2>1
  <2>3. \A a \in Allocated : ~(x <= a /\ a < y)
    BY <1>4, <1>6
  <2> HIDE DEF x, y
  <2>4. /\ x \in FreeBlocks /\ size[x] = y - x
        /\ \A f \in FreeBlocks : x <= f /\ f < y => f = x
    BY <1>1, <2>1, <2>2, <2>3, Gap
  <2> QED BY <2>1, <2>4 DEF x, y
<1>8. /\ head + 25 \in FreeBlocks /\ size[head + 25] = 15
      /\ \A f \in FreeBlocks : head + 25 <= f /\ f < head + 40 => f = head + 25
  <2> DEFINE x == head + 25
             y == head + 40
  <2>1. x \in Nat /\ y \in Nat /\ x < y /\ y - x = 15 /\ head + 20 + 5 = x
    BY <1>4
  <2>2. (\E a \in Allocated : a + size[a] = x) /\ (y = END \/ y \in Allocated)
    BY <1>5, <2>1
  <2>3. \A a \in Allocated : ~(x <= a /\ a < y)
    BY <1>4, <1>6
  <2> HIDE DEF x, y
  <2>4. /\ x \in FreeBlocks /\ size[x] = y - x
        /\ \A f \in FreeBlocks : x <= f /\ f < y => f = x
    BY <1>1, <2>1, <2>2, <2>3, Gap
  <2> QED BY <2>1, <2>4 DEF x, y
<1>9. /\ head + 45 \in FreeBlocks /\ size[head + 45] = Room - 45
      /\ \A f \in FreeBlocks : head + 45 <= f /\ f < END => f = head + 45
  <2> DEFINE x == head + 45
  <2>1. x \in Nat /\ END \in Nat /\ x < END /\ END - x = Room - 45 /\ head + 40 + 5 = x
    BY <1>4
  <2>2. (\E a \in Allocated : a + size[a] = x) /\ (END = END \/ END \in Allocated)
    BY <1>5, <2>1
  <2>3. \A a \in Allocated : ~(x <= a /\ a < END)
    BY <1>4, <1>6
  <2> HIDE DEF x
  <2>4. /\ x \in FreeBlocks /\ size[x] = END - x
        /\ \A f \in FreeBlocks : x <= f /\ f < END => f = x
    BY <1>1, <2>1, <2>2, <2>3, Gap
  <2> QED BY <2>1, <2>4 DEF x
<1>10. ASSUME NEW f \in FreeBlocks PROVE f = head + 5 \/ f = head + 25 \/ f = head + 45
  <2>1. f \in Nat /\ head <= f /\ f < END
    BY <1>3
  <2>2. ~(head <= f /\ f < head + 5) /\ ~(head + 20 <= f /\ f < head + 20 + 5)
        /\ ~(head + 40 <= f /\ f < head + 40 + 5)
    BY <1>1, <1>5, Inside
  <2> QED BY <1>4, <1>7, <1>8, <1>9, <2>1, <2>2
<1>11. SmallBlocks(1) = k_mem_count_extfrag(41) /\ SmallBlocks(3) = k_mem_count_extfrag(121)
  BY <1>4, <1>3 DEF SmallBlocks
<1> DEFINE S == {head + 5, head + 25}
<1>12. S \subseteq FreeBlocks /\ Cardinality(S) = 2
  <2> DEFINE a == head + 5
             b == head + 25
  <2>1. a # b
    BY <1>4
  <2>2. S = {a, b}
    OBVIOUS
  <2>3. {a, b} \subseteq FreeBlocks
    BY <1>7, <1>8, <1>9
  <2> HIDE DEF a, b, S
  <2>4. Cardinality({a, b}) = 2
    BY <2>1, FewThings
  <2> QED BY <2>2, <2>3, <2>4
<1>13. ASSUME NEW a \in FreeBlocks PROVE ~(8 * size[a] < 41) /\ (a \in S <=> 8 * size[a] < 121)
  <2>1. CASE a \in S
    BY <1>7, <1>8, <1>9, <2>1
  <2>2. CASE a \notin S
    <3>1. a = head + 45 /\ size[a] = Room - 45
      BY <1>7, <1>8, <1>9, <1>10, <2>2
    <3> QED BY <1>4, <2>2, <3>1
  <2> QED BY <2>1, <2>2
<1> HIDE DEF S
<1>14. k_mem_count_extfrag(41) = 0 /\ k_mem_count_extfrag(121) = 2
  BY <1>12, <1>13, CountIs
<1> QED BY <1>11, <1>14 DEF AsExpected

-----------------------------------------------------------------------------
\* With a memory for one block at most, no four are counted.
LEMMA StageTwoShort ==
  ASSUME SaneTests, TestInv, test = "coalescing", PtrsInv(14), BlocksInv(14), AsExpected(2)
  PROVE  10 <= Room
<1>1. IInv
  BY DEF TestInv
<1>2. 14 \in Nat /\ 9 <= 14
  OBVIOUS
<1>3. /\ head \in Nat \ {0} /\ END \in Nat /\ Room \in Nat \ {0} /\ END = head + Room
      /\ FreeBlocks \subseteq head..(END - 1)
      /\ \A i \in 1..9 : /\ Fits(i) <=> 5 * i <= Room
                         /\ i \in Held(14) <=> 14 < FreedAt(i) /\ Fits(i)
                         /\ i \in Held(14) => head + 5 * (i - 1) \in Allocated
                                              /\ size[head + 5 * (i - 1)] = 5
      /\ \A a \in Allocated : \E i \in Held(14) : i \in 1..9 /\ a = head + 5 * (i - 1)
  BY <1>2, CoalescingFacts
<1> SUFFICES ASSUME Room < 10 PROVE FALSE
  BY <1>3
<1>4. ASSUME NEW a \in Allocated PROVE a = head /\ 5 <= Room
  <2>1. PICK i \in 1..9 : 5 * i <= Room /\ a = head + 5 * (i - 1)
    BY <1>3
  <2>2. i = 1
    BY <1>3, <2>1
  <2> QED BY <1>3, <2>1, <2>2
<1>5. \E x : FreeBlocks \subseteq {x}
  <2>1. CASE Allocated = {}
    <3>1. /\ head \in FreeBlocks /\ \A f \in FreeBlocks : head <= f /\ f < END => f = head
      <4>1. head \in Nat /\ END \in Nat /\ head < END
        BY <1>3
      <4> QED BY <1>1, <2>1, <4>1, Gap
    <3>2. FreeBlocks \subseteq {head}
      BY <1>3, <3>1
    <3> QED BY <3>2
  <2>2. CASE Allocated # {}
    <3>1. head \in Allocated /\ 5 <= Room /\ size[head] = 5
      <4>1. head \in Allocated /\ 5 <= Room
        BY <1>4, <2>2
      <4>2. 5 * 1 <= Room /\ 1 \in 1..9 /\ 14 < FreedAt(1)
        BY <4>1 DEF FreedAt
      <4>3. head + 5 * (1 - 1) = head
        BY <1>3
      <4>4. size[head + 5 * (1 - 1)] = 5
        BY <1>3, <4>2
      <4> QED BY <4>1, <4>3, <4>4
    <3> DEFINE x == head + 5
    <3>2. \A f \in FreeBlocks : x <= f /\ f < END
      <4> TAKE f \in FreeBlocks
      <4>1. ~(head <= f /\ f < head + 5)
        BY <1>1, <3>1, Inside
      <4> QED BY <1>3, <4>1
    <3>3. CASE x < END
      <4>1. x \in Nat /\ END \in Nat /\ head + size[head] = x
        BY <1>3, <3>1
      <4>2. \A a \in Allocated : ~(x <= a /\ a < END)
        BY <1>3, <1>4
      <4> HIDE DEF x
      <4>3. \A f \in FreeBlocks : x <= f /\ f < END => f = x
        BY <1>1, <3>1, <3>3, <4>1, <4>2, Gap
      <4>4. FreeBlocks \subseteq {x}
        BY <3>2, <4>3
      <4> QED BY <4>4
    <3>4. CASE ~(x < END)
      <4>1. FreeBlocks \subseteq {x}
        BY <1>3, <3>2, <3>4
      <4> QED BY <4>1
    <3> QED BY <3>3, <3>4
  <2> QED BY <2>1, <2>2
<1>6. PICK x : FreeBlocks \subseteq {x}
  BY <1>5
<1> DEFINE bytes == 1 * (32 + Header) + 1
           C == {a \in FreeBlocks : 8 * size[a] < bytes}
<1>7. SmallBlocks(1) = Cardinality(C)
  BY DEF SmallBlocks, k_mem_count_extfrag
<1>8. C = {} \/ C = {x}
  BY <1>6
<1> HIDE DEF C
<1>9. Cardinality(C) \in {0, 1}
  BY <1>8, FewThings
<1> QED BY <1>7, <1>9 DEF AsExpected

\* Everything freed: the memory is one block again.
LEMMA StageFour ==
  ASSUME SaneTests, TestInv, test = "coalescing", PtrsInv(21), BlocksInv(21), 10 <= Room
  PROVE  AsExpected(4) <=> Room > 45
<1>1. IInv
  BY DEF TestInv
<1>2. 21 \in Nat /\ 9 <= 21
  OBVIOUS
<1>3. /\ head \in Nat \ {0} /\ END \in Nat /\ Room \in Nat \ {0} /\ END = head + Room
      /\ FreeBlocks \subseteq head..(END - 1)
      /\ 10 <= Room => Header = 8
      /\ \A i \in 1..9 : i \in Held(21) <=> 21 < FreedAt(i) /\ Fits(i)
      /\ \A a \in Allocated : \E i \in Held(21) : i \in 1..9 /\ a = head + 5 * (i - 1)
  BY <1>2, CoalescingFacts
<1>4. Allocated = {}
  <2>1. \A i \in 1..9 : ~(21 < FreedAt(i))
    BY DEF FreedAt
  <2> QED BY <1>3, <2>1
<1>5. /\ head \in FreeBlocks /\ size[head] = END - head
      /\ \A f \in FreeBlocks : head <= f /\ f < END => f = head
  <2>1. head \in Nat /\ END \in Nat /\ head < END
    BY <1>3
  <2> QED BY <1>1, <1>4, <2>1, Gap
<1>6. FreeBlocks = {head} /\ size[head] = Room
  <2>1. END - head = Room
    BY <1>3
  <2>2. FreeBlocks = {head}
    <3>1. \A f \in FreeBlocks : head <= f /\ f < END
      BY <1>3
    <3> QED BY <1>5, <3>1, Zenon
  <2> QED BY <1>5, <2>1, <2>2
<1>7. SmallBlocks(9) = k_mem_count_extfrag(361)
  <2>1. 9 * (32 + Header) + 1 = 361
    BY <1>3
  <2> QED BY <2>1 DEF SmallBlocks
<1>8. CASE Room > 45
  <2>1. ~(8 * size[head] < 361)
    BY <1>3, <1>6, <1>8
  <2>2. k_mem_count_extfrag(361) = 0
    BY <1>6, <2>1, CountIs
  <2> QED BY <1>7, <1>8, <2>2 DEF AsExpected
<1>9. CASE ~(Room > 45)
  <2>1. 8 * size[head] < 361
    BY <1>3, <1>6, <1>9
  <2>2. k_mem_count_extfrag(361) = 1
    BY <1>6, <2>1, CountIs
  <2> QED BY <1>7, <1>9, <2>2 DEF AsExpected
<1> QED BY <1>8, <1>9

\* A test that looks at the memory goes on with it unchanged.
LEMMA LooksOn ==
  ASSUME SaneTests, TestInv, test \in {"coalescing", "leakage"}, result = "running",
         NEW n, RunInv(n), call = Idle, Head(todo).do \in {"count", "compare"},
         Proceeds(Tail(todo), result), UNCHANGED mem, p' = p,
         n + 1 < Len(Script) => Counted(n + 1),
         n + 1 = Len(Script) /\ test = "coalescing" => Room > 60
  PROVE  VerdictInv'
<1>1. /\ TodoInv /\ Done(n) /\ PtrsInv(n) /\ BlocksInv(n)
  BY DEF TestInv, RunInv
<1>2. n \in Nat /\ n + 1 \in 1..Len(Script) /\ Len(Script) \in Nat /\ Plan(Head(todo), n + 1)
  BY <1>1, NowAt, ScriptPlan
<1>3. Held(n + 1) = Held(n) /\ \A j \in 1..Count : AllocAt(j) <= n + 1 <=> AllocAt(j) <= n
  BY <1>2, HeldNext
<1>4. head' = head /\ live' = live /\ size' = size /\ call'.op = "idle"
  BY DEF mem, vars, Idle
<1>5. test' = test /\ EnoughFor' = EnoughFor
  BY <1>4, SamePlan
<1>6. CASE n + 1 < Len(Script)
  <2>1. result' = "running" /\ Done(n + 1)'
    BY <1>1, <1>4, <1>6, NextAt
  <2>2. PtrsInv(n + 1)' /\ BlocksInv(n + 1)'
    BY <1>1, <1>3, <1>4, PtrsKept, BlocksKept
  <2>3. Counted(n + 1)'
    BY <1>4, <1>6, SamePlan
  <2>4. RunInv(n + 1)'
    BY <1>4, <2>1, <2>2, <2>3 DEF RunInv, CallsInv
  <2>5. n + 1 \in Nat
    BY <1>2
  <2> QED BY <2>1, <2>4, <2>5 DEF VerdictInv
<1>7. CASE ~(n + 1 < Len(Script))
  <2>1. result' = "passed" /\ todo' = <<>> /\ n + 1 = Len(Script)
    BY <1>1, <1>4, <1>7, NextAt
  <2>2. EnoughFor
    BY <1>1, <1>2, <2>1, LastPasses
  <2> QED BY <1>5, <2>1, <2>2 DEF VerdictInv
<1> QED BY <1>6, <1>7

\* Each count of the test of coalescing is as expected if the memory is large enough,
\* and the last only then.
LEMMA CountStep ==
  ASSUME SaneTests, TestInv, test \in {"coalescing", "leakage"}, result = "running",
         NEW n, RunInv(n), CountTwice
  PROVE  VerdictInv'
<1> DEFINE stage == Head(todo).stage
<1>1. /\ Does("count") /\ UNCHANGED mem /\ p' = p
      /\ IF AsExpected(stage) THEN Proceeds(Tail(todo), result)
         ELSE Proceeds(Frees(Remaining[stage]), "failed")
  BY CountTwiceIs
<1>2. /\ TodoInv /\ Done(n) /\ PtrsInv(n) /\ BlocksInv(n) /\ Counted(n)
      /\ Head(todo).do = "count" /\ call = Idle
  BY <1>1 DEF TestInv, RunInv, Does
<1>3. n \in Nat /\ n + 1 \in 1..Len(Script) /\ Plan(Head(todo), n + 1)
  BY <1>2, NowAt
<1>4. test = "coalescing" /\ <<n + 1, stage>> \in {<<10, 1>>, <<15, 2>>, <<18, 3>>, <<22, 4>>}
  BY <1>2, <1>3 DEF Plan
<1>5. \/ (n = 9 /\ stage = 1) \/ (n = 14 /\ stage = 2)
      \/ (n = 17 /\ stage = 3) \/ (n = 21 /\ stage = 4)
  BY <1>3, <1>4
<1>6. Room \in Nat \ {0} /\ Len(Script) = 22 /\ head' = head /\ EnoughFor' = EnoughFor
      /\ test' = test
  <2>1. head' = head /\ IInv
    BY <1>1 DEF mem, vars, TestInv
  <2> QED BY <1>4, <2>1, AtFacts, CoalescingPlan, SamePlan
<1>7. /\ n >= 10 /\ Room > 45 => Room > 60
      /\ n >= 15 => Room >= 10
  BY <1>2, <1>4 DEF Counted
<1>8. CASE AsExpected(stage)
  <2>1. Proceeds(Tail(todo), result)
    BY <1>1, <1>8
  <2>2. n = 9 => (Room > 45 => Room > 60)
    <3>1. n = 9 => PtrsInv(9) /\ BlocksInv(9) /\ AsExpected(1)
      BY <1>2, <1>5, <1>8
    <3> QED BY <1>4, <3>1, StageOne
  <2>3. n = 14 => Room >= 10
    <3>1. n = 14 => PtrsInv(14) /\ BlocksInv(14) /\ AsExpected(2)
      BY <1>2, <1>5, <1>8
    <3> QED BY <1>4, <1>6, <3>1, StageTwoShort
  <2>4. n = 21 => Room > 60
    <3>1. n = 21 => PtrsInv(21) /\ BlocksInv(21) /\ AsExpected(4) /\ 10 <= Room
          /\ (Room > 45 => Room > 60)
      BY <1>2, <1>5, <1>6, <1>7, <1>8
    <3> QED BY <1>4, <3>1, StageFour
  <2>5. n + 1 < Len(Script) => Counted(n + 1)
    BY <1>5, <1>6, <1>7, <2>2, <2>3 DEF Counted
  <2>6. n + 1 = Len(Script) /\ test = "coalescing" => Room > 60
    BY <1>5, <1>6, <2>4
  <2> QED BY <1>1, <1>2, <2>1, <2>5, <2>6, LooksOn
<1>9. CASE ~AsExpected(stage)
  <2>1. result' = "failed"
    BY <1>1, <1>9 DEF Proceeds
  <2>2. ~(Room > 60)
    <3> SUFFICES ASSUME Room > 60 PROVE AsExpected(stage)
      BY <1>9
    <3>1. CASE n = 9 /\ stage = 1
      BY <1>2, <1>4, <3>1, StageOne
    <3>2. CASE n = 14 /\ stage = 2
      BY <1>2, <1>4, <3>2, StageTwo
    <3>3. CASE n = 17 /\ stage = 3
      BY <1>2, <1>4, <3>3, StageThree
    <3>4. CASE n = 21 /\ stage = 4
      <4>1. 10 <= Room /\ Room > 45
        BY <1>6
      <4> QED BY <1>2, <1>4, <3>4, <4>1, StageFour
    <3> QED BY <1>5, <3>1, <3>2, <3>3, <3>4
  <2>3. ~EnoughFor
    <3>1. Rest(9 * 5) = Room - 45
      <4>1. END \in Nat /\ head \in Nat /\ Room = END - head
        BY AtFacts DEF TestInv, Room
      <4> QED BY <4>1 DEF Rest
    <3>2. EnoughFor <=> 8 * Rest(9 * 5) > 3 * 40
      BY <1>4 DEF EnoughFor
    <3> QED BY <1>6, <2>2, <3>1, <3>2
  <2> QED BY <1>6, <2>1, <2>3 DEF VerdictInv
<1> QED BY <1>8, <1>9

\* The halves of the leakage test begin and end at the same place.
LEMMA CompareStep ==
  ASSUME SaneTests, TestInv, test \in {"coalescing", "leakage"}, result = "running",
         NEW n, RunInv(n), Compare
  PROVE  VerdictInv'
<1> DEFINE N == BLOCKS
           u == Upto(N - 1)
           w == Unit * N
<1>1. /\ IInv /\ TodoInv /\ Done(n) /\ PtrsInv(n) /\ BlocksInv(n) /\ Counted(n)
      /\ Head(todo).do = "compare" /\ call = Idle /\ UNCHANGED mem /\ p' = p
  BY DEF TestInv, RunInv, Compare, Does
<1>2. n \in Nat /\ n + 1 \in 1..Len(Script) /\ Plan(Head(todo), n + 1)
  BY <1>1, NowAt
<1>3. test = "leakage" /\ n + 1 = 3 * N + 1
  BY <1>1, <1>2 DEF Plan
<1>4. N \in Nat \ {0} /\ Count = 2 * N /\ Len(Script) = 4 * N + 1
  BY <1>3, UnitFacts, LeakagePlan DEF Count
<1>5. \A i \in 1..(2 * N) : p[i] = head + Offset(i) + 1
  <2> TAKE i \in 1..(2 * N)
  <2>1. AllocAt(i) <= n
    BY <1>2, <1>3, <1>4 DEF AllocAt
  <2>2. p[i] = At(i) + 1
    BY <1>1, <1>3, <1>4, <2>1 DEF PtrsInv
  <2> QED BY <2>2 DEF At
<1>6. head \in Nat /\ u \in Nat /\ w \in Nat /\ Unit \in Nat /\ STEP = 8 * Unit /\ N * STEP = 8 * w
  <2>1. N - 1 \in Nat /\ Unit \in Nat /\ STEP = 8 * Unit
    BY <1>4, UnitFacts
  <2>2. head \in Nat
    BY <1>1, <1>3, AtFacts
  <2> HIDE DEF N
  <2>3. N * (8 * Unit) = 8 * (Unit * N) /\ Unit * N \in Nat
    BY <1>4, <2>1
  <2> QED BY <2>1, <2>2, <2>3, UptoIs
<1>7. Upto(0) = 0 /\ Upto(1) = Unit + 1 /\ Upto(N) = u + (w + 1)
  <2>1. Upto(0) = 0 /\ Upto(0 + 1) = Upto(0) + (Unit * (0 + 1) + 1)
    BY UptoIs
  <2>2. Unit * (0 + 1) = Unit /\ 0 + 1 = 1
    BY <1>6
  <2>3. N - 1 \in Nat /\ (N - 1) + 1 = N
    BY <1>4
  <2>4. Upto((N - 1) + 1) = Upto(N - 1) + (Unit * ((N - 1) + 1) + 1)
    BY <2>3, UptoIs
  <2> QED BY <1>6, <2>1, <2>2, <2>3, <2>4
<1>8. \A i : Offset(i) = IF i <= N THEN Upto(i - 1) ELSE Upto(N) - Upto(2 * N - i + 1)
  BY <1>3 DEF Offset
<1> HIDE DEF N, u, w
<1>9. Offset(1) = 0 /\ Offset(N + 1) = 0 /\ Offset(N) = u /\ Offset(2 * N) = Upto(N) - Upto(1)
  <2>1. 1 <= N /\ 1 - 1 = 0 /\ N <= N /\ ~(N + 1 <= N) /\ 2 * N - (N + 1) + 1 = N
        /\ ~(2 * N <= N) /\ 2 * N - 2 * N + 1 = 1
    BY <1>4
  <2>2. Offset(1) = 0
    BY <1>7, <1>8, <2>1
  <2>3. Offset(N + 1) = Upto(N) - Upto(N)
    BY <1>8, <2>1
  <2>4. Offset(N) = Upto(N - 1)
    BY <1>8, <2>1
  <2>5. Offset(2 * N) = Upto(N) - Upto(1)
    BY <1>8, <2>1
  <2> QED BY <1>6, <1>7, <2>2, <2>3, <2>4, <2>5 DEF u
<1>10. /\ p[1] = head + 1 /\ p[N + 1] = head + 1 /\ p[N] = head + u + 1
       /\ p[2 * N] = head + (u + (w + 1) - (Unit + 1)) + 1
  <2>1. 1 \in 1..(2 * N) /\ N + 1 \in 1..(2 * N) /\ N \in 1..(2 * N) /\ 2 * N \in 1..(2 * N)
    BY <1>4
  <2> QED BY <1>5, <1>6, <1>7, <1>9, <2>1
<1>11. p[1] = p[N + 1] /\ 8 * p[N] + N * STEP = 8 * p[2 * N] + STEP
  BY <1>6, <1>10
<1>12. Proceeds(Tail(todo), result)
  BY <1>11 DEF Compare, N
<1>13. n + 1 < Len(Script) /\ test # "coalescing"
  BY <1>2, <1>3, <1>4
<1>14. Counted(n + 1)
  BY <1>13 DEF Counted
<1> QED BY <1>1, <1>12, <1>13, <1>14, LooksOn

-----------------------------------------------------------------------------
\* There is a test for each place the image may end at, or none.
LEMMA WhichTest == ASSUME IInv PROVE test \in {"none", "coalescing", "leakage"}
BY TestAssumption DEF IInv, HeapInv, test

\* A test begins at the first statement of its script, with nothing allocated.
LEMMA VerdictInit == ASSUME SaneTests, TestInit PROVE VerdictInv
<1> SUFFICES ASSUME test # "none" PROVE VerdictInv
  BY DEF VerdictInv
<1>1. /\ IInv /\ p = <<>> /\ result = "running" /\ live = {} /\ call.op = "idle"
      /\ Allocated = {} /\ Len(p) = 0
  BY TestInitInv DEF TestInv, TestInit, Init, Idle, Allocated
<1>2. test \in {"coalescing", "leakage"}
  BY <1>1, WhichTest
<1>3. todo = Script
  BY <1>2 DEF TestInit, Script
<1>4. Len(Script) \in Nat \ {0}
  BY <1>2, ScriptPlan, UnitFacts
<1>5. Done(0)
  BY <1>3, <1>4 DEF Done
<1>6. /\ Count \in Nat
      /\ \A i \in 1..Count : AllocAt(i) \in Nat \ {0}
  <2>1. BLOCKS \in Nat /\ Count \in Nat
    <3>1. BLOCKS \in Nat
      BY UnitFacts
    <3> QED BY <3>1 DEF Count
  <2>2. \A i \in 1..Count : i \in Nat \ {0} /\ BLOCKS + i \in Nat \ {0}
    BY <2>1
  <2> QED BY <2>1, <2>2 DEF AllocAt
<1>7. Held(0) = {}
  BY <1>6 DEF Held
<1>8. PtrsInv(0)
  BY <1>1, <1>6 DEF PtrsInv
<1>9. BlocksInv(0)
  BY <1>1, <1>7 DEF BlocksInv
<1>10. RunInv(0)
  BY <1>1, <1>5, <1>8, <1>9 DEF RunInv, CallsInv, Counted
<1> QED BY <1>1, <1>10 DEF VerdictInv

\* A running test's steps.
LEMMA RunningStep ==
  ASSUME SaneTests, TestInv, test \in {"coalescing", "leakage"}, result = "running", VerdictInv,
         Steps \/ k_mem_alloc \/ k_mem_dealloc \/ CountTwice \/ Compare
  PROVE  VerdictInv'
<1>1. PICK n \in Nat : RunInv(n)
  BY DEF VerdictInv
<1>2. ASSUME RunInv(n)', result' = result PROVE VerdictInv'
  BY <1>2 DEF VerdictInv
<1>3. CASE Steps
  <2>1. CASE call' # Idle
    BY <1>1, <1>2, <1>3, <2>1, CallGoesOn
  <2>2. CASE call' = Idle /\ call.op = "find"
    BY <1>1, <1>3, <2>2, AllocEnds
  <2>3. CASE call' = Idle /\ call.op # "find"
    BY <1>1, <1>3, <2>3, DeallocEnds
  <2> QED BY <2>1, <2>2, <2>3
<1>4. CASE k_mem_alloc
  BY <1>1, <1>2, <1>4, AllocBegins
<1>5. CASE k_mem_dealloc
  BY <1>1, <1>5, DeallocBegins
<1>6. CASE CountTwice
  BY <1>1, <1>6, CountStep
<1>7. CASE Compare
  BY <1>1, <1>7, CompareStep
<1> QED BY <1>3, <1>4, <1>5, <1>6, <1>7

\* A test that has failed only gives back what it holds, and one that has passed is over.
LEMMA VerdictStays ==
  ASSUME TestInv, test \in {"coalescing", "leakage"}, result # "running", VerdictInv,
         Steps \/ k_mem_alloc \/ k_mem_dealloc \/ CountTwice \/ Compare
  PROVE  VerdictInv'
<1>1. result # "passed"
  <2> SUFFICES ASSUME result = "passed" PROVE FALSE
    OBVIOUS
  <2>1. todo = <<>>
    BY DEF VerdictInv
  <2>2. call.op = "idle"
    BY <2>1 DEF TestInv, CallInv
  <2>3. ~Steps
    BY <2>2, StepShape DEF Steps, TestInv
  <2> QED BY <2>1, <2>3 DEF k_mem_alloc, k_mem_dealloc, CountTwice, Compare, Does
<1>2. head' = head
  BY StepShape DEF Steps, TestInv, k_mem_alloc, k_mem_dealloc, CountTwice, Compare, Alloc,
                   Dealloc, mem, vars
<1>3. test' = test /\ EnoughFor' = EnoughFor /\ ~EnoughFor
  BY <1>1, <1>2, SamePlan DEF VerdictInv
<1>4. \A rest, verdict : verdict \notin {"running", "passed"} /\ Proceeds(rest, verdict)
                           => result' \notin {"running", "passed"}
  BY DEF Proceeds
<1>5. result \notin {"running", "passed"}
  BY <1>1
<1>6. \A ptr : AllocReturns(ptr) => result' \notin {"running", "passed"}
  BY <1>4, <1>5 DEF AllocReturns
<1>7. \A code : DeallocReturns(code) => result' \notin {"running", "passed"}
  BY <1>4, <1>5 DEF DeallocReturns
<1>8. UNCHANGED testing => result' = result
  BY DEF testing
<1>9. result' \notin {"running", "passed"}
  <2>1. CASE Steps
    BY <1>5, <1>6, <1>7, <1>8, <2>1 DEF Steps
  <2>2. CASE k_mem_alloc
    BY <1>5, <1>8, <2>2 DEF k_mem_alloc
  <2>3. CASE k_mem_dealloc
    BY <1>5, <1>7, <1>8, <2>3 DEF k_mem_dealloc
  <2>4. CASE CountTwice
    <3>1. \E rest : Proceeds(rest, result) \/ Proceeds(rest, "failed")
      BY <2>4, CountTwiceIs
    <3> QED BY <1>4, <1>5, <3>1
  <2>5. CASE Compare
    <3>1. \E rest : Proceeds(rest, result) \/ Proceeds(rest, "CODE_HEAP_LEAKAGE_2")
      BY <2>5 DEF Compare
    <3> QED BY <1>4, <1>5, <3>1
  <2> QED BY <2>1, <2>2, <2>3, <2>4, <2>5
<1> QED BY <1>3, <1>9 DEF VerdictInv

\* Every step of the callers keeps the verdict right.
LEMMA VerdictStep ==
  ASSUME SaneSizes, SaneTests, TestInv, VerdictInv, [TestNext]_<<mem, testing>>
  PROVE  VerdictInv'
<1>1. test \in {"none", "coalescing", "leakage"} /\ IInv
  BY WhichTest DEF TestInv
<1>2. CASE UNCHANGED <<mem, testing>>
  <2>1. /\ head' = head /\ size' = size /\ live' = live /\ call' = call
        /\ p' = p /\ todo' = todo /\ result' = result
    BY <1>2 DEF mem, vars, testing
  <2>2. ASSUME NEW n \in Nat, RunInv(n) PROVE RunInv(n)'
    <3>1. Done(n) /\ PtrsInv(n) /\ BlocksInv(n) /\ CallsInv /\ Counted(n)
      BY <2>2 DEF RunInv
    <3>2. Done(n)'
      BY <2>1, <3>1, SamePlan DEF Done
    <3>3. PtrsInv(n)'
      BY <2>1, <3>1, SamePlan DEF PtrsInv
    <3>4. BlocksInv(n)'
      BY <2>1, <3>1, SamePlan DEF BlocksInv, Allocated
    <3>5. CallsInv' /\ Counted(n)'
      BY <2>1, <3>1, SamePlan DEF CallsInv
    <3> QED BY <3>2, <3>3, <3>4, <3>5 DEF RunInv
  <2> QED BY <2>1, <2>2, SamePlan DEF VerdictInv
<1>3. CASE test = "none" /\ TestNext
  <2>1. head' = head
    BY <1>1, <1>3, StepShape DEF TestNext, AnyCall, Call, k_alloc_p_stack, Steps, k_mem_alloc,
                                 k_mem_dealloc, CountTwice, Compare, Alloc, Dealloc, mem, vars
  <2>2. test' = "none"
    BY <1>3, <2>1 DEF test
  <2> QED BY <2>2 DEF VerdictInv
<1>4. CASE test # "none" /\ TestNext
  <2>1. test \in {"coalescing", "leakage"}
    BY <1>1, <1>4
  <2>2. Steps \/ k_mem_alloc \/ k_mem_dealloc \/ CountTwice \/ Compare
    BY <1>4 DEF TestNext, AnyCall
  <2> QED BY <2>1, <2>2, RunningStep, VerdictStays
<1> QED BY <1>2, <1>3, <1>4

-----------------------------------------------------------------------------
\* Under the tests of app/ae_mem.c the memory stays tiled and coalesced, blocks
\* have their room, searches are first fit, live blocks are found and only
\* owners free, for any memory and any number of blocks: a test frees only what
\* it was given (ae_mem.c:58-133, 155-212).
THEOREM TestsKeepMemory ==
  ASSUME SaneSizes, SaneTests
  PROVE  TestSpec => /\ [](Tiled /\ Coalesced /\ RoomForAll /\ PassedAreTooSmall /\ LiveIsFound)
                     /\ OwnersFree
<1>1. TestInit => TestInv
  BY TestInitInv
<1>2. TestInv /\ [TestNext]_<<mem, testing>> => TestInv'
  BY TestNextStep
<1>3. TestInv => Tiled /\ Coalesced /\ RoomForAll /\ PassedAreTooSmall /\ LiveIsFound
  <2>1. IInv => RoomForAll /\ PassedAreTooSmall
    BY DEF IInv, LiveInv, FindInv, PassedAreTooSmall
  <2> QED BY <2>1, InvImpliesTiled, InvImpliesCoalesced, InvImpliesFound DEF TestInv
<1>4. TestInv /\ [TestNext]_<<mem, testing>> =>
        [\A b \in live \ live' : call.op = "walk" /\ call.node = b.at /\ call.owner = b.owner]_vars
  <2> SUFFICES ASSUME TestInv, [TestNext]_<<mem, testing>>, NEW b \in live \ live'
               PROVE  call.op = "walk" /\ call.node = b.at /\ call.owner = b.owner
    OBVIOUS
  <2>1. [Call \/ Step \/ \E n, o : Alloc(n, o) \/ Dealloc(n, o)]_vars
    BY DEF TestNext, AnyCall, Steps, k_mem_alloc, k_mem_dealloc, CountTwice, Compare, mem
  <2> QED BY <2>1, StepFrees DEF TestInv
<1> QED BY <1>1, <1>2, <1>3, <1>4, PTL DEF TestSpec, OwnersFree

\* Both tests of app/ae_mem.c report what they are for, on any memory and for any
\* number and size of blocks: a test that has ended passed if and only if the memory
\* was large enough for it to tell (ae_mem.c:58-133, 155-212).
THEOREM TestsTell ==
  ASSUME SaneSizes, SaneTests
  PROVE  TestSpec => []TestsPass
<1>1. TestInit => TestInv /\ VerdictInv
  BY TestInitInv, VerdictInit
<1>2. TestInv /\ VerdictInv /\ [TestNext]_<<mem, testing>> => TestInv' /\ VerdictInv'
  BY TestNextStep, VerdictStep
<1>3. VerdictInv => TestsPass
  BY DEF VerdictInv, TestsPass
<1> QED BY <1>1, <1>2, <1>3, PTL DEF TestSpec
=============================================================================
