---------------------------- MODULE SetInduction ----------------------------
(***************************************************************************)
(* Induction over the natural numbers for sets of them, and the functions  *)
(* that recursion defines over them.                                       *)
(***************************************************************************)
EXTENDS Integers, WellFoundedInduction, TLAPS

\* The sums of the first numbers of d, with c added to each.
Sums(c, d) == CHOOSE f : f = [n \in Nat |-> IF n = 0 THEN 0 ELSE f[n - 1] + c + d[n]]

\* A set of natural numbers has a least element.
LEMMA Least ==
  ASSUME NEW S \in SUBSET Nat, S # {}
  PROVE  \E m \in S : \A n \in S : m <= n
<1> DEFINE R == OpToRel(<, Nat)
<1>1. IsWellFoundedOn(R, Nat)
  BY NatLessThanWellFounded
<1>2. \A x, y \in Nat : x < y => <<x, y>> \in R
  BY DEF OpToRel
<1> HIDE DEF R
<1>3. PICK m \in S : \A y \in S : <<y, m>> \notin R
  BY <1>1, WFMin
<1>4. \A n \in S : ~(n < m) /\ n \in Nat /\ m \in Nat
  BY <1>2, <1>3
<1>5. \A n \in S : m <= n
  BY <1>4
<1> QED BY <1>5

\* A set that holds 0, and with a number the next one, holds them all.
LEMMA NatSetInduction ==
  ASSUME NEW S, 0 \in S, \A n \in Nat : n \in S => n + 1 \in S
  PROVE  Nat \subseteq S
<1> DEFINE T == Nat \ S
<1> SUFFICES ASSUME T # {} PROVE FALSE
  OBVIOUS
<1>1. PICK m \in T : \A n \in T : m <= n
  BY Least
<1>2. m # 0
  OBVIOUS
<1>3. m - 1 \in Nat /\ m - 1 \in S
  BY <1>1, <1>2
<1> QED BY <1>1, <1>3

\* Such sums exist, and are what they are said to be.
LEMMA SumsAre ==
  ASSUME NEW c, NEW d
  PROVE  /\ Sums(c, d)[0] = 0
         /\ \A n \in Nat : Sums(c, d)[n + 1] = Sums(c, d)[n] + c + d[n + 1]
<1> DEFINE E(f, n) == IF n = 0 THEN 0 ELSE f[n - 1] + c + d[n]
           Part(f, m) == f = [n \in 0..m |-> E(f, n)]
           S == {m \in Nat : \E f : Part(f, m)}
<1>1. 0 \in S
  <2> DEFINE g == [n \in 0..0 |-> 0]
  <2>1. \A n \in 0..0 : E(g, n) = 0
    OBVIOUS
  <2>2. g = [n \in 0..0 |-> E(g, n)]
    BY <2>1
  <2> HIDE DEF g
  <2> QED BY <2>2
<1>2. ASSUME NEW m \in Nat, m \in S PROVE m + 1 \in S
  <2>1. PICK f : Part(f, m)
    BY <1>2
  <2> DEFINE g == [n \in 0..(m + 1) |-> IF n \in 0..m THEN f[n] ELSE E(f, n)]
  <2>2. \A n \in 0..(m + 1) : n # 0 => n - 1 \in 0..m
    OBVIOUS
  <2>3. \A n \in 0..m : g[n] = f[n] /\ n \in 0..(m + 1)
    OBVIOUS
  <2>4. \A n \in 0..(m + 1) : E(g, n) = E(f, n)
    BY <2>2, <2>3
  <2>5. \A n \in 0..m : f[n] = E(f, n)
    BY <2>1
  <2> HIDE DEF E
  <2>6. g = [n \in 0..(m + 1) |-> E(g, n)]
    BY <2>4, <2>5
  <2> HIDE DEF g
  <2> QED BY <2>6
<1>3. Nat \subseteq S
  <2> HIDE DEF S
  <2> QED BY <1>1, <1>2, NatSetInduction
\* Two of them agree as far as both go.
<1>4. ASSUME NEW m \in Nat, NEW k \in Nat, m <= k, NEW f, NEW g, Part(f, m), Part(g, k)
      PROVE  \A n \in 0..m : f[n] = g[n]
  <2> DEFINE T == {n \in Nat : n \in 0..m => f[n] = g[n]}
  <2>1. \A n \in 0..m : f[n] = E(f, n) /\ g[n] = E(g, n)
    <3>1. \A n \in 0..m : n \in 0..k
      BY <1>4
    <3> HIDE DEF E
    <3> QED BY <1>4, <3>1
  <2>2. 0 \in T
    BY <2>1
  <2>3. ASSUME NEW n \in Nat, n \in T PROVE n + 1 \in T
    <3> SUFFICES ASSUME n + 1 \in 0..m PROVE f[n + 1] = g[n + 1]
      OBVIOUS
    <3>1. n \in 0..m /\ n + 1 # 0 /\ (n + 1) - 1 = n
      OBVIOUS
    <3> QED BY <2>1, <2>3, <3>1
  <2>4. Nat \subseteq T
    <3> HIDE DEF T
    <3> QED BY <2>2, <2>3, NatSetInduction
  <2> QED BY <2>4
<1> HIDE DEF E
<1> DEFINE P(m) == CHOOSE f : Part(f, m)
           h == [n \in Nat |-> P(n)[n]]
<1>5. \A m \in Nat : Part(P(m), m)
  BY <1>3
<1> HIDE DEF P
<1>6. \A m \in Nat : P(m)[m] = E(P(m), m)
  BY <1>5
<1>7. ASSUME NEW m \in Nat PROVE h[m] = E(h, m)
  <2>1. CASE m = 0
    BY <1>6, <2>1 DEF E
  <2>2. CASE m # 0
    <3>1. m - 1 \in Nat /\ m - 1 <= m /\ m - 1 \in 0..(m - 1)
      BY <2>2
    <3>2. P(m - 1)[m - 1] = P(m)[m - 1]
      <4>1. Part(P(m - 1), m - 1) /\ Part(P(m), m)
        BY <1>5, <3>1
      <4> HIDE DEF Part
      <4> QED BY <1>4, <3>1, <4>1
    <3>3. h[m - 1] = P(m)[m - 1]
      BY <3>1, <3>2
    <3> QED BY <1>6, <2>2, <3>3 DEF E
  <2> QED BY <2>1, <2>2
<1>8. h = [n \in Nat |-> E(h, n)]
  <2>1. h = [n \in Nat |-> h[n]]
    OBVIOUS
  <2> HIDE DEF h
  <2> QED BY <1>7, <2>1
<1> HIDE DEF h
<1>9. Sums(c, d) = CHOOSE f : f = [n \in Nat |-> E(f, n)]
  BY DEF Sums, E
<1>10. Sums(c, d) = [n \in Nat |-> E(Sums(c, d), n)]
  BY <1>8, <1>9
<1>11. \A n \in Nat : Sums(c, d)[n] = E(Sums(c, d), n)
  BY <1>10
<1>12. \A n \in Nat : n + 1 # 0 /\ (n + 1) - 1 = n /\ n + 1 \in Nat
  OBVIOUS
<1> QED BY <1>11, <1>12 DEF E
=============================================================================
