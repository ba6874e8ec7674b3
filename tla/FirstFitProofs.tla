--------------------------- MODULE FirstFitProofs ---------------------------
(***************************************************************************)
(* Theorems about FirstFit, for any memory, any sizes short of those whose *)
(* rounding wraps, and any owners: the blocks tile the memory, the free    *)
(* list is in order and merged, the search is first fit, and only owners   *)
(* free.                                                                   *)
(***************************************************************************)
EXTENDS FirstFit, SetInduction, FunctionTheorems, FiniteSetTheorems

\* The blocks B follow each other without a gap from h to the end.
Tiling(B, sz, h) ==
  /\ h \in B /\ B \subseteq h..MEM
  /\ \A a \in B : /\ sz[a] \in Nat \ {0}
                  /\ a + sz[a] = END \/ a + sz[a] \in B
                  /\ \A c \in B : a < c => a + sz[a] <= c

\* The list from `first' on goes through the blocks G upwards.
Linked(G, lk, first) ==
  /\ G \subseteq 1..MEM
  /\ IF first = NULL THEN G = {} ELSE first \in G /\ \A c \in G : first <= c
  /\ \A a \in G : IF lk[a] = NULL THEN \A c \in G : c <= a
                  ELSE lk[a] \in G /\ a < lk[a] /\ \A c \in G : a < c => lk[a] <= c

\* No two of the blocks G touch.
Apart(G, sz) == \A a \in G : a + sz[a] \notin G

\* The memory between calls, and in the middle of one.
HeapInv ==
  /\ head \in Heads
  /\ size = [a \in Addresses |-> size[a]]
  /\ link = [a \in Addresses |-> link[a]]
  /\ Linked(FreeBlocks, link, free_head)
  /\ Tiling(Allocated \cup FreeBlocks, size, head)
  /\ Allocated \cap FreeBlocks = {}
  /\ Apart(FreeBlocks, size)

\* What the owners know of their blocks.
LiveInv ==
  /\ live \subseteq [at : Addresses, bytes : Nat, owner : Owners]
  /\ \A b, c \in live : b.at = c.at => b = c
  /\ RoomForAll

\* A search that is under way.
FindInv ==
  call.op = "find" =>
    /\ call \in [op : {"find"}, curr : FreeBlocks \cup {NULL}, prev : FreeBlocks \cup {NULL},
                 want : Nat \ {0}, bytes : Nat, owner : Owners]
    /\ call.bytes <= 8 * (call.want - 1)
    /\ call.curr = IF call.prev = NULL THEN free_head ELSE link[call.prev]
    /\ PassedAreTooSmall

\* The free blocks on either side of the node: start is before it, or no free
\* block is; and no free block lies between start and stop.
Between ==
  /\ call.node \in Addresses /\ call.owner \in Owners
  /\ link[call.node] \in {call.owner, JUNK}
  /\ \/ call.start = head /\ call.stop = free_head
     \/ /\ call.start \in FreeBlocks /\ call.start < call.node
        /\ call.stop = link[call.start]

SeekInv ==
  call.op = "seek" =>
    call \in [op : {"seek"}, node : Int, owner : Owners, start : Int, stop : Int] /\ Between

WalkInv ==
  call.op = "walk" =>
    /\ call \in [op : {"walk"}, node : Int, owner : Owners, start : Int, stop : Int, temp : Int]
    /\ Between
    /\ call.stop = NULL \/ call.node <= call.stop
    /\ call.temp \in Allocated \cup FreeBlocks \cup {END}
    /\ call.node \in Allocated => call.temp <= call.node

IInv == /\ call.op \in {"idle", "find", "seek", "walk"} /\ (call.op = "idle" => call = Idle)
        /\ HeapInv /\ LiveInv /\ FindInv /\ SeekInv /\ WalkInv

\* The sizes asked for do not wrap when they are rounded.
SaneSizes == \A n \in Sizes : n + 24 <= WORD

\* The memory's bounds are numbers.
LEMMA MemNat == MEM \in Nat /\ Heads \subseteq 1..MEM /\ END = MEM + 1
  BY MemAssumption DEF END

-----------------------------------------------------------------------------
\* FreeFrom is defined for whatever the links are.
LEMMA FreeFromIs ==
  \A a \in 0..MEM :
    FreeFrom[a] = IF a = NULL THEN {}
                  ELSE IF link[a] \in (a + 1)..MEM THEN {a} \cup FreeFrom[link[a]] ELSE {a}
<1> DEFINE E(f, a) == IF a = NULL THEN {}
                      ELSE IF link[a] \in (a + 1)..MEM THEN {a} \cup f[link[a]] ELSE {a}
           D(n) == {a \in 0..MEM : MEM - n <= a}
           S == {n \in Nat : \E f : f = [a \in D(n) |-> E(f, a)]}
<1>1. MEM \in Nat
  BY MemNat
<1>2. 0 \in S
  <2> DEFINE g == [a \in D(0) |-> IF a = NULL THEN {} ELSE {a}]
  <2>1. D(0) = {MEM}
    BY <1>1
  <2>2. \A a \in D(0) : E(g, a) = IF a = NULL THEN {} ELSE {a}
    BY <1>1, <2>1
  <2>3. g = [a \in D(0) |-> E(g, a)]
    BY <2>2
  <2> HIDE DEF g, D, E
  <2> QED BY <2>3
<1>3. ASSUME NEW n \in Nat, n \in S PROVE n + 1 \in S
  <2>1. PICK f : f = [a \in D(n) |-> E(f, a)]
    BY <1>3
  <2> DEFINE g == [a \in D(n + 1) |-> IF a \in D(n) THEN f[a] ELSE E(f, a)]
  <2>2. \A a \in D(n + 1) : link[a] \in (a + 1)..MEM => link[a] \in D(n)
    BY <1>1
  <2>3. D(n) \subseteq D(n + 1)
    BY <1>1
  <2>4. \A a \in D(n + 1) : E(g, a) = E(f, a)
    BY <2>2, <2>3
  <2>5. \A a \in D(n) : f[a] = E(f, a)
    BY <2>1
  <2> HIDE DEF D, E
  <2>6. g = [a \in D(n + 1) |-> E(g, a)]
    BY <2>4, <2>5
  <2> HIDE DEF g
  <2> QED BY <2>6
<1>4. MEM \in S
  BY <1>1, <1>2, <1>3, NatSetInduction
<1>5. D(MEM) = 0..MEM
  BY <1>1
<1>6. \E f : f = [a \in 0..MEM |-> E(f, a)]
  BY <1>4, <1>5
<1>7. FreeFrom = CHOOSE f : f = [a \in 0..MEM |-> E(f, a)]
  BY DEF FreeFrom
<1> HIDE DEF E
<1>8. FreeFrom = [a \in 0..MEM |-> E(FreeFrom, a)]
  BY <1>6, <1>7
<1>9. \A a \in 0..MEM : FreeFrom[a] = E(FreeFrom, a)
  BY <1>8
<1> QED BY <1>9 DEF E

\* A linked list's blocks are those that FreeBlocks finds.
LEMMA LinkedIsFree ==
  \A G : Linked(G, link, free_head) => FreeBlocks = G
<1> SUFFICES ASSUME NEW G, Linked(G, link, free_head) PROVE FreeBlocks = G
  OBVIOUS
<1> DEFINE From(a) == {c \in G : a <= c}
           S == {n \in Nat : \A a \in G : MEM - n <= a => FreeFrom[a] = From(a)}
<1>1. MEM \in Nat /\ G \subseteq 1..MEM /\ \A c \in G : c \in Nat /\ c <= MEM
  BY MemNat DEF Linked
<1>2. ASSUME NEW a \in G, \A c \in G : a < c => FreeFrom[c] = From(c)
      PROVE  FreeFrom[a] = From(a)
  <2>1. a \in 1..MEM /\ a \in 0..MEM /\ a # NULL
    BY <1>1 DEF NULL
  <2>2. CASE link[a] = NULL
    <3>1. \A c \in G : c <= a
      BY <2>2 DEF Linked
    <3>2. From(a) = {a}
      <4>1. \A c \in G : a <= c <=> c = a
        BY <1>1, <3>1
      <4> QED BY <4>1
    <3>3. link[a] \notin (a + 1)..MEM
      BY <2>1, <2>2 DEF NULL
    <3> QED BY <2>1, <3>2, <3>3, FreeFromIs
  <2>3. CASE link[a] # NULL
    <3>1. link[a] \in G /\ a < link[a] /\ \A c \in G : a < c => link[a] <= c
      BY <2>3 DEF Linked
    <3>2. link[a] \in (a + 1)..MEM
      <4>1. link[a] \in Nat /\ link[a] <= MEM /\ a \in Nat /\ a < link[a]
        BY <1>1, <3>1
      <4> QED BY <4>1
    <3>3. FreeFrom[a] = {a} \cup FreeFrom[link[a]]
      BY <2>1, <3>2, FreeFromIs
    <3>4. From(a) = {a} \cup From(link[a])
      <4>1. ASSUME NEW c \in G PROVE a <= c <=> (c = a \/ link[a] <= c)
        <5>1. a \in Nat /\ c \in Nat /\ link[a] \in Nat
          BY <1>1, <3>1
        <5> QED BY <3>1, <5>1
      <4> QED BY <4>1
    <3> QED BY <1>2, <3>1, <3>3, <3>4
  <2> QED BY <2>2, <2>3
<1> HIDE DEF From
<1>3. 0 \in S
  BY <1>1, <1>2
<1>4. ASSUME NEW n \in Nat, n \in S PROVE n + 1 \in S
  <2> SUFFICES ASSUME NEW a \in G, MEM - (n + 1) <= a PROVE FreeFrom[a] = From(a)
    OBVIOUS
  <2>1. \A c \in G : a < c => MEM - n <= c
    BY <1>1
  <2> QED BY <1>2, <1>4, <2>1
<1>5. MEM \in S
  BY <1>1, <1>3, <1>4, NatSetInduction
<1>6. \A a \in G : FreeFrom[a] = From(a)
  BY <1>1, <1>5
<1>7. CASE free_head = NULL
  <2>1. 0 \in 0..MEM
    BY <1>1
  <2>2. FreeFrom[0] = {}
    BY <2>1, FreeFromIs DEF NULL
  <2> QED BY <1>7, <2>2 DEF FreeBlocks, Linked, NULL
<1>8. CASE free_head # NULL
  <2>1. free_head \in G /\ From(free_head) = G
    BY <1>8 DEF Linked, From
  <2> QED BY <1>6, <2>1 DEF FreeBlocks
<1> QED BY <1>7, <1>8

\* The same of the next state.
LEMMA LinkedIsFreeNext ==
  (\A G : Linked(G, link, free_head) => FreeBlocks = G)'
  BY LinkedIsFree, PTL

-----------------------------------------------------------------------------
\* Only one block of a list links to a given one, and none to the first.
LEMMA OneBefore ==
  ASSUME NEW G, NEW lk, NEW first, Linked(G, lk, first)
  PROVE  /\ \A a, c \in G : lk[a] = lk[c] /\ lk[a] # NULL => a = c
         /\ \A a \in G : lk[a] # first \/ first = NULL
         /\ \A a \in G : a \in Nat /\ a # NULL /\ a \in 1..MEM
<1>1. G \subseteq 1..MEM /\ \A c \in G : c \in Nat /\ c # NULL /\ c \in 1..MEM
  BY MemNat DEF Linked, NULL
<1>2. \A a \in G : lk[a] # NULL => lk[a] \in G /\ a < lk[a] /\ \A c \in G : a < c => lk[a] <= c
  BY DEF Linked
<1>3. ASSUME NEW a \in G, NEW c \in G, lk[a] = lk[c], lk[a] # NULL PROVE a = c
  <2>1. /\ lk[a] \in Nat /\ a \in Nat /\ c \in Nat
        /\ a < lk[a] /\ (a < c => lk[a] <= c) /\ c < lk[a] /\ (c < a => lk[a] <= a)
    BY <1>1, <1>2, <1>3
  <2> QED BY <2>1
<1>4. ASSUME NEW a \in G, lk[a] = first, first # NULL PROVE FALSE
  <2>1. first \in G /\ a < first /\ first <= a
    BY <1>2, <1>4 DEF Linked
  <2> QED BY <1>1, <2>1
<1> QED BY <1>1, <1>3, <1>4

\* A block taken out of the list.
LEMMA Unlink ==
  ASSUME NEW G, NEW lk, NEW lk2, NEW first, Linked(G, lk, first), NEW x \in G,
         \A a \in G \ {x} : lk2[a] = IF lk[a] = x THEN lk[x] ELSE lk[a]
  PROVE  Linked(G \ {x}, lk2, IF first = x THEN lk[x] ELSE first)
<1> DEFINE H == G \ {x}
           first2 == IF first = x THEN lk[x] ELSE first
<1>1. G \subseteq 1..MEM /\ x \in Nat /\ x # NULL /\ \A a \in G : a \in Nat /\ a # NULL
  BY OneBefore
<1>2. \A a \in G : IF lk[a] = NULL THEN \A c \in G : c <= a
                   ELSE lk[a] \in G /\ a < lk[a] /\ \A c \in G : a < c => lk[a] <= c
  BY DEF Linked
<1>3. first \in G /\ \A c \in G : first <= c
  BY DEF Linked
<1>4. ASSUME NEW a \in G PROVE lk[a] \in Nat
  <2>1. CASE lk[a] = NULL
    BY <2>1 DEF NULL
  <2>2. CASE lk[a] # NULL
    <3>1. lk[a] \in G
      BY <1>2, <2>2
    <3> QED BY <1>1, <3>1
  <2> QED BY <2>1, <2>2
<1>5. IF first2 = NULL THEN H = {} ELSE first2 \in H /\ \A c \in H : first2 <= c
  <2>1. CASE first = x /\ lk[x] = NULL
    <3>1. \A c \in G : c <= x /\ x <= c
      BY <1>2, <1>3, <2>1
    <3> QED BY <1>1, <2>1, <3>1
  <2>2. CASE first = x /\ lk[x] # NULL
    <3>1. lk[x] \in G /\ x < lk[x] /\ \A c \in G : x < c => lk[x] <= c
      BY <1>2, <2>2
    <3>2. \A c \in H : x < c
      BY <1>1, <1>3, <2>2
    <3> QED BY <1>1, <2>2, <3>1, <3>2
  <2>3. CASE first # x
    BY <1>1, <1>3, <2>3
  <2> QED BY <2>1, <2>2, <2>3
<1>6. ASSUME NEW a \in H
      PROVE  IF lk2[a] = NULL THEN \A c \in H : c <= a
             ELSE lk2[a] \in H /\ a < lk2[a] /\ \A c \in H : a < c => lk2[a] <= c
  <2>1. CASE lk[a] = x /\ lk[x] = NULL
    <3>1. \A c \in H : a < c => x <= c /\ c <= x /\ c # x
      BY <1>1, <1>2, <2>1
    <3> QED BY <1>1, <2>1, <3>1
  <2>2. CASE lk[a] = x /\ lk[x] # NULL
    <3>1. lk[x] \in G /\ x < lk[x] /\ \A c \in G : x < c => lk[x] <= c
      BY <1>2, <2>2
    <3>2. a < x /\ \A c \in G : a < c => x <= c
      BY <1>1, <1>2, <2>2
    <3>3. \A c \in H : a < c => x < c
      BY <1>1, <3>2
    <3>4. a < lk[x] /\ lk[x] # x
      BY <1>1, <1>4, <3>1, <3>2
    <3> QED BY <2>2, <3>1, <3>3, <3>4
  <2>3. CASE lk[a] # x
    BY <1>2, <2>3
  <2> QED BY <2>1, <2>2, <2>3
<1> HIDE DEF first2
<1>7. H \subseteq 1..MEM
  BY <1>1
<1>8. Linked(H, lk2, first2)
  BY <1>5, <1>6, <1>7 DEF Linked
<1> QED BY <1>8 DEF first2

\* A block put into the list, as the first.
LEMMA LinkFirst ==
  ASSUME NEW G, NEW lk, NEW lk2, NEW first, Linked(G, lk, first),
         NEW n \in 1..MEM, first = NULL \/ n < first,
         \A a \in G : lk2[a] = lk[a], lk2[n] = first
  PROVE  Linked(G \cup {n}, lk2, n)
<1>1. G \subseteq 1..MEM /\ n \in Nat /\ n # NULL /\ \A a \in G : a \in Nat /\ a # NULL
  BY OneBefore, MemNat DEF NULL
<1>2. \A a \in G : IF lk[a] = NULL THEN \A c \in G : c <= a
                   ELSE lk[a] \in G /\ a < lk[a] /\ \A c \in G : a < c => lk[a] <= c
  BY DEF Linked
<1>3. IF first = NULL THEN G = {} ELSE first \in G /\ \A c \in G : first <= c
  BY DEF Linked
<1>4. ASSUME NEW c \in G PROVE n < c
  <2>1. first \in G /\ n < first /\ first <= c
    BY <1>3
  <2>2. first \in Nat /\ c \in Nat /\ n \in Nat
    BY <1>1, <2>1
  <2> QED BY <2>1, <2>2
<1>5. \A c \in G \cup {n} : n <= c
  BY <1>1, <1>4
<1>6. ASSUME NEW a \in G \cup {n}
      PROVE  IF lk2[a] = NULL THEN \A c \in G \cup {n} : c <= a
             ELSE lk2[a] \in G \cup {n} /\ a < lk2[a] /\ \A c \in G \cup {n} : a < c => lk2[a] <= c
  <2>1. CASE a = n
    <3>1. CASE first = NULL
      BY <1>1, <1>3, <2>1, <3>1
    <3>2. CASE first # NULL
      <4>1. n < first /\ first \in G /\ \A c \in G : first <= c
        BY <1>3, <3>2
      <4>2. ~(n < n)
        BY <1>1
      <4> QED BY <2>1, <3>2, <4>1, <4>2
    <3> QED BY <3>1, <3>2
  <2>2. CASE a \in G
    <3>1. ~(a < n) /\ n <= a
      BY <1>1, <1>4, <2>2
    <3> QED BY <1>2, <2>2, <3>1
  <2> QED BY <2>1, <2>2
<1> QED BY <1>1, <1>5, <1>6 DEF Linked

\* A block put into the list, between a block and the next.
LEMMA LinkAfter ==
  ASSUME NEW G, NEW lk, NEW lk2, NEW first, Linked(G, lk, first), NEW y \in G,
         NEW n \in 1..MEM, y < n, lk[y] = NULL \/ n < lk[y],
         \A a \in G \ {y} : lk2[a] = lk[a], lk2[y] = n, lk2[n] = lk[y]
  PROVE  Linked(G \cup {n}, lk2, first)
<1>1. G \subseteq 1..MEM /\ n \in Nat /\ n # NULL /\ \A a \in G : a \in Nat /\ a # NULL
  BY OneBefore, MemNat DEF NULL
<1>2. \A a \in G : IF lk[a] = NULL THEN \A c \in G : c <= a
                   ELSE lk[a] \in G /\ a < lk[a] /\ \A c \in G : a < c => lk[a] <= c
  BY DEF Linked
<1>3. first \in G /\ first # NULL /\ \A c \in G : first <= c
  BY <1>1 DEF Linked
<1>4. \A c \in G : IF y < c THEN n < c ELSE c < n
  <2> TAKE c \in G
  <2>1. CASE lk[y] = NULL
    BY <1>1, <1>2, <2>1
  <2>2. CASE lk[y] # NULL
    <3>1. lk[y] \in Nat /\ n < lk[y] /\ (y < c => lk[y] <= c)
      BY <1>1, <1>2, <2>2
    <3> QED BY <1>1, <3>1
  <2> QED BY <2>1, <2>2
<1>5. \A c \in G \cup {n} : first <= c
  BY <1>1, <1>3, <1>4
<1>6. ASSUME NEW a \in G \cup {n}
      PROVE  IF lk2[a] = NULL THEN \A c \in G \cup {n} : c <= a
             ELSE lk2[a] \in G \cup {n} /\ a < lk2[a] /\ \A c \in G \cup {n} : a < c => lk2[a] <= c
  <2>1. CASE a = n
    <3>1. lk2[a] = lk[y] /\ ~(n < n) /\ n <= n
      BY <1>1, <2>1
    <3>2. CASE lk[y] = NULL
      <4>1. \A c \in G : c <= y
        BY <1>2, <3>2
      <4>2. \A c \in G : c <= n
        BY <1>1, <4>1
      <4> QED BY <2>1, <3>1, <3>2, <4>2
    <3>3. CASE lk[y] # NULL
      <4>1. lk[y] \in G /\ n < lk[y] /\ \A c \in G : y < c => lk[y] <= c
        BY <1>2, <3>3
      <4>2. \A c \in G : n < c => y < c
        BY <1>1
      <4> QED BY <2>1, <3>1, <3>3, <4>1, <4>2
    <3> QED BY <3>2, <3>3
  <2>2. CASE a = y
    <3>1. lk2[a] = n /\ n # NULL /\ a < n /\ n <= n
      BY <1>1, <2>2
    <3>2. \A c \in G : a < c => n <= c
      BY <1>1, <1>4, <2>2
    <3> QED BY <3>1, <3>2
  <2>3. CASE a \in G \ {y}
    <3>1. lk2[a] = lk[a]
      BY <2>3
    <3>2. CASE lk[a] = NULL
      <4>1. \A c \in G : c <= a
        BY <1>2, <2>3, <3>2
      <4>2. y < a
        BY <1>1, <2>3, <4>1
      <4>3. n < a
        BY <1>4, <2>3, <4>2
      <4> QED BY <1>1, <2>3, <3>1, <3>2, <4>1, <4>3
    <3>3. CASE lk[a] # NULL
      <4>1. lk[a] \in G /\ a < lk[a] /\ \A c \in G : a < c => lk[a] <= c
        BY <1>2, <2>3, <3>3
      <4>2. a < n => lk[a] <= n
        <5>1. CASE a < y
          <6>1. lk[a] \in Nat /\ lk[a] <= y /\ y \in Nat /\ n \in Nat /\ y < n
            BY <1>1, <4>1, <5>1
          <6> QED BY <6>1
        <5>2. CASE y < a
          <6>1. n < a /\ a \in Nat
            BY <1>1, <1>4, <2>3, <5>2
          <6> QED BY <1>1, <6>1
        <5>3. a \in Nat /\ y \in Nat /\ a # y
          BY <1>1, <2>3
        <5> QED BY <5>1, <5>2, <5>3
      <4> QED BY <3>1, <3>3, <4>1, <4>2
    <3> QED BY <3>2, <3>3
  <2> QED BY <2>1, <2>2, <2>3
<1> QED BY <1>1, <1>3, <1>5, <1>6 DEF Linked

-----------------------------------------------------------------------------
\* A block divided in two.
LEMMA Split ==
  ASSUME NEW B, NEW sz, NEW sz2, NEW h \in Nat, Tiling(B, sz, h), NEW x \in B,
         NEW w \in Nat \ {0}, w < sz[x],
         sz2[x] = w, sz2[x + w] = sz[x] - w, \A a \in B \ {x} : sz2[a] = sz[a]
  PROVE  Tiling(B \cup {x + w}, sz2, h) /\ x + w \notin B /\ x + w \in h..MEM
<1>1. /\ \A a \in B : a \in Nat /\ h <= a /\ a <= MEM /\ sz[a] \in Nat \ {0}
      /\ MEM \in Nat /\ END = MEM + 1
  BY MemNat DEF Tiling
<1>2. \A a \in B : /\ a + sz[a] = END \/ a + sz[a] \in B
                   /\ \A c \in B : a < c => a + sz[a] <= c
  BY DEF Tiling
<1> DEFINE n == x + w
<1>3. n \in Nat /\ x < n /\ n < x + sz[x] /\ n + (sz[x] - w) = x + sz[x] /\ sz[x] - w \in Nat \ {0}
  BY <1>1
<1>4. x + sz[x] <= END
  BY <1>1, <1>2
<1>5. n \in h..MEM
  BY <1>1, <1>3, <1>4
<1>6. n \notin B
  BY <1>1, <1>2, <1>3
<1>7. ASSUME NEW a \in B \cup {n}
      PROVE  /\ sz2[a] \in Nat \ {0}
             /\ a + sz2[a] = END \/ a + sz2[a] \in B \cup {n}
             /\ \A c \in B \cup {n} : a < c => a + sz2[a] <= c
  <2>1. CASE a = n
    <3>1. sz2[a] = sz[x] - w /\ a + sz2[a] = x + sz[x]
      BY <1>3, <2>1
    <3>2. \A c \in B : n < c => x + sz[x] <= c
      BY <1>1, <1>2, <1>3
    <3>3. ~(n < n)
      BY <1>3
    <3> QED BY <1>2, <1>3, <2>1, <3>1, <3>2, <3>3
  <2>2. CASE a = x
    <3>1. a + sz2[a] = n /\ sz2[a] \in Nat \ {0}
      BY <2>2
    <3>2. \A c \in B : x < c => n <= c
      BY <1>1, <1>2, <1>3
    <3>3. n <= n
      BY <1>3
    <3> QED BY <2>2, <3>1, <3>2, <3>3
  <2>3. CASE a \in B \ {x}
    <3>1. sz2[a] = sz[a] /\ a \in B /\ a # x
      BY <2>3
    <3>2. a < n => a + sz[a] <= n
      <4>1. CASE a < x
        BY <1>1, <1>2, <1>3, <3>1, <4>1
      <4>2. CASE x < a
        BY <1>1, <1>2, <1>3, <3>1, <4>2
      <4> QED BY <1>1, <3>1, <4>1, <4>2
    <3> QED BY <1>1, <1>2, <3>1, <3>2
  <2> QED BY <2>1, <2>2, <2>3
<1>8. h \in B \cup {n} /\ B \cup {n} \subseteq h..MEM
  BY <1>5 DEF Tiling
<1>9. Tiling(B \cup {n}, sz2, h)
  BY <1>7, <1>8 DEF Tiling
<1> QED BY <1>5, <1>6, <1>9

\* Two blocks made one.
LEMMA Merge ==
  ASSUME NEW B, NEW sz, NEW sz2, NEW h \in Nat, Tiling(B, sz, h), NEW x \in B, NEW y \in B,
         y + sz[y] = x, sz2[y] = sz[y] + sz[x], \A a \in B \ {x, y} : sz2[a] = sz[a]
  PROVE  Tiling(B \ {x}, sz2, h)
<1>1. /\ \A a \in B : a \in Nat /\ h <= a /\ a <= MEM /\ sz[a] \in Nat \ {0}
      /\ MEM \in Nat /\ END = MEM + 1
  BY MemNat DEF Tiling
<1>2. \A a \in B : /\ a + sz[a] = END \/ a + sz[a] \in B
                   /\ \A c \in B : a < c => a + sz[a] <= c
  BY DEF Tiling
<1>3. y < x /\ y + sz2[y] = x + sz[x] /\ x # y /\ x < x + sz[x] /\ x # h
  BY <1>1
<1>4. ASSUME NEW a \in B \ {x}
      PROVE  /\ sz2[a] \in Nat \ {0}
             /\ a + sz2[a] = END \/ a + sz2[a] \in B \ {x}
             /\ \A c \in B \ {x} : a < c => a + sz2[a] <= c
  <2>1. CASE a = y
    <3>1. \A c \in B \ {x} : y < c => x < c
      BY <1>1, <1>2
    <3>2. \A c \in B \ {x} : y < c => x + sz[x] <= c
      BY <1>2, <3>1
    <3>3. x + sz[x] = END \/ x + sz[x] \in B \ {x}
      BY <1>1, <1>2
    <3>4. sz2[y] \in Nat \ {0}
      BY <1>1
    <3> QED BY <1>3, <2>1, <3>2, <3>3, <3>4
  <2>2. CASE a # y
    <3>1. sz2[a] = sz[a] /\ a \in B
      BY <2>2
    <3>2. a + sz[a] # x
      <4>1. CASE a < y
        BY <1>1, <1>2, <1>3, <3>1, <4>1
      <4>2. CASE y < a
        BY <1>1, <1>2, <1>3, <3>1, <4>2
      <4> QED BY <1>1, <2>2, <3>1, <4>1, <4>2
    <3> QED BY <1>1, <1>2, <3>1, <3>2
  <2> QED BY <2>1, <2>2
<1>5. h \in B \ {x} /\ B \ {x} \subseteq h..MEM
  BY <1>3 DEF Tiling
<1> QED BY <1>4, <1>5 DEF Tiling

\* Only the sizes of the blocks matter.
LEMMA SameTiling ==
  ASSUME NEW B, NEW sz, NEW sz2, NEW h, Tiling(B, sz, h), \A a \in B : sz2[a] = sz[a]
  PROVE  Tiling(B, sz2, h)
  BY DEF Tiling

-----------------------------------------------------------------------------
\* What is to be shown of a step that changes the memory, or only the call.
LEMMA HeapNext ==
  ASSUME NEW G, UNCHANGED head, head \in Heads,
         size' = [a \in Addresses |-> size'[a]], link' = [a \in Addresses |-> link'[a]],
         Linked(G, link', free_head'), Tiling(Allocated' \cup G, size', head),
         Allocated' \cap G = {}, Apart(G, size')
  PROVE  HeapInv' /\ FreeBlocks' = G
<1>1. FreeBlocks' = G
  BY LinkedIsFreeNext
<1>2. Addresses' = Addresses
  BY DEF Addresses
<1> QED BY <1>1, <1>2 DEF HeapInv

Quiet == UNCHANGED <<size, link, head, free_head, live>>

\* A step that writes no header keeps the heap as it is.
LEMMA QuietKeeps ==
  ASSUME HeapInv, LiveInv, Quiet
  PROVE  /\ HeapInv' /\ LiveInv' /\ FreeBlocks' = FreeBlocks /\ Allocated' = Allocated
         /\ Addresses' = Addresses
<1>1. Allocated' = Allocated /\ Addresses' = Addresses
  BY DEF Quiet, Allocated, Addresses
<1>2. FreeBlocks' = FreeBlocks
  BY LinkedIsFreeNext DEF Quiet, HeapInv
<1>3. HeapInv'
  BY <1>1, <1>2 DEF Quiet, HeapInv
<1>4. LiveInv'
  BY <1>1 DEF Quiet, LiveInv, RoomForAll
<1> QED BY <1>1, <1>2, <1>3, <1>4

\* What the invariant says of every block.
LEMMA BlockFacts ==
  ASSUME HeapInv, LiveInv
  PROVE  /\ head \in Nat /\ head # NULL /\ head \in 1..MEM /\ MEM \in Nat /\ END = MEM + 1
         /\ \A a \in Allocated \cup FreeBlocks :
              /\ a \in Addresses /\ a \in Nat /\ a # NULL /\ a <= MEM /\ head <= a
              /\ size[a] \in Nat \ {0}
              /\ a + size[a] = END \/ a + size[a] \in Allocated \cup FreeBlocks
              /\ \A c \in Allocated \cup FreeBlocks : a < c => a + size[a] <= c
<1>1. head \in 1..MEM /\ MEM \in Nat /\ END = MEM + 1
  BY MemNat DEF HeapInv
<1>2. Tiling(Allocated \cup FreeBlocks, size, head)
  BY DEF HeapInv
<1> QED BY <1>1, <1>2 DEF Tiling, Addresses, NULL

-----------------------------------------------------------------------------
\* One free block satisfies the invariant.
LEMMA InitInv == Init => IInv
<1> SUFFICES ASSUME Init PROVE IInv
  OBVIOUS
<1>1. head \in 1..MEM /\ MEM \in Nat /\ END = MEM + 1 /\ free_head = head
  BY MemNat DEF Init
<1>2. Allocated = {} /\ LiveInv
  BY DEF Init, Allocated, LiveInv, RoomForAll
<1>3. head \in Addresses /\ size[head] = END - head /\ link[head] = NULL
  BY <1>1 DEF Init, Addresses
<1>4. Linked({head}, link, free_head)
  BY <1>1, <1>3 DEF Linked, NULL
<1>5. FreeBlocks = {head}
  BY <1>4, LinkedIsFree
<1>6. Tiling({head}, size, head)
  BY <1>1, <1>3 DEF Tiling
<1>7. Apart({head}, size)
  BY <1>1, <1>3 DEF Apart
<1>8. HeapInv
  BY <1>2, <1>4, <1>5, <1>6, <1>7 DEF HeapInv, Init
<1>9. call = Idle /\ call.op = "idle"
  BY DEF Init, Idle
<1> QED BY <1>2, <1>8, <1>9 DEF IInv, FindInv, SeekInv, WalkInv

\* Rounding adds at most a unit, and the header is another.
LEMMA WantFacts ==
  ASSUME NEW n \in Nat, n + 16 <= WORD
  PROVE  Want(n) \in Nat \ {0} /\ n <= 8 * (Want(n) - 1) /\ Want(n) = (n + 7) \div 8 + 1
<1>1. WORD \in Nat /\ WORD % 8 = 0
  BY MemAssumption
<1>2. \A a, m \in Nat : a < m => a % m = a
  OBVIOUS
<1>3. (n + 7) % WORD = n + 7
  BY <1>1, <1>2
<1> DEFINE k == WORD \div 8
           v == (n + 7) \div 8 + 1
<1>4. WORD = 8 * k /\ k \in Nat
  BY <1>1
<1>5. v \in Nat \ {0} /\ v < k /\ n <= 8 * (v - 1)
  BY <1>4
<1>6. v % k = v
  BY <1>2, <1>4, <1>5
<1> QED BY <1>3, <1>5, <1>6 DEF Want

\* A call of k_mem_alloc begins its search at the first free block.
LEMMA AllocStep ==
  ASSUME IInv, NEW n \in Nat, n + 16 <= WORD, NEW o \in Owners, Alloc(n, o)
  PROVE  IInv'
<1>1. Quiet /\ call.op = "idle"
  BY DEF Alloc, Quiet, Idle
<1>2. /\ HeapInv' /\ LiveInv' /\ FreeBlocks' = FreeBlocks /\ Allocated' = Allocated
      /\ Addresses' = Addresses
  BY <1>1, QuietKeeps DEF IInv
<1>3. call' = [op |-> "find", curr |-> free_head, prev |-> NULL,
               want |-> Want(n), bytes |-> n, owner |-> o]
  BY DEF Alloc
<1>4. IF free_head = NULL THEN FreeBlocks = {}
      ELSE free_head \in FreeBlocks /\ \A c \in FreeBlocks : free_head <= c
  BY DEF IInv, HeapInv, Linked
<1>5. \A c \in FreeBlocks : free_head # NULL /\ ~(c < free_head)
  BY <1>4, BlockFacts DEF IInv
<1>6. FindInv'
  BY <1>1, <1>2, <1>3, <1>4, <1>5, WantFacts DEF FindInv, PassedAreTooSmall, Quiet
<1> QED BY <1>2, <1>3, <1>6 DEF IInv, SeekInv, WalkInv

\* The search goes past a block that is too small, or gives up.
LEMMA FindStep == ASSUME IInv, Find PROVE IInv'
<1>1. Quiet /\ call.op = "find"
  BY DEF Find, Quiet
<1>2. /\ HeapInv' /\ LiveInv' /\ FreeBlocks' = FreeBlocks /\ Allocated' = Allocated
      /\ Addresses' = Addresses
  BY <1>1, QuietKeeps DEF IInv
<1>3. CASE call.curr = NULL
  <2>1. call' = Idle /\ call'.op = "idle"
    BY <1>3 DEF Find, Idle
  <2> QED BY <1>2, <2>1 DEF IInv, FindInv, SeekInv, WalkInv
<1>4. CASE call.curr # NULL
  <2>1. size[call.curr] < call.want
        /\ call' = [call EXCEPT !.prev = call.curr, !.curr = link[call.curr]]
    BY <1>4 DEF Find
  <2>2. /\ call \in [op : {"find"}, curr : FreeBlocks \cup {NULL}, prev : FreeBlocks \cup {NULL},
                     want : Nat \ {0}, bytes : Nat, owner : Owners]
        /\ call.bytes <= 8 * (call.want - 1) /\ call.curr \in FreeBlocks
        /\ \A a \in FreeBlocks : a < call.curr => size[a] < call.want
    BY <1>1, <1>4 DEF IInv, FindInv, PassedAreTooSmall
  <2>3. IF link[call.curr] = NULL THEN \A c \in FreeBlocks : c <= call.curr
        ELSE link[call.curr] \in FreeBlocks /\ \A c \in FreeBlocks : call.curr < c => link[call.curr] <= c
    BY <2>2 DEF IInv, HeapInv, Linked
  <2>4. ASSUME NEW a \in FreeBlocks, link[call.curr] = NULL \/ a < link[call.curr]
        PROVE  size[a] < call.want
    <3>1. /\ a \in Nat /\ call.curr \in Nat
          /\ \A c \in FreeBlocks : c \in Nat
      BY <2>2, BlockFacts DEF IInv
    <3>2. a <= call.curr
      <4>1. CASE link[call.curr] = NULL
        BY <2>3, <4>1
      <4>2. CASE link[call.curr] # NULL
        <5>1. link[call.curr] \in Nat /\ a < link[call.curr]
              /\ (call.curr < a => link[call.curr] <= a)
          BY <2>3, <2>4, <3>1, <4>2
        <5> QED BY <3>1, <5>1
      <4> QED BY <4>1, <4>2
    <3>3. a = call.curr \/ a < call.curr
      BY <3>1, <3>2
    <3> QED BY <2>1, <2>2, <3>3
  <2>5. /\ call' \in [op : {"find"}, curr : FreeBlocks \cup {NULL}, prev : FreeBlocks \cup {NULL},
                      want : Nat \ {0}, bytes : Nat, owner : Owners]
        /\ call'.want = call.want /\ call'.bytes = call.bytes
        /\ call'.prev = call.curr /\ call'.curr = link[call.curr] /\ call'.op = "find"
    BY <2>1, <2>2, <2>3
  <2>6. call.curr # NULL /\ UNCHANGED <<size, link>>
    BY <1>1, <1>4 DEF Quiet
  <2>7. FindInv'
    BY <1>2, <2>2, <2>4, <2>5, <2>6 DEF FindInv, PassedAreTooSmall
  <2> QED BY <1>2, <2>5, <2>7 DEF IInv, SeekInv, WalkInv
<1> QED BY <1>3, <1>4

\* The block that a search stops at: who links to it.
LEMMA FoundFacts ==
  ASSUME IInv, call.op = "find", call.curr # NULL
  PROVE  /\ call.curr \in FreeBlocks /\ call.want \in Nat \ {0} /\ call.owner \in Owners
         /\ call.bytes \in Nat /\ call.bytes <= 8 * (call.want - 1)
         /\ call.prev \in FreeBlocks \cup {NULL} /\ call.prev # call.curr
         /\ \A a \in FreeBlocks : link[a] = call.curr <=> a = call.prev
         /\ free_head = call.curr <=> call.prev = NULL
<1>1. /\ call \in [op : {"find"}, curr : FreeBlocks \cup {NULL}, prev : FreeBlocks \cup {NULL},
                   want : Nat \ {0}, bytes : Nat, owner : Owners]
      /\ call.bytes <= 8 * (call.want - 1)
      /\ call.curr = IF call.prev = NULL THEN free_head ELSE link[call.prev]
  BY DEF IInv, FindInv
<1>2. Linked(FreeBlocks, link, free_head)
  BY DEF IInv, HeapInv
<1>3. /\ \A a, c \in FreeBlocks : link[a] = link[c] /\ link[a] # NULL => a = c
      /\ \A a \in FreeBlocks : link[a] # free_head \/ free_head = NULL
      /\ \A a \in FreeBlocks : a \in Nat /\ a # NULL
  BY <1>2, OneBefore
<1>4. \A a \in FreeBlocks : link[a] # NULL => link[a] \in FreeBlocks /\ a < link[a]
  BY <1>2 DEF Linked
<1>5. call.curr \in FreeBlocks /\ call.curr \in Nat
  BY <1>1, <1>3
<1>6. \A a \in FreeBlocks : link[a] = call.curr <=> a = call.prev
  BY <1>1, <1>3, <1>5
<1>7. free_head = call.curr <=> call.prev = NULL
  BY <1>1, <1>3, <1>5
<1>8. call.prev # call.curr
  <2>1. ASSUME call.prev = call.curr PROVE FALSE
    <3>1. link[call.curr] = call.curr /\ call.curr < link[call.curr]
      BY <1>4, <1>5, <1>6, <2>1
    <3> QED BY <1>5, <3>1
  <2> QED BY <2>1
<1> QED BY <1>1, <1>5, <1>6, <1>7, <1>8

\* The block that was found is taken, whole or in part.
LEMMA TakeStep == ASSUME IInv, Take PROVE IInv'
<1> DEFINE x == call.curr
           w == call.want
           prev == call.prev
           G == FreeBlocks
           A == Allocated
           B == A \cup G
           n == x + w
           taken == IF size[x] - w >= 1 THEN w ELSE size[x]
           next == IF size[x] - w >= 1 THEN n ELSE link[x]
           r == [at |-> x, bytes |-> call.bytes, owner |-> call.owner]
<1>1. call.op = "find" /\ x # NULL /\ size[x] >= w /\ call' = Idle /\ head' = head
      /\ HeapInv /\ LiveInv
  BY DEF Take, IInv
<1>2. /\ x \in G /\ w \in Nat \ {0} /\ call.owner \in Owners
      /\ call.bytes \in Nat /\ call.bytes <= 8 * (w - 1)
      /\ prev \in G \cup {NULL} /\ prev # x
      /\ \A a \in G : link[a] = x <=> a = prev
      /\ free_head = x <=> prev = NULL
  BY <1>1, FoundFacts
<1>3. /\ size' = [a \in Addresses |->
                    IF a = x THEN taken
                    ELSE IF size[x] - w >= 1 /\ a = n THEN size[x] - w
                    ELSE IF a > x /\ a < x + taken THEN JUNK ELSE size[a]]
      /\ link' = [a \in Addresses |->
                    IF a = x THEN call.owner
                    ELSE IF size[x] - w >= 1 /\ a = n THEN link[x]
                    ELSE IF a = prev THEN next
                    ELSE IF a > x /\ a < x + taken THEN JUNK ELSE link[a]]
      /\ free_head' = IF prev = NULL THEN next ELSE free_head
      /\ live' = live \cup {r}
  BY DEF Take, Remainder
<1>4. /\ head \in Nat /\ head \in 1..MEM /\ MEM \in Nat /\ END = MEM + 1
      /\ \A a \in B :
           /\ a \in Addresses /\ a \in Nat /\ a # NULL /\ a <= MEM /\ head <= a
           /\ size[a] \in Nat \ {0}
           /\ a + size[a] = END \/ a + size[a] \in B
           /\ \A c \in B : a < c => a + size[a] <= c
  BY <1>1, BlockFacts
<1>5. /\ Linked(G, link, free_head) /\ Tiling(B, size, head) /\ A \cap G = {} /\ Apart(G, size)
      /\ head \in Heads
  BY <1>1 DEF HeapInv
<1>6. Allocated' = A \cup {x}
  <2>1. r.at = x
    OBVIOUS
  <2> HIDE DEF r
  <2> QED BY <1>3, <2>1 DEF Allocated
<1>7. x \in B /\ x \in Nat /\ size[x] \in Nat \ {0} /\ x \in Addresses /\ x \notin A
  BY <1>2, <1>4, <1>5
<1>8. taken <= size[x] /\ taken >= w /\ taken \in Nat
  BY <1>1, <1>2, <1>7
<1>9. call'.op = "idle"
  BY <1>1 DEF Idle
<1> HIDE DEF x, w, prev, G, A, B, n, taken, next, r
\* The other blocks keep their sizes, and links but one.
<1>10. ASSUME NEW a \in B, a # x
       PROVE  /\ a # n \/ ~(size[x] - w >= 1)
              /\ size'[a] = size[a]
              /\ link'[a] = IF a = prev THEN next ELSE link[a]
  <2>1. a \in Addresses /\ a \in Nat /\ (x < a => x + size[x] <= a)
    BY <1>4, <1>7, <1>10
  <2>2. ~(a > x /\ a < x + taken) /\ (a # n \/ ~(size[x] - w >= 1))
    BY <1>2, <1>7, <1>8, <1>10, <2>1 DEF n
  <2> QED BY <1>3, <1>10, <2>1, <2>2
<1>11. size'[x] = taken /\ link'[x] = call.owner
  BY <1>3, <1>7
<1>12. ASSUME NEW H, Linked(H, link', free_head'), Tiling(B \cup H, size', head),
              H \cap (A \cup {x}) = {}, Apart(H, size'), G \subseteq H \cup {x}
       PROVE  HeapInv'
  <2>1. (A \cup {x}) \cup H = B \cup H
    BY <1>2, <1>12 DEF B
  <2>2. Addresses' = Addresses
    BY <1>1 DEF Addresses
  <2>3. size' = [a \in Addresses |-> size'[a]] /\ link' = [a \in Addresses |-> link'[a]]
    BY <1>3
  <2> QED BY <1>1, <1>5, <1>6, <1>12, <2>1, <2>3, HeapNext
<1>13. LiveInv'
  <2>1. Addresses' = Addresses
    BY <1>1 DEF Addresses
  <2>2. r \in [at : Addresses, bytes : Nat, owner : Owners] /\ r.at = x
        /\ r.bytes = call.bytes /\ r.owner = call.owner
    BY <1>2, <1>7 DEF r
  <2>3. \A b \in live : b.at \in A /\ b.at \in B
    BY DEF A, B, Allocated
  <2>4. \A b, c \in live' : b.at = c.at => b = c
    BY <1>1, <1>3, <1>7, <2>2, <2>3 DEF LiveInv
  <2>5. \A b \in live : size'[b.at] = size[b.at] /\ link'[b.at] = link[b.at]
    <3> TAKE b \in live
    <3>1. b.at \in B /\ b.at # x /\ b.at # prev
      BY <1>2, <1>4, <1>5, <1>7, <2>3
    <3> QED BY <1>10, <3>1
  <2>6. \A b \in live : b.bytes <= 8 * (size[b.at] - 1) /\ link[b.at] = b.owner
    BY <1>1 DEF LiveInv, RoomForAll
  <2>7. r.bytes <= 8 * (size'[x] - 1)
    BY <1>2, <1>8, <1>11, <2>2
  <2>8. RoomForAll'
    BY <1>3, <1>11, <2>2, <2>5, <2>6, <2>7 DEF RoomForAll
  <2> QED BY <1>1, <1>3, <2>1, <2>2, <2>4, <2>8 DEF LiveInv
<1>14. CASE size[x] - w >= 1
  <2>1. taken = w /\ next = n /\ w < size[x] /\ n \in Nat /\ x < n
    BY <1>2, <1>7, <1>14 DEF taken, next, n
  <2>2. n \in head..MEM
    <3>1. x + size[x] <= END
      BY <1>4, <1>7
    <3>2. w \in Nat \ {0} /\ head <= x /\ n = x + w
      BY <1>2, <1>4, <1>7 DEF n
    <3> QED BY <1>4, <1>7, <2>1, <3>1, <3>2
  <2>3. size'[n] = size[x] - w /\ link'[n] = link[x] /\ n \in Addresses
    BY <1>3, <1>14, <2>1, <2>2 DEF Addresses
  <2>4. Tiling(B \cup {n}, size', head) /\ n \notin B
    BY <1>2, <1>4, <1>5, <1>7, <1>10, <1>11, <2>1, <2>3, Split DEF n
  <2> DEFINE lk == [a \in G \cup {n} |-> IF a = x THEN n ELSE IF a = n THEN link[x] ELSE link[a]]
             H == (G \cup {n}) \ {x}
  <2>5. n \notin G /\ n # x /\ n \in 1..MEM /\ G \subseteq B
    BY <1>4, <2>1, <2>2, <2>4 DEF B
  <2>6. link[x] = NULL \/ n < link[x]
    <3>1. link[x] = NULL \/ (link[x] \in G /\ x < link[x])
      BY <1>2, <1>5 DEF Linked
    <3>2. link[x] \in G /\ x < link[x] => x + size[x] <= link[x] /\ link[x] \in Nat
      BY <1>4, <1>7, <2>5
    <3> QED BY <1>2, <1>7, <2>1, <3>1, <3>2 DEF n
  <2>7. Linked(G \cup {n}, lk, free_head)
    <3>1. \A a \in G \ {x} : lk[a] = link[a]
      BY <2>5
    <3>2. lk[x] = n /\ lk[n] = link[x]
      BY <1>2, <2>5
    <3> HIDE DEF lk
    <3> QED BY <1>2, <1>5, <2>1, <2>5, <2>6, <3>1, <3>2, LinkAfter
  <2>8. \A a \in H : link'[a] = IF lk[a] = x THEN lk[x] ELSE lk[a]
    <3>1. lk[x] = n /\ lk[n] = link[x] /\ \A a \in G \ {x} : lk[a] = link[a]
      BY <1>2, <2>5
    <3>2. link[x] # x
      BY <1>2
    <3> TAKE a \in H
    <3>3. CASE a = n
      BY <2>3, <3>1, <3>2, <3>3
    <3>4. CASE a \in G /\ a # x
      BY <1>2, <1>10, <2>1, <2>5, <3>1, <3>4
    <3> QED BY <3>3, <3>4
  <2>9. free_head' = IF free_head = x THEN lk[x] ELSE free_head
    BY <1>2, <1>3, <2>1
  <2>10. Linked(H, link', free_head')
    <3> HIDE DEF lk
    <3>1. x \in G \cup {n}
      BY <1>2
    <3> QED BY <2>7, <2>8, <2>9, <3>1, Unlink
  <2>11. B \cup H = B \cup {n}
    BY <1>7, <2>5
  <2>12. H \cap (A \cup {x}) = {} /\ G \subseteq H \cup {x}
    BY <1>5, <2>4 DEF B
  <2>13. Apart(H, size')
    <3>1. \A a \in G : a + size[a] \notin G
      BY <1>5 DEF Apart
    <3> SUFFICES ASSUME NEW a \in H PROVE a + size'[a] \notin H
      BY DEF Apart
    <3>2. CASE a = n
      <4>1. a + size'[a] = x + size[x] /\ a + size'[a] # n
        BY <1>2, <1>7, <2>1, <2>3, <3>2 DEF n
      <4> QED BY <1>2, <3>1, <4>1
    <3>3. CASE a \in G /\ a # x
      <4>1. a + size'[a] = a + size[a] /\ a \in B
        BY <1>10, <2>5, <3>3
      <4>2. a + size[a] # n
        BY <1>4, <2>2, <2>4, <4>1
      <4> QED BY <3>1, <3>3, <4>1, <4>2
    <3> QED BY <3>2, <3>3
  <2> HIDE DEF H
  <2>14. HeapInv'
    BY <1>12, <2>4, <2>10, <2>11, <2>12, <2>13
  <2> QED BY <1>1, <1>9, <1>13, <2>14 DEF IInv, FindInv, SeekInv, WalkInv
<1>15. CASE ~(size[x] - w >= 1)
  <2>1. taken = size[x] /\ next = link[x]
    BY <1>15 DEF taken, next
  <2> DEFINE H == G \ {x}
  <2>2. G \subseteq B
    BY DEF B
  <2>3. \A a \in H : link'[a] = IF link[a] = x THEN link[x] ELSE link[a]
    BY <1>2, <1>10, <2>1, <2>2
  <2>4. free_head' = IF free_head = x THEN link[x] ELSE free_head
    BY <1>2, <1>3, <2>1
  <2>5. Linked(H, link', free_head')
    <3>1. Linked(G, link, free_head) /\ x \in G
      BY <1>2, <1>5
    <3>2. Linked(G \ {x}, link', IF free_head = x THEN link[x] ELSE free_head)
      BY <2>3, <3>1, Unlink
    <3> QED BY <2>4, <3>2
  <2>6. \A a \in B : size'[a] = size[a]
    BY <1>10, <1>11, <2>1
  <2>7. Tiling(B, size', head)
    BY <1>5, <2>6, SameTiling
  <2>8. B \cup H = B
    BY <2>2
  <2>9. H \cap (A \cup {x}) = {} /\ G \subseteq H \cup {x}
    BY <1>5
  <2>10. Apart(H, size')
    BY <1>5, <2>2, <2>6 DEF Apart
  <2> HIDE DEF H
  <2>11. HeapInv'
    BY <1>12, <2>5, <2>7, <2>8, <2>9, <2>10
  <2> QED BY <1>1, <1>9, <1>13, <2>11 DEF IInv, FindInv, SeekInv, WalkInv
<1> QED BY <1>14, <1>15

-----------------------------------------------------------------------------
\* The two ends between which a deallocation looks for its node.
LEMMA BetweenFacts ==
  ASSUME HeapInv, LiveInv, Between
  PROVE  /\ call.node \in Addresses /\ call.node \in Nat /\ call.node # NULL
         /\ call.node \in 1..MEM /\ head <= call.node
         /\ call.start \in Allocated \cup FreeBlocks /\ call.start <= call.node
         /\ call.stop \in FreeBlocks \cup {NULL}
         /\ call.start \in Int /\ call.stop \in Int
<1>1. /\ head \in Nat /\ head # NULL /\ head \in 1..MEM /\ MEM \in Nat
      /\ \A a \in Allocated \cup FreeBlocks : a \in Nat
  BY BlockFacts
<1>2. head \in Allocated \cup FreeBlocks
  BY DEF HeapInv, Tiling
<1>3. /\ free_head \in FreeBlocks \cup {NULL}
      /\ \A a \in FreeBlocks : link[a] \in FreeBlocks \cup {NULL}
  BY DEF HeapInv, Linked
<1>4. call.node \in Addresses /\ call.node \in Nat /\ call.node # NULL
      /\ call.node \in 1..MEM /\ head <= call.node
  BY <1>1 DEF Between, Addresses, NULL
<1>5. call.stop \in FreeBlocks \cup {NULL}
  BY <1>3 DEF Between
<1>6. call.start \in Allocated \cup FreeBlocks /\ call.start <= call.node
  <2>1. CASE call.start = head
    BY <1>2, <1>4, <2>1
  <2>2. CASE call.start \in FreeBlocks /\ call.start < call.node
    BY <1>1, <1>4, <2>2
  <2> QED BY <2>1, <2>2 DEF Between
<1> QED BY <1>1, <1>4, <1>5, <1>6 DEF NULL

\* A call of k_mem_dealloc begins its search for the block.
LEMMA DeallocStep ==
  ASSUME IInv, NEW ptr \in Addresses, NEW o \in Owners, Dealloc(ptr, o) PROVE IInv'
<1>1. Quiet /\ link[ptr] \in {o, JUNK}
      /\ call' = [op |-> "seek", node |-> ptr, owner |-> o, start |-> head, stop |-> free_head]
  BY DEF Dealloc, Quiet
<1>2. /\ HeapInv' /\ LiveInv' /\ FreeBlocks' = FreeBlocks /\ Allocated' = Allocated
      /\ Addresses' = Addresses
  BY <1>1, QuietKeeps DEF IInv
<1>3. head \in Int /\ free_head \in Int /\ ptr \in Int
  <2>1. head \in Nat /\ \A a \in FreeBlocks : a \in Nat
    BY BlockFacts DEF IInv
  <2> QED BY <2>1 DEF IInv, HeapInv, Linked, NULL, Addresses
<1>4. Between'
  BY <1>1, <1>2 DEF Between, Quiet
<1> QED BY <1>1, <1>2, <1>3, <1>4 DEF IInv, FindInv, SeekInv, WalkInv

\* The search for the free blocks on either side goes on.
LEMMA SeekStep == ASSUME IInv, Seek PROVE IInv'
<1>1. Quiet /\ call.op = "seek" /\ Between /\ HeapInv /\ LiveInv
      /\ call \in [op : {"seek"}, node : Int, owner : Owners, start : Int, stop : Int]
  BY DEF Seek, Quiet, IInv, SeekInv
<1>2. /\ HeapInv' /\ LiveInv' /\ FreeBlocks' = FreeBlocks /\ Allocated' = Allocated
      /\ Addresses' = Addresses /\ UNCHANGED <<size, link, head, free_head, live>> /\ END' = END
  BY <1>1, QuietKeeps DEF Quiet, END
<1>3. /\ call.node \in Addresses /\ call.node \in Nat /\ call.node # NULL
      /\ call.start \in Allocated \cup FreeBlocks /\ call.start <= call.node
      /\ call.stop \in FreeBlocks \cup {NULL}
      /\ call.start \in Int /\ call.stop \in Int
  BY <1>1, BetweenFacts
<1>4. CASE call.stop # NULL /\ call.stop < call.node
  <2>1. call' = [call EXCEPT !.start = call.stop, !.stop = link[call.stop]]
    BY <1>4 DEF Seek
  <2>2. call.stop \in FreeBlocks /\ link[call.stop] \in Int
    <3>1. link[call.stop] \in FreeBlocks \cup {NULL} /\ call.stop \in FreeBlocks
      BY <1>1, <1>3, <1>4 DEF HeapInv, Linked
    <3>2. \A a \in FreeBlocks : a \in Int
      BY <1>1, BlockFacts
    <3> QED BY <3>1, <3>2 DEF NULL
  <2>3. /\ call' \in [op : {"seek"}, node : Int, owner : Owners, start : Int, stop : Int]
        /\ call'.op = "seek" /\ call'.node = call.node /\ call'.owner = call.owner
        /\ call'.start = call.stop /\ call'.stop = link[call.stop]
    BY <1>1, <1>3, <2>1, <2>2
  <2>4. Between'
    BY <1>1, <1>2, <1>4, <2>2, <2>3 DEF Between
  <2> QED BY <1>2, <2>3, <2>4 DEF IInv, FindInv, SeekInv, WalkInv
<1>5. CASE ~(call.stop # NULL /\ call.stop < call.node)
  <2>1. call' = [op |-> "walk", node |-> call.node, owner |-> call.owner,
                 start |-> call.start, stop |-> call.stop, temp |-> call.start]
    BY <1>5 DEF Seek
  <2>2. Between'
    BY <1>1, <1>2, <2>1 DEF Between
  <2>3. call'.stop = NULL \/ call'.node <= call'.stop
    BY <1>3, <1>5, <2>1
  <2>4. WalkInv'
    BY <1>1, <1>2, <1>3, <2>1, <2>2, <2>3 DEF WalkInv
  <2> QED BY <1>2, <2>1, <2>4 DEF IInv, FindInv, SeekInv
<1> QED BY <1>4, <1>5

\* The walk from the free block before goes on.
LEMMA WalkStep == ASSUME IInv, Walk PROVE IInv'
<1>1. /\ Quiet /\ call.op = "walk" /\ Between /\ HeapInv /\ LiveInv
      /\ call.temp # call.node \/ call.temp = call.stop
      /\ call \in [op : {"walk"}, node : Int, owner : Owners, start : Int, stop : Int, temp : Int]
      /\ call.stop = NULL \/ call.node <= call.stop
      /\ call.temp \in Allocated \cup FreeBlocks \cup {END}
      /\ call.node \in Allocated => call.temp <= call.node
  BY DEF Walk, Quiet, IInv, WalkInv
<1>2. /\ HeapInv' /\ LiveInv' /\ FreeBlocks' = FreeBlocks /\ Allocated' = Allocated
      /\ Addresses' = Addresses /\ UNCHANGED <<size, link, head, free_head, live>> /\ END' = END
  BY <1>1, QuietKeeps DEF Quiet, END
<1>3. CASE call.temp < END /\ call.temp # call.stop
  <2>1. call' = [call EXCEPT !.temp = @ + size[call.temp]]
    BY <1>3 DEF Walk
  <2>2. /\ call.temp \in Allocated \cup FreeBlocks /\ size[call.temp] \in Nat
        /\ call.temp + size[call.temp] \in Allocated \cup FreeBlocks \cup {END}
        /\ \A c \in Allocated \cup FreeBlocks : call.temp < c => call.temp + size[call.temp] <= c
    <3>1. END \in Int
      BY MemNat
    <3>2. call.temp \in Allocated \cup FreeBlocks
      BY <1>1, <1>3, <3>1
    <3> QED BY <1>1, <3>2, BlockFacts
  <2>3. /\ call' \in [op : {"walk"}, node : Int, owner : Owners, start : Int, stop : Int, temp : Int]
        /\ call'.op = "walk" /\ call'.node = call.node /\ call'.owner = call.owner
        /\ call'.start = call.start /\ call'.stop = call.stop
        /\ call'.temp = call.temp + size[call.temp]
    BY <1>1, <2>1, <2>2
  <2>4. Between'
    BY <1>1, <1>2, <2>3 DEF Between
  <2>5. call.node \in Allocated => call.temp + size[call.temp] <= call.node
    BY <1>1, <1>3, <2>2
  <2>6. WalkInv'
    BY <1>1, <1>2, <2>2, <2>3, <2>4, <2>5 DEF WalkInv
  <2> QED BY <1>2, <2>3, <2>6 DEF IInv, FindInv, SeekInv
<1>4. CASE ~(call.temp < END /\ call.temp # call.stop)
  <2>1. call' = Idle /\ call'.op = "idle"
    BY <1>4 DEF Walk, Idle
  <2> QED BY <1>2, <2>1 DEF IInv, FindInv, SeekInv, WalkInv
<1> QED BY <1>3, <1>4

\* The walk stops at a node only when the node is an allocated block, with no
\* free block between it and those on either side.
LEMMA NodeFacts ==
  ASSUME IInv, call.op = "walk", call.temp = call.node, call.temp # call.stop
  PROVE  /\ call.node \in Allocated /\ call.node \notin FreeBlocks
         /\ call.stop = NULL \/ (call.stop \in FreeBlocks /\ call.node < call.stop)
         /\ \/ /\ call.start = head /\ head \notin FreeBlocks /\ free_head # head
               /\ call.stop = free_head
            \/ /\ call.start \in FreeBlocks /\ call.start < call.node
               /\ call.stop = link[call.start] /\ (call.start = head => free_head = head)
<1>1. /\ Between /\ HeapInv /\ LiveInv
      /\ call.stop = NULL \/ call.node <= call.stop
      /\ call.temp \in Allocated \cup FreeBlocks \cup {END}
  BY DEF IInv, WalkInv
<1>2. /\ call.node \in Addresses /\ call.node \in Nat /\ call.node # NULL
      /\ call.node \in 1..MEM /\ head <= call.node
      /\ call.start \in Allocated \cup FreeBlocks /\ call.start <= call.node
      /\ call.stop \in FreeBlocks \cup {NULL}
      /\ call.start \in Int /\ call.stop \in Int
  BY <1>1, BetweenFacts
<1>3. /\ head \in Nat /\ head # NULL /\ END = MEM + 1 /\ MEM \in Nat
      /\ \A a \in FreeBlocks : a \in Nat /\ head <= a /\ a # NULL
  BY <1>1, BlockFacts
<1>4. /\ IF free_head = NULL THEN FreeBlocks = {}
         ELSE free_head \in FreeBlocks /\ \A c \in FreeBlocks : free_head <= c
      /\ \A a \in FreeBlocks :
           IF link[a] = NULL THEN \A c \in FreeBlocks : c <= a
           ELSE link[a] \in FreeBlocks /\ a < link[a]
                /\ \A c \in FreeBlocks : a < c => link[a] <= c
  BY <1>1 DEF HeapInv, Linked
<1>5. call.node \in Allocated \cup FreeBlocks
  BY <1>1, <1>2, <1>3
<1>6. \/ call.start = head /\ call.stop = free_head
      \/ call.start \in FreeBlocks /\ call.start < call.node /\ call.stop = link[call.start]
  BY <1>1 DEF Between
<1>7. call.node # call.stop /\ (call.stop = NULL \/ (call.stop \in FreeBlocks /\ call.node < call.stop))
  BY <1>1, <1>2
<1>8. ASSUME call.node \in FreeBlocks PROVE FALSE
  <2>1. CASE call.stop = free_head /\ call.start = head
    <3>1. free_head # NULL /\ free_head <= call.node
      BY <1>4, <1>8
    <3> QED BY <1>2, <1>7, <2>1, <3>1
  <2>2. CASE call.start \in FreeBlocks /\ call.start < call.node /\ call.stop = link[call.start]
    <3>1. CASE call.stop = NULL
      <4>1. call.node <= call.start
        BY <1>4, <1>8, <2>2, <3>1
      <4> QED BY <1>2, <2>2, <4>1
    <3>2. CASE call.stop # NULL
      <4>1. call.stop <= call.node /\ call.node < call.stop
        BY <1>4, <1>7, <1>8, <2>2, <3>2
      <4> QED BY <1>2, <4>1
    <3> QED BY <3>1, <3>2
  <2> QED BY <1>6, <2>1, <2>2
<1>9. head \in FreeBlocks <=> free_head = head
  <2>1. ASSUME head \in FreeBlocks PROVE free_head = head
    <3>1. free_head \in FreeBlocks /\ free_head <= head /\ head <= free_head /\ free_head \in Nat
      BY <1>3, <1>4, <2>1
    <3> QED BY <1>3, <3>1
  <2>2. ASSUME free_head = head PROVE head \in FreeBlocks
    BY <1>3, <1>4, <2>2
  <2> QED BY <2>1, <2>2
<1>10. CASE call.start = head /\ call.stop = free_head
  <2>1. free_head # head
    <3>1. ASSUME free_head = head PROVE FALSE
      <4>1. call.stop # NULL /\ call.node < call.stop /\ call.stop <= call.node
        BY <1>2, <1>3, <1>7, <1>10, <3>1
      <4> QED BY <1>2, <4>1
    <3> QED BY <3>1
  <2> QED BY <1>5, <1>7, <1>8, <1>9, <1>10, <2>1
<1>11. CASE call.start \in FreeBlocks /\ call.start < call.node /\ call.stop = link[call.start]
  <2>1. call.start = head => free_head = head
    BY <1>9, <1>11
  <2>2. CASE call.start = head
    BY <1>5, <1>7, <1>8, <1>11, <2>1, <2>2
  <2>3. CASE call.start # head
    BY <1>5, <1>7, <1>8, <1>11, <2>3
  <2> QED BY <2>2, <2>3
<1> QED BY <1>6, <1>10, <1>11

\* The block is freed, linked, and merged on either side.
LEMMA FreeStep == ASSUME IInv, Free PROVE IInv'
<1> DEFINE n == call.node
           s == call.start
           e == call.stop
           G == FreeBlocks
           A == Allocated
           B == A \cup G
           isFirst == s = head /\ free_head # head
           first == IF isFirst THEN n ELSE free_head
           linked == IF isFirst THEN [link EXCEPT ![n] = e]
                     ELSE [link EXCEPT ![n] = e, ![s] = n]
           ahead == e # NULL /\ n + size[n] = e
           size1 == IF ahead THEN [size EXCEPT ![n] = @ + size[e]] ELSE size
           link1 == IF ahead THEN [linked EXCEPT ![n] = linked[e]] ELSE linked
           back == (s # head \/ s = first) /\ s + size1[s] = n
           G1 == G \cup {n}
           G2 == IF ahead THEN G1 \ {e} ELSE G1
           B2 == IF ahead THEN B \ {e} ELSE B
<1>1. call.op = "walk" /\ call.temp = n /\ call.temp # e /\ call' = Idle /\ head' = head
      /\ HeapInv /\ LiveInv /\ Between /\ call'.op = "idle"
  BY DEF Free, IInv, WalkInv, Idle
<1>2. /\ n \in A /\ n \notin G
      /\ e = NULL \/ (e \in G /\ n < e)
      /\ \/ /\ s = head /\ head \notin G /\ free_head # head /\ e = free_head
         \/ /\ s \in G /\ s < n /\ e = link[s] /\ (s = head => free_head = head)
  BY <1>1, NodeFacts
<1>3. /\ head \in Nat /\ head \in 1..MEM /\ MEM \in Nat /\ END = MEM + 1
      /\ \A a \in B :
           /\ a \in Addresses /\ a \in Nat /\ a # NULL /\ a <= MEM /\ head <= a
           /\ size[a] \in Nat \ {0}
           /\ a + size[a] = END \/ a + size[a] \in B
           /\ \A c \in B : a < c => a + size[a] <= c
  BY <1>1, BlockFacts
<1>4. /\ Linked(G, link, free_head) /\ Tiling(B, size, head) /\ A \cap G = {} /\ Apart(G, size)
      /\ head \in Heads /\ head \in B
      /\ size = [a \in Addresses |-> size[a]] /\ link = [a \in Addresses |-> link[a]]
  BY <1>1 DEF HeapInv, Tiling
<1>5. n \in Nat /\ n \in 1..MEM /\ n \in Addresses /\ s \in Addresses /\ s \in Nat /\ n # NULL
  <2>1. n \in B /\ s \in B
    BY <1>2, <1>4
  <2>2. n \in Nat /\ n <= MEM /\ n # 0
    BY <1>3, <2>1 DEF NULL
  <2> QED BY <1>3, <2>1, <2>2
<1>6. /\ free_head' = first /\ live' = {b \in live : b.at # n}
      /\ back => size' = [size1 EXCEPT ![s] = @ + size1[n]] /\ link' = [link1 EXCEPT ![s] = link1[n]]
      /\ ~back => size' = size1 /\ link' = link1
  BY <1>5 DEF Free, MergesBack, Adjacent
<1>7. Allocated' = A \ {n}
  BY <1>6 DEF Allocated
<1> HIDE DEF n, s, e, G, A, B, isFirst, first, linked, ahead, size1, link1, back
\* The node enters the list.
<1>8. /\ linked = [a \in Addresses |-> linked[a]] /\ linked[n] = e
      /\ \A a \in B \ {n, s} : linked[a] = link[a]
      /\ s \in A => linked[s] = IF s = n THEN e ELSE link[s]
      /\ s \in G => linked[s] = n /\ s < n /\ s # n
      /\ Linked(G1, linked, first)
  <2>1. CASE s = head /\ head \notin G /\ free_head # head /\ e = free_head
    <3>1. isFirst /\ linked = [link EXCEPT ![n] = e] /\ first = n
      BY <2>1 DEF isFirst, linked, first
    <3>2. linked[n] = e /\ \A a \in Addresses : a # n => linked[a] = link[a]
      BY <1>4, <1>5, <3>1
    <3>3. free_head = NULL \/ n < free_head
      BY <1>2, <2>1
    <3>4. \A a \in G : linked[a] = link[a]
      BY <1>2, <1>3, <3>2 DEF B
    <3>5. Linked(G1, linked, first)
      <4>1. Linked(G, link, free_head) /\ n \in 1..MEM /\ linked[n] = free_head
        BY <1>4, <1>5, <2>1, <3>2
      <4>2. Linked(G \cup {n}, linked, n)
        BY <3>3, <3>4, <4>1, LinkFirst
      <4> QED BY <3>1, <4>2
    <3>6. linked = [a \in Addresses |-> linked[a]]
      BY <1>4, <3>1
    <3> QED BY <1>3, <1>5, <2>1, <3>2, <3>5, <3>6
  <2>2. CASE s \in G /\ s < n /\ e = link[s] /\ (s = head => free_head = head)
    <3>1. ~isFirst /\ linked = [link EXCEPT ![n] = e, ![s] = n] /\ first = free_head /\ s # n
      BY <1>5, <2>2 DEF isFirst, linked, first
    <3>2. linked[n] = e /\ linked[s] = n /\ \A a \in Addresses : a # n /\ a # s => linked[a] = link[a]
      BY <1>4, <1>5, <3>1
    <3>3. link[s] = NULL \/ n < link[s]
      BY <1>2, <2>2
    <3>4. \A a \in G \ {s} : linked[a] = link[a]
      BY <1>2, <1>3, <3>2 DEF B
    <3>5. Linked(G1, linked, first)
      <4>1. /\ Linked(G, link, free_head) /\ n \in 1..MEM /\ s \in G /\ s < n
            /\ linked[s] = n /\ linked[n] = link[s]
        BY <1>4, <1>5, <2>2, <3>2
      <4>2. Linked(G \cup {n}, linked, free_head)
        BY <3>3, <3>4, <4>1, LinkAfter
      <4> QED BY <3>1, <4>2
    <3>6. linked = [a \in Addresses |-> linked[a]]
      BY <1>4, <3>1
    <3>7. s \notin A
      BY <1>4, <2>2
    <3> QED BY <1>3, <2>2, <3>1, <3>2, <3>5, <3>6, <3>7
  <2> QED BY <1>2, <2>1, <2>2
\* It takes in the block after it.
<1>9. /\ size1 = [a \in Addresses |-> size1[a]] /\ link1 = [a \in Addresses |-> link1[a]]
      /\ \A a \in B \ {n} : size1[a] = size[a] /\ link1[a] = linked[a]
  BY <1>3, <1>4, <1>8 DEF size1, link1
<1>10. /\ Linked(G2, link1, first) /\ Tiling(B2, size1, head)
       /\ n + size1[n] \notin G2 /\ size1[n] \in Nat \ {0}
       /\ n \in G2 /\ B2 = A \cup G2 /\ G2 \cap A = {n} /\ G2 \subseteq B /\ (s \in G => s \in G2)
       /\ G2 \ {n} \subseteq G
  <2>1. n \in B /\ G \subseteq B /\ A \subseteq B
    BY <1>2 DEF B
  <2>2. CASE ahead
    <3>1. e \in G /\ n < e /\ n + size[n] = e /\ e \in B /\ e # n /\ size[e] \in Nat \ {0}
      BY <1>2, <1>3, <1>5, <2>1, <2>2 DEF ahead
    <3>2. link1[n] = linked[e] /\ size1[n] = size[n] + size[e]
      BY <1>4, <1>5, <1>8, <2>2 DEF link1, size1
    <3>3. /\ \A a, c \in G1 : linked[a] = linked[c] /\ linked[a] # NULL => a = c
          /\ \A a \in G1 : linked[a] # first \/ first = NULL
          /\ \A a \in G1 : a # NULL
      BY <1>8, OneBefore
    <3>4. first # e
      BY <1>8, <3>1, <3>3
    <3>5. \A a \in G1 \ {e} : link1[a] = IF linked[a] = e THEN linked[e] ELSE linked[a]
      <4> TAKE a \in G1 \ {e}
      <4>1. CASE a = n
        BY <1>8, <3>2, <4>1
      <4>2. CASE a # n
        <5>1. linked[a] # e
          BY <1>8, <3>1, <3>3, <4>2
        <5> QED BY <1>9, <2>1, <4>2, <5>1
      <4> QED BY <4>1, <4>2
    <3>6. Linked(G1 \ {e}, link1, first)
      <4>1. e \in G1
        BY <3>1
      <4> HIDE DEF G1
      <4>2. Linked(G1 \ {e}, link1, IF first = e THEN linked[e] ELSE first)
        <5>1. Linked(G1, linked, first)
          BY <1>8
        <5> QED BY <3>5, <4>1, <5>1, Unlink
      <4> QED BY <3>4, <4>2
    <3>7. Tiling(B \ {e}, size1, head)
      <4>1. Tiling(B, size, head) /\ head \in Nat /\ n \in B /\ e \in B
        BY <1>3, <1>4, <2>1, <3>1
      <4>2. \A a \in B \ {e, n} : size1[a] = size[a]
        BY <1>9
      <4> QED BY <3>1, <3>2, <4>1, <4>2, Merge
    <3>8. n + size1[n] = e + size[e] /\ n + size1[n] # n /\ size1[n] \in Nat \ {0}
      BY <1>3, <1>5, <2>1, <3>1, <3>2
    <3>9. e + size[e] \notin G
      BY <1>4, <3>1 DEF Apart
    <3>10. G2 = G1 \ {e} /\ B2 = B \ {e}
      BY <2>2
    <3>11. e \notin A /\ (s \in G => s # e)
      BY <1>2, <1>4, <1>5, <1>8, <3>1
    <3> QED BY <1>2, <1>4, <2>1, <3>1, <3>6, <3>7, <3>8, <3>9, <3>10, <3>11 DEF B
  <2>3. CASE ~ahead
    <3>1. G2 = G1 /\ B2 = B /\ size1 = size /\ link1 = linked
      BY <2>3 DEF size1, link1
    <3>2. n + size[n] \notin G
      <4> SUFFICES ASSUME n + size[n] \in G PROVE FALSE
        OBVIOUS
      <4>1. n < n + size[n] /\ n + size[n] \in B
        BY <1>3, <2>1
      <4>2. e # NULL
        <5>1. ASSUME e = NULL PROVE FALSE
          <6>1. CASE e = free_head
            BY <1>4, <5>1, <6>1 DEF Linked
          <6>2. CASE s \in G /\ s < n /\ e = link[s]
            <7>1. \A c \in G : c <= s
              BY <1>4, <5>1, <6>2 DEF Linked
            <7>2. n + size[n] <= s /\ n + size[n] \in Nat
              BY <1>3, <4>1, <7>1
            <7> QED BY <1>5, <4>1, <6>2, <7>2
          <6> QED BY <1>2, <6>1, <6>2
        <5> QED BY <5>1
      <4>3. e \in G /\ n < e /\ e \in B
        BY <1>2, <2>1, <4>2
      <4>4. e <= n + size[n]
        <5>1. CASE e = free_head
          BY <1>4, <4>2, <5>1 DEF Linked
        <5>2. CASE s \in G /\ s < n /\ e = link[s]
          <6>1. s < n + size[n]
            BY <1>3, <1>5, <2>1, <5>2
          <6> QED BY <1>4, <4>2, <5>2, <6>1 DEF Linked
        <5> QED BY <1>2, <5>1, <5>2
      <4>5. n + size[n] <= e
        BY <1>3, <2>1, <4>3
      <4> QED BY <1>3, <2>1, <2>3, <4>2, <4>3, <4>4, <4>5 DEF ahead
    <3>3. n + size[n] # n /\ size[n] \in Nat \ {0}
      BY <1>3, <2>1
    <3> QED BY <1>2, <1>4, <1>8, <2>1, <3>1, <3>2, <3>3 DEF B
  <2> QED BY <2>2, <2>3
<1> HIDE DEF G1, G2, B2
\* The block before it takes it in, if there is one that ends where it begins.
<1>11. /\ back => s \in G /\ s \in G2 /\ s # n /\ s + size1[s] = n
       /\ ~back => \A a \in G2 \ {n} : a + size1[a] # n
  <2>1. CASE s = head /\ head \notin G /\ free_head # head /\ e = free_head
    <3>1. first = n
      BY <2>1 DEF first, isFirst
    <3>2. ~back
      <4>1. ASSUME back PROVE FALSE
        <5>1. s = n /\ s + size1[s] = n
          BY <2>1, <3>1, <4>1 DEF back
        <5> QED BY <1>5, <1>10, <5>1
      <4> QED BY <4>1
    <3>3. ASSUME NEW a \in G2 \ {n}, a + size1[a] = n PROVE FALSE
      <4>1. a \in G /\ a \in B /\ a # n
        BY <1>10, <3>3
      <4>2. a < n
        BY <1>3, <1>5, <1>9, <3>3, <4>1
      <4>3. n < free_head /\ free_head <= a
        BY <1>2, <1>4, <2>1, <4>1 DEF Linked
      <4>4. free_head \in Nat /\ a \in Nat
        BY <1>2, <1>3, <2>1, <4>1, <1>4 DEF Linked, B
      <4> QED BY <1>5, <4>2, <4>3, <4>4
    <3> QED BY <3>2, <3>3
  <2>2. CASE s \in G /\ s < n /\ e = link[s] /\ (s = head => free_head = head)
    <3>1. first = free_head /\ s # n /\ s \in G2
      BY <1>5, <1>10, <2>2 DEF first, isFirst
    <3>2. s # head \/ s = first
      BY <2>2, <3>1
    <3>3. ASSUME NEW a \in G2 \ {n}, a + size1[a] = n PROVE a = s
      <4>1. a \in G /\ a \in B /\ a # n /\ s \in B /\ a \in Nat
        BY <1>3, <1>10, <2>2, <3>3 DEF B
      <4>2. a < n /\ a + size[a] = n
        BY <1>3, <1>5, <1>9, <3>3, <4>1
      <4>3. ~(a < s)
        <5>1. a < s => a + size[a] <= s
          BY <1>3, <4>1
        <5> QED BY <1>5, <2>2, <4>2, <5>1
      <4>4. ~(s < a)
        <5>1. s < a => link[s] # NULL /\ link[s] <= a /\ n < link[s] /\ link[s] \in Nat
          <6>1. s < a => ~(a <= s)
            BY <1>5, <4>1
          <6>2. s < a => link[s] # NULL /\ link[s] <= a /\ link[s] \in G
            BY <1>4, <2>2, <4>1, <6>1 DEF Linked
          <6>3. \A c \in G : c \in Nat
            BY <1>3 DEF B
          <6> QED BY <1>2, <2>2, <6>2, <6>3
        <5> QED BY <1>5, <4>1, <4>2, <5>1
      <4> QED BY <1>5, <4>1, <4>3, <4>4
    <3> QED BY <2>2, <3>1, <3>2, <3>3 DEF back
  <2> QED BY <1>2, <2>1, <2>2
<1>12. \A a \in G2 \ {n} : a + size1[a] \notin G2 \ {n}
  BY <1>4, <1>9, <1>10 DEF Apart
\* What the owners know is not touched.
<1>13. ASSUME NEW a \in A, a # n PROVE size'[a] = size[a] /\ link'[a] = link[a]
  <2>1. a \in B /\ a \in Addresses /\ a \notin G
    BY <1>3, <1>4, <1>13 DEF B
  <2>2. size1[a] = size[a] /\ link1[a] = linked[a]
    BY <1>9, <1>13, <2>1
  <2>3. linked[a] = link[a]
    BY <1>8, <1>13, <2>1
  <2>4. back => a # s
    BY <1>11, <2>1
  <2> QED BY <1>5, <1>6, <1>9, <2>1, <2>2, <2>3, <2>4
<1>14. LiveInv'
  <2>1. Addresses' = Addresses
    BY <1>1 DEF Addresses
  <2>2. \A b \in live' : b \in live /\ b.at \in A /\ b.at # n
    BY <1>6 DEF A, Allocated
  <2>3. RoomForAll'
    BY <1>1, <1>13, <2>2 DEF LiveInv, RoomForAll
  <2> QED BY <1>1, <2>1, <2>2, <2>3 DEF LiveInv
<1>15. HeapInv'
  <2>1. CASE back
    <3> DEFINE H == G2 \ {n}
    <3>1. size' = [size1 EXCEPT ![s] = @ + size1[n]] /\ link' = [link1 EXCEPT ![s] = link1[n]]
      BY <1>6, <2>1
    <3>2. s \in G /\ s \in G2 /\ s # n /\ s + size1[s] = n /\ s \in B2 /\ n \in B2
      BY <1>10, <1>11, <2>1
    <3>3. /\ size'[s] = size1[s] + size1[n] /\ link'[s] = link1[n]
          /\ \A a \in B : a # s => size'[a] = size1[a] /\ link'[a] = link1[a]
          /\ size' = [a \in Addresses |-> size'[a]] /\ link' = [a \in Addresses |-> link'[a]]
      BY <1>3, <1>5, <1>9, <3>1
    <3>4. link1[s] = n
      BY <1>8, <1>9, <3>2 DEF B
    <3>5. /\ \A a, c \in G2 : link1[a] = link1[c] /\ link1[a] # NULL => a = c
          /\ \A a \in G2 : link1[a] # first \/ first = NULL
      BY <1>10, OneBefore
    <3>6. first # n
      BY <1>5, <3>2, <3>4, <3>5
    <3>7. \A a \in G2 \ {n} : link'[a] = IF link1[a] = n THEN link1[n] ELSE link1[a]
      BY <1>5, <1>10, <3>2, <3>3, <3>4, <3>5
    <3>8. Linked(H, link', free_head')
      <4>1. Linked(G2 \ {n}, link', IF first = n THEN link1[n] ELSE first)
        BY <1>10, <3>7, Unlink
      <4> QED BY <1>6, <3>6, <4>1
    <3>9. \A a \in B2 \ {n, s} : size'[a] = size1[a]
      BY <1>2, <1>10, <3>3 DEF B
    <3>10. Tiling(B2 \ {n}, size', head)
      BY <1>3, <1>10, <3>2, <3>3, <3>9, Merge
    <3>11. B2 \ {n} = Allocated' \cup H /\ Allocated' \cap H = {}
      BY <1>7, <1>10
    <3>12. Apart(H, size')
      <4> SUFFICES ASSUME NEW a \in H PROVE a + size'[a] \notin H
        BY DEF Apart
      <4>1. CASE a = s
        <5>1. size1[s] \in Nat
          BY <1>3, <1>9, <3>2 DEF B
        <5>2. s + size'[s] = n + size1[n]
          BY <1>5, <1>10, <3>2, <3>3, <5>1
        <5> QED BY <1>10, <4>1, <5>2
      <4>2. CASE a # s
        BY <1>10, <1>12, <3>3, <4>2
      <4> QED BY <4>1, <4>2
    <3> HIDE DEF H
    <3> QED BY <1>1, <1>4, <3>3, <3>8, <3>10, <3>11, <3>12, HeapNext
  <2>2. CASE ~back
    <3>1. size' = size1 /\ link' = link1 /\ free_head' = first
      BY <1>6, <2>2
    <3>2. B2 = Allocated' \cup G2 /\ Allocated' \cap G2 = {}
      BY <1>7, <1>10
    <3>3. Apart(G2, size')
      BY <1>10, <1>11, <1>12, <2>2, <3>1 DEF Apart
    <3> QED BY <1>1, <1>4, <1>9, <1>10, <3>1, <3>2, <3>3, HeapNext
  <2> QED BY <2>1, <2>2
<1> QED BY <1>1, <1>14, <1>15 DEF IInv, FindInv, SeekInv, WalkInv

-----------------------------------------------------------------------------
\* A stack's size stays short of those that wrap.
LEMMA StackBytesFacts ==
  ASSUME SaneSizes, NEW n \in Sizes
  PROVE  /\ n \in Nat /\ n + 16 <= WORD
         /\ StackBytes(n) \in Nat /\ StackBytes(n) + 16 <= WORD
<1>1. n \in Nat /\ n + 24 <= WORD /\ WORD \in Nat
  BY MemAssumption DEF SaneSizes
<1> QED BY <1>1 DEF StackBytes

\* Nothing changes.
LEMMA StutterStep == ASSUME IInv, UNCHANGED vars PROVE IInv'
<1>1. Quiet /\ call' = call
  BY DEF vars, Quiet
<1>2. /\ HeapInv' /\ LiveInv' /\ FreeBlocks' = FreeBlocks /\ Allocated' = Allocated
      /\ Addresses' = Addresses /\ END' = END
  BY <1>1, QuietKeeps DEF IInv, END
<1>3. Between' <=> Between
  BY <1>1, <1>2 DEF Between, Quiet
<1> QED BY <1>1, <1>2, <1>3 DEF IInv, FindInv, SeekInv, WalkInv, PassedAreTooSmall, Quiet

\* Every step keeps the invariant.
LEMMA NextStep == ASSUME SaneSizes, IInv, [Next]_vars PROVE IInv'
<1>1. CASE \E n \in Sizes : k_alloc_p_stack(n) \/ \E o \in Owners : Alloc(n, o)
  <2>1. PICK n \in Sizes : k_alloc_p_stack(n) \/ \E o \in Owners : Alloc(n, o)
    BY <1>1
  <2>2. 0 \in Owners
    BY MemAssumption
  <2> QED BY <2>1, <2>2, StackBytesFacts, AllocStep DEF k_alloc_p_stack
<1>2. CASE \E ptr \in Addresses, o \in Owners : Dealloc(ptr, o)
  BY <1>2, DeallocStep
<1> QED BY <1>1, <1>2, StutterStep, FindStep, TakeStep, SeekStep, WalkStep, FreeStep
        DEF Next, Call, Step

-----------------------------------------------------------------------------
\* Between allocated blocks, or an end of the memory, lies one free block.
LEMMA Gap ==
  ASSUME IInv, NEW x \in Nat, NEW y \in Nat, x < y, y = END \/ y \in Allocated,
         x = head \/ \E a \in Allocated : a + size[a] = x,
         \A a \in Allocated : ~(x <= a /\ a < y)
  PROVE  /\ x \in FreeBlocks /\ size[x] = y - x
         /\ \A f \in FreeBlocks : x <= f /\ f < y => f = x
<1>1. /\ MEM \in Nat /\ END = MEM + 1
      /\ \A a \in Allocated \cup FreeBlocks :
           /\ a \in Nat /\ a <= MEM /\ size[a] \in Nat \ {0}
           /\ a + size[a] = END \/ a + size[a] \in Allocated \cup FreeBlocks
           /\ \A c \in Allocated \cup FreeBlocks : a < c => a + size[a] <= c
  BY BlockFacts DEF IInv
<1>2. /\ head \in Allocated \cup FreeBlocks
      /\ \A f \in FreeBlocks : f + size[f] \notin FreeBlocks
  BY DEF IInv, HeapInv, Tiling, Apart
<1>3. y <= END
  BY <1>1
<1>4. x \in FreeBlocks
  <2>1. x \in Allocated \cup FreeBlocks
    BY <1>1, <1>2, <1>3
  <2>2. x \notin Allocated
    OBVIOUS
  <2> QED BY <2>1, <2>2
<1>5. x + size[x] <= y
  <2>1. CASE y \in Allocated
    BY <1>1, <1>4, <2>1
  <2>2. CASE y = END
    <3>1. CASE x + size[x] = END
      BY <2>2, <3>1
    <3>2. CASE x + size[x] \in Allocated \cup FreeBlocks
      BY <1>1, <2>2, <3>2
    <3> QED BY <1>1, <1>4, <3>1, <3>2
  <2> QED BY <2>1, <2>2
<1>6. ~(x + size[x] < y)
  <2> SUFFICES ASSUME x + size[x] < y PROVE FALSE
    OBVIOUS
  <2>1. x + size[x] # END /\ x <= x + size[x]
    BY <1>1, <1>3, <1>4
  <2>2. x + size[x] \in Allocated \cup FreeBlocks
    BY <1>1, <1>4, <2>1
  <2>3. x + size[x] \in FreeBlocks
    BY <2>1, <2>2
  <2> QED BY <1>2, <1>4, <2>3
<1>7. size[x] = y - x
  BY <1>1, <1>4, <1>5, <1>6
<1>8. ASSUME NEW f \in FreeBlocks, x <= f, f < y PROVE f = x
  BY <1>1, <1>4, <1>7, <1>8
<1> QED BY <1>4, <1>7, <1>8

\* No free block begins within an allocated one.
LEMMA Inside ==
  ASSUME IInv, NEW a \in Allocated, NEW f \in FreeBlocks
  PROVE  ~(a <= f /\ f < a + size[a])
<1>1. /\ a \in Nat /\ f \in Nat /\ size[a] \in Nat
      /\ a < f => a + size[a] <= f
  BY BlockFacts DEF IInv
<1>2. a # f
  BY DEF IInv, HeapInv
<1> QED BY <1>1, <1>2

\* What is taken has the size that was looked for, and no other block changes.
LEMMA Taken ==
  ASSUME IInv, Take
  PROVE  /\ call.curr \in FreeBlocks /\ call.want <= size[call.curr]
         /\ live' = live \cup {[at |-> call.curr, bytes |-> call.bytes, owner |-> call.owner]}
         /\ Allocated' = Allocated \cup {call.curr}
         /\ size'[call.curr] = call.want /\ \A a \in Allocated : size'[a] = size[a]
<1> DEFINE curr == call.curr
           want == call.want
           left == size[curr] - want
           taken == IF left >= 1 THEN want ELSE size[curr]
<1>1. call.op = "find" /\ curr # NULL /\ size[curr] >= want
  BY DEF Take
<1>2. curr \in FreeBlocks /\ want \in Nat \ {0}
  BY <1>1, FoundFacts
<1>3. /\ \A a \in Allocated \cup FreeBlocks : a \in Addresses /\ a \in Nat /\ size[a] \in Nat \ {0}
      /\ \A a \in Allocated : curr < a => curr + size[curr] <= a
  BY <1>2, BlockFacts DEF IInv
<1>4. size' = [a \in Addresses |->
                 IF a = curr THEN taken
                 ELSE IF left >= 1 /\ a = curr + want THEN left
                 ELSE IF a > curr /\ a < curr + taken THEN JUNK
                 ELSE size[a]]
  BY DEF Take
<1>5. live' = live \cup {[at |-> curr, bytes |-> call.bytes, owner |-> call.owner]}
  BY DEF Take
<1>6. Allocated' = Allocated \cup {curr}
  <2> DEFINE new == [at |-> curr, bytes |-> call.bytes, owner |-> call.owner]
  <2>1. live' = live \cup {new} /\ new.at = curr
    BY <1>5
  <2> HIDE DEF new, curr
  <2> QED BY <2>1 DEF Allocated
<1>7. taken = want
  BY <1>1, <1>2, <1>3
<1>8. size'[curr] = want
  BY <1>2, <1>3, <1>4, <1>7
<1>9. ASSUME NEW a \in Allocated PROVE size'[a] = size[a]
  <2>1. a # curr
    BY <1>2 DEF IInv, HeapInv
  <2>2. a \in Addresses /\ a \in Nat /\ curr \in Nat /\ size[curr] \in Nat
    BY <1>2, <1>3
  <2>3. ~(left >= 1 /\ a = curr + want)
    BY <1>1, <1>2, <1>3, <2>2
  <2>4. ~(a > curr /\ a < curr + taken)
    BY <1>1, <1>2, <1>3, <1>7, <2>2
  <2> HIDE DEF left, taken, curr, want
  <2> QED BY <1>4, <2>1, <2>2, <2>3, <2>4
<1> QED BY <1>1, <1>2, <1>5, <1>6, <1>8, <1>9

\* What is freed is the node alone, and no other allocated block changes.
LEMMA Freed ==
  ASSUME IInv, Free
  PROVE  /\ call.node \in Allocated /\ live' \subseteq live
         /\ Allocated' = Allocated \ {call.node}
         /\ \A a \in Allocated \ {call.node} : size'[a] = size[a]
<1> DEFINE node == call.node
           start == call.start
           stop == call.stop
           isFirst == start = head /\ free_head # head
           first == IF isFirst THEN node ELSE free_head
           size1 == IF Adjacent(node, stop, size) THEN [size EXCEPT ![node] = @ + size[stop]] ELSE size
<1>1. call.op = "walk" /\ call.temp = node /\ call.temp # stop
  BY DEF Free
<1>2. /\ node \in Allocated /\ node \notin FreeBlocks
      /\ \/ start = head /\ head \notin FreeBlocks /\ free_head # head
         \/ start \in FreeBlocks /\ start < node
  BY <1>1, NodeFacts
<1>3. live' = {b \in live : b.at # node}
  BY DEF Free
<1>4. Allocated' = Allocated \ {node}
  BY <1>3 DEF Allocated
<1>5. size' = IF MergesBack(start, first, node, size1)
              THEN [size1 EXCEPT ![start] = @ + size1[node]] ELSE size1
  BY DEF Free
<1>6. \A a \in Allocated \ {node} : size1[a] = size[a]
  OBVIOUS
<1>7. ASSUME MergesBack(start, first, node, size1) PROVE start \notin Allocated \ {node}
  <2>1. CASE start \in FreeBlocks
    BY <2>1 DEF IInv, HeapInv
  <2>2. CASE start = head /\ free_head # head
    BY <1>7, <2>2 DEF MergesBack
  <2> QED BY <1>2, <2>1, <2>2
<1> HIDE DEF size1, first
<1>8. ASSUME NEW a \in Allocated \ {node} PROVE size'[a] = size[a]
  <2>1. CASE MergesBack(start, first, node, size1)
    <3>1. a # start
      BY <1>7, <2>1
    <3>2. size' = [size1 EXCEPT ![start] = @ + size1[node]]
      BY <1>5, <2>1
    <3>3. size'[a] = size1[a]
      BY <3>1, <3>2
    <3> QED BY <1>6, <3>3
  <2>2. CASE ~MergesBack(start, first, node, size1)
    BY <1>5, <1>6, <2>2
  <2> QED BY <2>1, <2>2
<1> QED BY <1>2, <1>3, <1>4, <1>8

-----------------------------------------------------------------------------
\* As many blocks are allocated as their owners know of.
LEMMA AsManyAsLive == ASSUME IInv PROVE Cardinality(Allocated) = Cardinality(live)
<1> DEFINE f == [b \in live |-> b.at]
<1>1. Allocated \subseteq head..MEM /\ head \in Int /\ MEM \in Int
  <2>1. live \subseteq [at : Addresses, bytes : Nat, owner : Owners]
    BY DEF IInv, LiveInv
  <2>2. head \in Nat /\ MEM \in Nat
    BY BlockFacts DEF IInv
  <2> QED BY <2>1, <2>2 DEF Allocated, Addresses
<1>2. IsFiniteSet(Allocated)
  <2>1. IsFiniteSet(head..MEM)
    BY <1>1, FS_Interval
  <2> QED BY <1>1, <2>1, FS_Subset
<1>3. f \in Bijection(live, Allocated)
  <2>1. f \in [live -> Allocated] /\ \A t \in Allocated : \E b \in live : f[b] = t
    BY DEF Allocated
  <2>2. \A b, c \in live : f[b] = f[c] => b = c
    BY DEF IInv, LiveInv
  <2> HIDE DEF f
  <2> QED BY <2>1, <2>2, Fun_IsBij
<1>4. ExistsBijection(Allocated, live)
  BY <1>3, Fun_ExistsBijSymmetric DEF ExistsBijection
<1> QED BY <1>2, <1>4, FS_Bijection

\* As many allocated blocks as live ones, each with its live block, tile the memory.
LEMMA InvImpliesTiled == IInv => Tiled
<1> SUFFICES ASSUME IInv PROVE Tiled
  OBVIOUS
<1>1. Cardinality(Allocated) = Cardinality(live)
  BY AsManyAsLive
<1> QED BY <1>1 DEF IInv, HeapInv, Tiling, Tiled

\* Free blocks in the order of addresses that do not touch are merged.
LEMMA InvImpliesCoalesced == IInv => Coalesced
<1> SUFFICES ASSUME IInv, NEW a \in FreeBlocks, link[a] # NULL
             PROVE  link[a] \in FreeBlocks /\ a + size[a] < link[a]
  BY DEF Coalesced
<1>1. link[a] \in FreeBlocks /\ a < link[a]
  BY DEF IInv, HeapInv, Linked
<1>2. a + size[a] <= link[a] /\ a \in Nat /\ size[a] \in Nat /\ link[a] \in Nat
  BY <1>1, BlockFacts DEF IInv
<1>3. a + size[a] # link[a]
  BY <1>1 DEF IInv, HeapInv, Apart
<1> QED BY <1>1, <1>2, <1>3

\* The walk, when it is for a live block, is on its way to it.
LEMMA InvImpliesFound == IInv => LiveIsFound
<1> SUFFICES ASSUME IInv, call.op = "walk", NEW b \in live, b.at = call.node
             PROVE  call.temp <= call.node /\ (call.stop = NULL \/ call.node < call.stop)
  BY DEF LiveIsFound
<1>1. call.node \in Allocated
  BY DEF Allocated
<1>2. /\ call.temp <= call.node /\ (call.stop = NULL \/ call.node <= call.stop)
      /\ HeapInv /\ LiveInv /\ Between
  BY <1>1 DEF IInv, WalkInv
<1>3. call.node \in Nat /\ call.stop \in FreeBlocks \cup {NULL} /\ call.stop \in Int
  BY <1>2, BetweenFacts
<1>4. call.stop # NULL => call.stop # call.node
  BY <1>1, <1>2, <1>3 DEF HeapInv
<1> QED BY <1>2, <1>3, <1>4

\* A live block goes by being freed: what the call named, for its owner.
LEMMA StepFrees ==
  ASSUME IInv, [Call \/ Step \/ \E n, o : Alloc(n, o) \/ Dealloc(n, o)]_vars, NEW b \in live \ live'
  PROVE  call.op = "walk" /\ call.node = b.at /\ call.owner = b.owner
<1>1. Free
  BY DEF Call, Step, k_alloc_p_stack, Alloc, Find, Take, Dealloc, Seek, Walk, vars
<1>2. call.op = "walk" /\ b.at = call.node
  BY <1>1 DEF Free
<1>3. link[call.node] \in {call.owner, JUNK}
  BY <1>2 DEF IInv, WalkInv, Between
<1>4. link[b.at] = b.owner /\ b.owner \in Owners
  BY DEF IInv, LiveInv, RoomForAll
<1> QED BY <1>2, <1>3, <1>4, MemAssumption

-----------------------------------------------------------------------------
\* The theorems are about callers that ask for less than 2^32 - 24 bytes: beyond
\* that the additions of k_mem.c:171 wrap, and nothing there refuses them.

\* Allocated and free blocks tile the memory whatever was allocated and freed, by
\* whom and in which order: nothing leaks or overlaps (k_mem.c:158-257).
THEOREM MemoryIsTiled == ASSUME SaneSizes PROVE Spec => []Tiled
<1>1. IInv /\ [Next]_vars => IInv'
  BY NextStep
<1> QED BY <1>1, InitInv, InvImpliesTiled, PTL DEF Spec

\* The free list is in the order of addresses, and every deallocation has merged
\* what it could (k_mem.c:231-249).
THEOREM MemoryIsCoalesced == ASSUME SaneSizes PROVE Spec => []Coalesced
<1>1. IInv /\ [Next]_vars => IInv'
  BY NextStep
<1> QED BY <1>1, InitInv, InvImpliesCoalesced, PTL DEF Spec

\* A block has the bytes that were asked for and bears its owner's id until it
\* is freed: no other call touches its header (k_mem.c:170-195).
THEOREM BlocksHaveRoom == ASSUME SaneSizes PROVE Spec => []RoomForAll
<1>1. IInv /\ [Next]_vars => IInv'
  BY NextStep
<1>2. IInv => RoomForAll
  BY DEF IInv, LiveInv
<1> QED BY <1>1, <1>2, InitInv, PTL DEF Spec

\* A search passes over no block that is big enough, so that it fails only when
\* there is none (k_mem.c:176-201).
THEOREM SearchIsFirstFit == ASSUME SaneSizes PROVE Spec => []PassedAreTooSmall
<1>1. IInv /\ [Next]_vars => IInv'
  BY NextStep
<1>2. IInv => PassedAreTooSmall
  BY DEF IInv, FindInv, PassedAreTooSmall
<1> QED BY <1>1, <1>2, InitInv, PTL DEF Spec

\* The walk that looks for a live block neither passes it nor stops short of it
\* (k_mem.c:224-257).
THEOREM LiveBlocksAreFound == ASSUME SaneSizes PROVE Spec => []LiveIsFound
<1>1. IInv /\ [Next]_vars => IInv'
  BY NextStep
<1> QED BY <1>1, InitInv, InvImpliesFound, PTL DEF Spec

\* A step frees at most the block that was named, for its owner; pointers into
\* blocks and to blocks already free free nothing (k_mem.c:208-222).
THEOREM OnlyOwnersFree == ASSUME SaneSizes PROVE Spec => OwnersFree
<1>1. IInv /\ [Next]_vars => IInv'
  BY NextStep
<1>2. IInv /\ [Next]_vars =>
        [\A b \in live \ live' : call.op = "walk" /\ call.node = b.at /\ call.owner = b.owner]_vars
  BY StepFrees DEF Next
<1> QED BY <1>1, <1>2, InitInv, PTL DEF Spec, OwnersFree
=============================================================================
