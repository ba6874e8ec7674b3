--------------------------- MODULE MailboxProofs ----------------------------
(***************************************************************************)
(* Theorems about Mailbox, for any senders, messages and sizes: the ring   *)
(* holds the messages whole and implements the queue of MailFifo.          *)
(***************************************************************************)
EXTENDS Mailbox, SetInduction

\* x % c where x is less than once around the ring of c bytes.
Wrap(x, c) == IF x < 0 THEN x + c ELSE IF x < c THEN x ELSE x - c

-----------------------------------------------------------------------------
\* Positions are never more than once around the ring.
LEMMA WrapIs == \A c \in Nat \ {0} : \A x \in (0 - c)..(2 * c - 1) : x % c = Wrap(x, c)
<1> SUFFICES ASSUME NEW c \in Nat \ {0}, NEW x \in (0 - c)..(2 * c - 1) PROVE x % c = Wrap(x, c)
  OBVIOUS
<1>1. CASE x < 0
  BY <1>1 DEF Wrap
<1>2. CASE 0 <= x /\ x < c
  BY <1>2 DEF Wrap
<1>3. CASE c <= x
  BY <1>3 DEF Wrap
<1> QED BY <1>1, <1>2, <1>3

\* Padding goes up to the next word, in the code's form and the queue's.
LEMMA PaddedFacts ==
  ASSUME NEW n \in Nat \ {0}
  PROVE  /\ Padded(n) \in Nat \ {0} /\ Padded(n) % 4 = 0 /\ n <= Padded(n) /\ 4 <= Padded(n)
         /\ \A r \in Nat : r % 4 = 0 /\ n <= r => Padded(n) <= r
         /\ Fifo!Padded(n) = Padded(n)
  BY DEF Padded, Fifo!Padded

\* In a ring of c bytes whose oldest message begins at t, z bytes are used and p
\* and a word are not: the next message's metadata goes to h, in one piece, and
\* its p bytes from b on, none of them where the used ones are.
MetaAt(c, t, z, p, h, b, k) ==
  /\ Wrap(t + z + k, c) = h + k /\ h + k \in 0..(c - 1)
  /\ ~(Wrap((h + k) - b, c) < p) /\ (h + k) - h = k
RoomAt(c, t, z, p, h, b) ==
  /\ h \in 0..(c - 4) /\ h % 4 = 0 /\ b \in 0..(c - 1)
  /\ \A o \in 0..(z - 1) :
       /\ Wrap(t + o, c) \in 0..(c - 1) /\ Wrap(t + o, c) - h \notin 0..3
       /\ ~(Wrap(Wrap(t + o, c) - b, c) < p)
  /\ \A k \in 0..3 : MetaAt(c, t, z, p, h, b, k)
  /\ \A k \in 0..(p - 1) : /\ Wrap(t + z + 4 + k, c) \in 0..(c - 1)
                           /\ Wrap(Wrap(t + z + 4 + k, c) - b, c) = k /\ k < p
  /\ Wrap(b + p, c) = Wrap(t + z + 4 + p, c) /\ Wrap(b + p, c) \in 0..(c - 1)
  /\ Wrap(b + p, c) % 4 = 0

LEMMA RingArith ==
  ASSUME NEW c \in Nat \ {0}, NEW t \in 0..(c - 1), NEW z \in Nat, NEW p \in Nat, z + 4 + p <= c,
         c % 4 = 0, t % 4 = 0, z % 4 = 0, p % 4 = 0,
         NEW h, h = Wrap(t + z, c), NEW b, b = Wrap(h + 4, c)
  PROVE  RoomAt(c, t, z, p, h, b)
<1> USE DEF Wrap
<1>1. h \in 0..(c - 4) /\ h % 4 = 0
  OBVIOUS
<1>2. b = IF h + 4 < c THEN h + 4 ELSE 0
  BY <1>1
<1>3. b \in 0..(c - 1) /\ b % 4 = 0
  BY <1>1, <1>2
<1>4. ASSUME NEW o \in 0..(z - 1)
      PROVE  /\ Wrap(t + o, c) \in 0..(c - 1) /\ Wrap(t + o, c) - h \notin 0..3
             /\ ~(Wrap(Wrap(t + o, c) - b, c) < p)
  BY <1>1, <1>2
<1>5. ASSUME NEW k \in 0..3
      PROVE  MetaAt(c, t, z, p, h, b, k)
  BY <1>1, <1>2 DEF MetaAt
<1>6. ASSUME NEW k \in 0..(p - 1)
      PROVE  /\ Wrap(t + z + 4 + k, c) \in 0..(c - 1)
             /\ Wrap(Wrap(t + z + 4 + k, c) - b, c) = k /\ k < p
  BY <1>1, <1>2
<1>7. Wrap(b + p, c) = Wrap(t + z + 4 + p, c) /\ Wrap(b + p, c) \in 0..(c - 1)
  BY <1>1, <1>2
<1>8. Wrap(b + p, c) % 4 = 0
  BY <1>3
<1> HIDE DEF Wrap
<1> QED BY <1>1, <1>3, <1>4, <1>5, <1>6, <1>7, <1>8 DEF RoomAt

-----------------------------------------------------------------------------
\* The offsets of the messages of q, metadata and padding included.
Off(q, i) == Sums(MetaSize, [n \in Nat |-> Fifo!Padded(q[n].msg.len)])[i - 1]

\* The recursion of MailFifo is that of Sums.
LEMMA OffsetIs == \A i : Fifo!Offset(i) = Off(mail, i)
<1> DEFINE d == [n \in Nat |-> Fifo!Padded(mail[n].msg.len)]
<1>1. \A n \in Nat : d[n] = Fifo!Padded(mail[n].msg.len)
  OBVIOUS
<1> HIDE DEF d
<1> DEFINE f1(f) == [n \in Nat |-> IF n = 0 THEN 0 ELSE f[n - 1] + 4 + Fifo!Padded(mail[n].msg.len)]
           f2(f) == [n \in Nat |-> IF n = 0 THEN 0 ELSE f[n - 1] + 4 + d[n]]
<1>2. \A f : f1(f) = f2(f)
  BY <1>1
<1>3. (CHOOSE f : f = f1(f)) = CHOOSE f : f = f2(f)
  <2> HIDE DEF f1, f2
  <2> QED BY <1>2
<1>4. \A i : Fifo!Offset(i) = (CHOOSE f : f = f1(f))[i - 1]
  BY DEF Fifo!Offset, Fifo!MetaSize
<1>5. \A i : Off(mail, i) = (CHOOSE f : f = f2(f))[i - 1]
  BY DEF Off, Sums, MetaSize, d
<1> QED BY <1>3, <1>4, <1>5
\* What a mailbox can hold.
MailSeqs == Seq([from : Senders, msg : Msgs])

\* Every message held has a sender, a length and a padded length.
LEMMA MessageFacts ==
  ASSUME NEW q \in MailSeqs, NEW i \in 1..Len(q)
  PROVE  /\ q[i].from \in Senders /\ q[i].msg \in Msgs /\ q[i].msg.len \in Nat \ {0}
         /\ Padded(q[i].msg.len) \in Nat \ {0} /\ Padded(q[i].msg.len) % 4 = 0
<1>1. q[i] \in [from : Senders, msg : Msgs]
  <2> DEFINE S == [from : Senders, msg : Msgs]
  <2>1. q \in Seq(S)
    BY DEF MailSeqs
  <2> HIDE DEF S
  <2>2. q[i] \in S
    BY <2>1
  <2> QED BY <2>2 DEF S
<1>2. q[i].from \in Senders /\ q[i].msg \in Msgs
  BY <1>1
<1>3. q[i].msg.len \in Nat \ {0}
  BY <1>2, MailboxAssumption
<1> QED BY <1>2, <1>3, PaddedFacts

\* Each message begins where the one before it ends.
LEMMA OffStep ==
  ASSUME NEW q \in MailSeqs
  PROVE  /\ Off(q, 1) = 0
         /\ \A i \in 1..Len(q) : Off(q, i + 1) = Off(q, i) + MetaSize + Padded(q[i].msg.len)
<1> DEFINE d == [n \in Nat |-> Fifo!Padded(q[n].msg.len)]
<1>1. \A i : Off(q, i) = Sums(MetaSize, d)[i - 1]
  BY DEF Off
<1>2. \A i \in 1..Len(q) : d[i] = Padded(q[i].msg.len)
  BY MessageFacts, PaddedFacts
<1> HIDE DEF d
<1>3. /\ Sums(MetaSize, d)[0] = 0
      /\ \A n \in Nat : Sums(MetaSize, d)[n + 1] = Sums(MetaSize, d)[n] + MetaSize + d[n + 1]
  BY SumsAre
<1>4. Len(q) \in Nat
  BY DEF MailSeqs
<1>5. \A i \in 1..Len(q) : i - 1 \in Nat /\ (i - 1) + 1 = i /\ (i + 1) - 1 = i
  BY <1>4
<1>6. 1 - 1 = 0
  OBVIOUS
<1>7. ASSUME NEW i \in 1..Len(q)
      PROVE  Off(q, i + 1) = Off(q, i) + MetaSize + Padded(q[i].msg.len)
  <2>1. Off(q, i + 1) = Sums(MetaSize, d)[i] /\ Off(q, i) = Sums(MetaSize, d)[i - 1]
    BY <1>1, <1>5
  <2>2. Sums(MetaSize, d)[(i - 1) + 1] = Sums(MetaSize, d)[i - 1] + MetaSize + d[(i - 1) + 1]
    BY <1>3, <1>5
  <2> QED BY <1>2, <1>5, <2>1, <2>2
<1> QED BY <1>1, <1>3, <1>6, <1>7

\* Every message begins and ends on a word, before the end of the last.
LEMMA OffFacts ==
  ASSUME NEW q \in MailSeqs
  PROVE  /\ \A i \in 1..(Len(q) + 1) : Off(q, i) \in Nat /\ Off(q, i) % 4 = 0
         /\ \A i \in 1..Len(q) :
              Off(q, i) + MetaSize + Padded(q[i].msg.len) <= Off(q, Len(q) + 1)
<1>1. Len(q) \in Nat
  BY DEF MailSeqs
<1> DEFINE S == {n \in Nat : n <= Len(q) => Off(q, n + 1) \in Nat /\ Off(q, n + 1) % 4 = 0}
<1>2. 0 \in S
  BY OffStep
<1>3. ASSUME NEW n \in Nat, n \in S PROVE n + 1 \in S
  <2> SUFFICES ASSUME n + 1 <= Len(q)
               PROVE  Off(q, (n + 1) + 1) \in Nat /\ Off(q, (n + 1) + 1) % 4 = 0
    OBVIOUS
  <2>1. n + 1 \in 1..Len(q)
    BY <1>1
  <2>2. Off(q, n + 1) \in Nat /\ Off(q, n + 1) % 4 = 0
    BY <1>1, <1>3
  <2>3. Off(q, (n + 1) + 1) = Off(q, n + 1) + 4 + Padded(q[n + 1].msg.len)
    BY <2>1, OffStep DEF MetaSize
  <2>4. Padded(q[n + 1].msg.len) \in Nat /\ Padded(q[n + 1].msg.len) % 4 = 0
    BY <2>1, MessageFacts
  <2>5. \A x, y \in Nat : x % 4 = 0 /\ y % 4 = 0 => x + 4 + y \in Nat /\ (x + 4 + y) % 4 = 0
    OBVIOUS
  <2> QED BY <2>2, <2>3, <2>4, <2>5
<1>4. Nat \subseteq S
  <2> HIDE DEF S
  <2> QED BY <1>2, <1>3, NatSetInduction
<1>5. ASSUME NEW i \in 1..(Len(q) + 1) PROVE Off(q, i) \in Nat /\ Off(q, i) % 4 = 0
  <2>1. i - 1 \in Nat /\ i - 1 <= Len(q) /\ (i - 1) + 1 = i
    BY <1>1
  <2> QED BY <1>4, <2>1
<1> HIDE DEF S
<1> DEFINE T == {n \in Nat : \A i \in 1..Len(q) : i + n <= Len(q) => Off(q, i + 1) <= Off(q, i + n + 1)}
<1>6. 0 \in T
  <2>1. \A i \in 1..Len(q) : Off(q, i + 1) \in Nat /\ i + 0 + 1 = i + 1
    BY <1>1, <1>5
  <2> QED BY <2>1
<1>7. ASSUME NEW n \in Nat, n \in T PROVE n + 1 \in T
  <2> SUFFICES ASSUME NEW i \in 1..Len(q), i + (n + 1) <= Len(q)
               PROVE  Off(q, i + 1) <= Off(q, i + (n + 1) + 1)
    OBVIOUS
  <2>1. i + n + 1 \in 1..Len(q) /\ i + n <= Len(q) /\ i + (n + 1) + 1 = (i + n + 1) + 1
    BY <1>1
  <2>2. Off(q, i + 1) <= Off(q, i + n + 1)
    BY <1>7, <2>1
  <2>3. Off(q, (i + n + 1) + 1) = Off(q, i + n + 1) + 4 + Padded(q[i + n + 1].msg.len)
    BY <2>1, OffStep DEF MetaSize
  <2>4. Padded(q[i + n + 1].msg.len) \in Nat
    BY <2>1, MessageFacts
  <2>5. Off(q, i + 1) \in Nat /\ Off(q, i + n + 1) \in Nat
    BY <1>1, <1>5, <2>1
  <2> QED BY <2>1, <2>2, <2>3, <2>4, <2>5
<1>8. Nat \subseteq T
  <2> HIDE DEF T
  <2> QED BY <1>6, <1>7, NatSetInduction
<1>9. ASSUME NEW i \in 1..Len(q) PROVE Off(q, i + 1) <= Off(q, Len(q) + 1)
  <2> DEFINE n == Len(q) - i
  <2>1. n \in Nat /\ i + n <= Len(q) /\ i + n + 1 = Len(q) + 1
    BY <1>1
  <2> HIDE DEF n
  <2>2. n \in T
    BY <1>8, <2>1
  <2> QED BY <2>1, <2>2
<1> QED BY <1>5, <1>9, OffStep

\* The offsets are those of the messages before, and do not see later ones.
LEMMA OffAgree ==
  ASSUME NEW q \in MailSeqs, NEW r \in MailSeqs, Len(q) <= Len(r),
         \A i \in 1..Len(q) : q[i] = r[i]
  PROVE  \A i \in 1..(Len(q) + 1) : Off(q, i) = Off(r, i)
<1>1. Len(q) \in Nat /\ Len(r) \in Nat
  BY DEF MailSeqs
<1> DEFINE S == {n \in Nat : n <= Len(q) => Off(q, n + 1) = Off(r, n + 1)}
<1>2. 0 \in S
  BY OffStep
<1>3. ASSUME NEW n \in Nat, n \in S PROVE n + 1 \in S
  <2> SUFFICES ASSUME n + 1 <= Len(q)
               PROVE  Off(q, (n + 1) + 1) = Off(r, (n + 1) + 1)
    OBVIOUS
  <2>1. n + 1 \in 1..Len(q) /\ n + 1 \in 1..Len(r) /\ n <= Len(q)
    BY <1>1
  <2>2. Off(q, n + 1) = Off(r, n + 1)
    BY <1>3, <2>1
  <2>3. q[n + 1] = r[n + 1]
    BY <2>1
  <2>4. Off(q, (n + 1) + 1) = Off(q, n + 1) + MetaSize + Padded(q[n + 1].msg.len)
    BY <2>1, OffStep
  <2>5. Off(r, (n + 1) + 1) = Off(r, n + 1) + MetaSize + Padded(r[n + 1].msg.len)
    BY <2>1, OffStep
  <2> QED BY <2>2, <2>3, <2>4, <2>5
<1>4. Nat \subseteq S
  <2> HIDE DEF S
  <2> QED BY <1>2, <1>3, NatSetInduction
<1>5. \A i \in 1..(Len(q) + 1) : i - 1 \in Nat /\ i - 1 <= Len(q) /\ (i - 1) + 1 = i
  BY <1>1
<1> QED BY <1>4, <1>5

\* Without the oldest message, the others begin that much earlier.
LEMMA OffOfTail ==
  ASSUME NEW q \in MailSeqs, q # <<>>
  PROVE  /\ Tail(q) \in MailSeqs /\ Len(Tail(q)) = Len(q) - 1 /\ Len(q) \in Nat \ {0}
         /\ \A i \in 1..(Len(q) - 1) : Tail(q)[i] = q[i + 1]
         /\ \A i \in 1..Len(q) : Off(q, i + 1) = Off(Tail(q), i) + MetaSize + Padded(q[1].msg.len)
<1>1. /\ Tail(q) \in MailSeqs /\ Len(Tail(q)) = Len(q) - 1 /\ Len(q) \in Nat \ {0}
      /\ \A i \in 1..(Len(q) - 1) : Tail(q)[i] = q[i + 1]
  BY DEF MailSeqs
<1> DEFINE r == Tail(q)
           P == MetaSize + Padded(q[1].msg.len)
           S == {n \in Nat : n < Len(q) => Off(q, n + 2) = Off(r, n + 1) + P}
<1> HIDE DEF r
<1>2. P \in Nat
  BY <1>1, MessageFacts DEF MetaSize
<1>3. 0 \in S
  <2>1. 1 \in 1..Len(q)
    BY <1>1
  <2>2. Off(q, 1 + 1) = Off(q, 1) + MetaSize + Padded(q[1].msg.len)
    BY <2>1, OffStep
  <2>3. Off(q, 1) = 0 /\ Off(r, 1) = 0
    BY <1>1, OffStep DEF r
  <2>4. Padded(q[1].msg.len) \in Nat
    BY <2>1, MessageFacts
  <2> QED BY <2>2, <2>3, <2>4 DEF MetaSize
<1>4. ASSUME NEW n \in Nat, n \in S PROVE n + 1 \in S
  <2> SUFFICES ASSUME n + 1 < Len(q)
               PROVE  Off(q, (n + 1) + 2) = Off(r, (n + 1) + 1) + P
    OBVIOUS
  <2>1. n + 2 \in 1..Len(q) /\ n + 1 \in 1..Len(r) /\ n < Len(q) /\ n + 1 \in 1..(Len(q) - 1)
        /\ n + 2 \in 1..(Len(q) + 1) /\ n + 1 \in 1..(Len(r) + 1)
    BY <1>1 DEF r
  <2>2. Off(q, n + 2) = Off(r, n + 1) + P
    BY <1>4, <2>1
  <2>3. r[n + 1] = q[n + 2]
    BY <1>1, <2>1 DEF r
  <2>4. Off(q, (n + 2) + 1) = Off(q, n + 2) + MetaSize + Padded(q[n + 2].msg.len)
    BY <2>1, OffStep
  <2>5. r \in MailSeqs
    BY <1>1 DEF r
  <2>6. Off(r, (n + 1) + 1) = Off(r, n + 1) + MetaSize + Padded(r[n + 1].msg.len)
    BY <2>1, <2>5, OffStep
  <2>7. Off(q, n + 2) \in Nat /\ Off(r, n + 1) \in Nat
    BY <2>1, <2>5, OffFacts
  <2>8. Padded(q[n + 2].msg.len) \in Nat
    BY <2>1, MessageFacts
  <2>9. (n + 1) + 2 = (n + 2) + 1
    OBVIOUS
  <2> HIDE DEF P
  <2> QED BY <1>2, <2>2, <2>3, <2>4, <2>6, <2>7, <2>8, <2>9 DEF MetaSize
<1>5. Nat \subseteq S
  <2> HIDE DEF S
  <2> QED BY <1>3, <1>4, NatSetInduction
<1>6. ASSUME NEW i \in 1..Len(q)
      PROVE Off(q, i + 1) = Off(r, i) + MetaSize + Padded(q[1].msg.len)
  <2>1. i - 1 \in Nat /\ i - 1 < Len(q) /\ (i - 1) + 1 = i /\ (i - 1) + 2 = i + 1
    BY <1>1
  <2>2. Off(q, i + 1) = Off(r, i) + P
    BY <1>5, <2>1
  <2>3. i \in 1..(Len(r) + 1) /\ r \in MailSeqs /\ 1 \in 1..Len(q)
    BY <1>1 DEF r
  <2>4. Off(r, i) \in Nat
    BY <2>3, OffFacts
  <2>5. Padded(q[1].msg.len) \in Nat
    BY <2>3, MessageFacts
  <2> QED BY <2>2, <2>4, <2>5 DEF MetaSize
<1> QED BY <1>1, <1>6 DEF r

-----------------------------------------------------------------------------
\* The ring of c bytes mb holds the messages of q from t on, with their padding.
Holds(mb, c, t, q) ==
  \A i \in 1..Len(q) :
    /\ \A k \in 0..3 : mb[Wrap(t + Off(q, i) + k, c)] = <<q[i].from, k>>
    /\ \A k \in 0..(Padded(q[i].msg.len) - 1) :
         mb[Wrap(t + Off(q, i) + 4 + k, c)] = <<q[i].msg, k>>

RingInv ==
  /\ mailbox_capacity % 4 = 0
  /\ mail_tail \in 0..(mailbox_capacity - 1) /\ mail_tail % 4 = 0
  /\ mail \in MailSeqs
  /\ mailbox_size = Off(mail, Len(mail) + 1) /\ mailbox_size <= mailbox_capacity
  /\ mail_head = Wrap(mail_tail + mailbox_size, mailbox_capacity)
  /\ mailbox = [a \in 0..(mailbox_capacity - 1) |-> mailbox[a]]
  /\ Holds(mailbox, mailbox_capacity, mail_tail, mail)

\* A task has no mailbox and no messages, or a ring that holds them.
IInv == /\ mailbox_capacity \in Nat
        /\ mailbox_capacity = 0 => mail = <<>>
        /\ mailbox_capacity # 0 => RingInv

\* Another message begins where the last one ends.
LEMMA AppendFacts ==
  ASSUME NEW q \in MailSeqs, NEW s \in Senders, NEW m \in Msgs
  PROVE  LET x == [from |-> s, msg |-> m]
             r == Append(q, x)
         IN /\ r \in MailSeqs /\ Len(r) = Len(q) + 1 /\ r[Len(q) + 1] = x /\ Len(q) \in Nat
            /\ \A i \in 1..Len(q) : r[i] = q[i]
            /\ \A i \in 1..(Len(q) + 1) : Off(r, i) = Off(q, i)
            /\ Off(r, Len(r) + 1) = Off(q, Len(q) + 1) + MetaSize + Padded(m.len)
<1> DEFINE x == [from |-> s, msg |-> m]
           r == Append(q, x)
<1>1. x \in [from : Senders, msg : Msgs] /\ x.msg = m
  OBVIOUS
<1>2. /\ r \in MailSeqs /\ Len(r) = Len(q) + 1 /\ r[Len(q) + 1] = x /\ Len(q) \in Nat
      /\ \A i \in 1..Len(q) : r[i] = q[i]
  <2> DEFINE S == [from : Senders, msg : Msgs]
  <2>1. q \in Seq(S) /\ x \in S
    BY <1>1 DEF MailSeqs
  <2> HIDE DEF S, x
  <2>2. r \in Seq(S)
    BY <2>1
  <2>3. Len(r) = Len(q) + 1 /\ r[Len(q) + 1] = x /\ Len(q) \in Nat
        /\ \A i \in 1..Len(q) : r[i] = q[i]
    BY <2>1
  <2> QED BY <2>2, <2>3 DEF S, MailSeqs
<1> HIDE DEF r, x
<1>3. \A i \in 1..(Len(q) + 1) : Off(q, i) = Off(r, i)
  <2>1. Len(q) <= Len(r) /\ \A i \in 1..Len(q) : q[i] = r[i]
    BY <1>2
  <2> QED BY <1>2, <2>1, OffAgree
<1>4. Off(r, (Len(q) + 1) + 1) = Off(r, Len(q) + 1) + MetaSize + Padded(m.len)
  <2>1. Len(q) + 1 \in 1..Len(r)
    BY <1>2
  <2> QED BY <1>1, <1>2, <2>1, OffStep
<1>5. Len(q) + 1 \in 1..(Len(q) + 1)
  BY <1>2
<1> QED BY <1>2, <1>3, <1>4, <1>5 DEF r, x

\* The bytes of a message lie where RingArith says they do.
LEMMA WithinUsed ==
  ASSUME NEW q \in MailSeqs, NEW i \in 1..Len(q)
  PROVE  LET z == Off(q, Len(q) + 1) IN
         /\ z \in Nat
         /\ \A k \in 0..3 : Off(q, i) + k \in 0..(z - 1)
         /\ \A k \in 0..(Padded(q[i].msg.len) - 1) : Off(q, i) + 4 + k \in 0..(z - 1)
<1>1. Len(q) \in Nat
  BY DEF MailSeqs
<1>2. Off(q, i) \in Nat /\ Off(q, Len(q) + 1) \in Nat
  <2>1. i \in 1..(Len(q) + 1) /\ Len(q) + 1 \in 1..(Len(q) + 1)
    BY <1>1
  <2> QED BY <2>1, OffFacts
<1>3. Off(q, i) + 4 + Padded(q[i].msg.len) <= Off(q, Len(q) + 1)
  BY OffFacts DEF MetaSize
<1>4. Padded(q[i].msg.len) \in Nat \ {0}
  BY MessageFacts
<1>5. ASSUME NEW o \in Nat, NEW z \in Nat, NEW p \in Nat \ {0}, o + 4 + p <= z
      PROVE  /\ \A k \in 0..3 : o + k \in 0..(z - 1)
             /\ \A k \in 0..(p - 1) : o + 4 + k \in 0..(z - 1)
  BY <1>5
<1> QED BY <1>2, <1>3, <1>4, <1>5

\* What k_send_msg makes of the ring: the metadata goes to h, the message to b.
Written(mb, c, h, b, s, m) ==
  [a \in 0..(c - 1) |-> IF Wrap(a - b, c) < Padded(m.len) THEN <<m, Wrap(a - b, c)>>
                        ELSE IF a - h \in 0..3 THEN <<s, a - h>>
                        ELSE mb[a]]

\* A message that fits is stored after the others, none of which it touches.
LEMMA SendHolds ==
  ASSUME NEW c \in Nat \ {0}, NEW t \in 0..(c - 1), c % 4 = 0, t % 4 = 0,
         NEW q \in MailSeqs, NEW s \in Senders, NEW m \in Msgs,
         Off(q, Len(q) + 1) + 4 + Padded(m.len) <= c,
         NEW h, h = Wrap(t + Off(q, Len(q) + 1), c), NEW b, b = Wrap(h + 4, c),
         NEW mb, Holds(mb, c, t, q)
  PROVE  Holds(Written(mb, c, h, b, s, m), c, t, Append(q, [from |-> s, msg |-> m]))
<1> DEFINE z == Off(q, Len(q) + 1)
           p == Padded(m.len)
           x == [from |-> s, msg |-> m]
           r == Append(q, x)
           new == Written(mb, c, h, b, s, m)
<1>1. /\ r \in MailSeqs /\ Len(r) = Len(q) + 1 /\ r[Len(q) + 1] = x /\ Len(q) \in Nat
      /\ \A i \in 1..Len(q) : r[i] = q[i]
      /\ \A i \in 1..(Len(q) + 1) : Off(r, i) = Off(q, i)
  BY AppendFacts
<1>2. z \in Nat /\ z % 4 = 0
  <2>1. Len(q) + 1 \in 1..(Len(q) + 1)
    BY <1>1
  <2> QED BY <2>1, OffFacts
<1>3. p \in Nat /\ p % 4 = 0
  BY MailboxAssumption, PaddedFacts
<1>4. x.from = s /\ x.msg = m
  OBVIOUS
<1>5. z + 4 + p <= c /\ h = Wrap(t + z, c)
  OBVIOUS
<1>6. new = [a \in 0..(c - 1) |->
              IF Wrap(a - b, c) < p THEN <<m, Wrap(a - b, c)>>
              ELSE IF a - h \in 0..3 THEN <<s, a - h>> ELSE mb[a]]
  BY DEF Written
<1> HIDE DEF z, p, x, r, new
<1>7. RoomAt(c, t, z, p, h, b)
  BY <1>2, <1>3, <1>5, RingArith
<1>8. ASSUME NEW o \in 0..(z - 1) PROVE new[Wrap(t + o, c)] = mb[Wrap(t + o, c)]
  <2> DEFINE a == Wrap(t + o, c)
  <2>1. a \in 0..(c - 1) /\ a - h \notin 0..3 /\ ~(Wrap(a - b, c) < p)
    BY <1>7 DEF RoomAt
  <2> HIDE DEF a
  <2>2. new[a] = mb[a]
    BY <1>6, <2>1
  <2> QED BY <2>2 DEF a
<1>9. \A k \in 0..3 : new[Wrap(t + z + k, c)] = <<s, k>>
  <2> SUFFICES ASSUME NEW k \in 0..3 PROVE new[Wrap(t + z + k, c)] = <<s, k>>
    OBVIOUS
  <2>1. MetaAt(c, t, z, p, h, b, k)
    BY <1>7 DEF RoomAt
  <2>2. \A l \in 0..(c - 1) : ~(Wrap(l - b, c) < p) /\ l - h = k => new[l] = <<s, k>>
    BY <1>6
  <2>3. new[h + k] = <<s, k>>
    BY <2>1, <2>2 DEF MetaAt
  <2> QED BY <2>1, <2>3 DEF MetaAt
<1>10. \A k \in 0..(p - 1) : new[Wrap(t + z + 4 + k, c)] = <<m, k>>
  <2> SUFFICES ASSUME NEW k \in 0..(p - 1) PROVE new[Wrap(t + z + 4 + k, c)] = <<m, k>>
    OBVIOUS
  <2> DEFINE a == Wrap(t + z + 4 + k, c)
  <2>1. a \in 0..(c - 1) /\ Wrap(a - b, c) = k /\ k < p
    BY <1>7 DEF RoomAt
  <2> HIDE DEF a
  <2>2. new[a] = <<m, k>>
    BY <1>6, <2>1
  <2> QED BY <2>2 DEF a
<1>11. ASSUME NEW i \in 1..Len(r)
       PROVE  /\ \A k \in 0..3 : new[Wrap(t + Off(r, i) + k, c)] = <<r[i].from, k>>
              /\ \A k \in 0..(Padded(r[i].msg.len) - 1) :
                   new[Wrap(t + Off(r, i) + 4 + k, c)] = <<r[i].msg, k>>
  <2>1. CASE i = Len(q) + 1
    <3>1. Off(r, i) = z /\ r[i] = x
      BY <1>1, <2>1 DEF z
    <3> QED BY <1>4, <1>9, <1>10, <3>1 DEF p
  <2>2. CASE i # Len(q) + 1
    <3>1. i \in 1..Len(q) /\ i \in 1..(Len(q) + 1)
      BY <1>1, <2>2
    <3>2. r[i] = q[i] /\ Off(r, i) = Off(q, i)
      BY <1>1, <3>1
    <3>3. /\ \A k \in 0..3 : Off(q, i) + k \in 0..(z - 1)
          /\ \A k \in 0..(Padded(q[i].msg.len) - 1) : Off(q, i) + 4 + k \in 0..(z - 1)
      BY <3>1, WithinUsed DEF z
    <3>4. Off(q, i) \in Nat
      BY <3>1, OffFacts
    <3>5. /\ \A k \in 0..3 : t + (Off(q, i) + k) = t + Off(q, i) + k
          /\ \A k \in 0..(Padded(q[i].msg.len) - 1) : t + (Off(q, i) + 4 + k) = t + Off(q, i) + 4 + k
      <4>1. \A o \in Nat, k \in Int : t + (o + k) = t + o + k /\ t + (o + 4 + k) = t + o + 4 + k
        OBVIOUS
      <4>2. Padded(q[i].msg.len) \in Nat
        BY <3>1, MessageFacts
      <4>3. \A k \in 0..3 : k \in Int
        OBVIOUS
      <4>4. \A k \in 0..(Padded(q[i].msg.len) - 1) : k \in Int
        BY <4>2
      <4> QED BY <3>4, <4>1, <4>3, <4>4
    <3>6. /\ \A k \in 0..3 : mb[Wrap(t + Off(q, i) + k, c)] = <<q[i].from, k>>
          /\ \A k \in 0..(Padded(q[i].msg.len) - 1) :
               mb[Wrap(t + Off(q, i) + 4 + k, c)] = <<q[i].msg, k>>
      BY <3>1 DEF Holds
    <3>7. /\ \A k \in 0..3 : new[Wrap(t + Off(q, i) + k, c)] = <<q[i].from, k>>
          /\ \A k \in 0..(Padded(q[i].msg.len) - 1) :
               new[Wrap(t + Off(q, i) + 4 + k, c)] = <<q[i].msg, k>>
      <4>1. ASSUME NEW k \in 0..3
            PROVE  new[Wrap(t + Off(q, i) + k, c)] = <<q[i].from, k>>
        <5>1. new[Wrap(t + (Off(q, i) + k), c)] = mb[Wrap(t + (Off(q, i) + k), c)]
          BY <1>8, <3>3
        <5> QED BY <3>5, <3>6, <5>1
      <4>2. ASSUME NEW k \in 0..(Padded(q[i].msg.len) - 1)
            PROVE  new[Wrap(t + Off(q, i) + 4 + k, c)] = <<q[i].msg, k>>
        <5>1. new[Wrap(t + (Off(q, i) + 4 + k), c)] = mb[Wrap(t + (Off(q, i) + 4 + k), c)]
          BY <1>8, <3>3
        <5> QED BY <3>5, <3>6, <5>1
      <4> QED BY <4>1, <4>2
    <3> QED BY <3>2, <3>7
  <2> QED BY <2>1, <2>2
<1> QED BY <1>11 DEF Holds, r, x, new

\* What is left when the oldest message is taken is what comes after it.
LEMMA ReceiveHolds ==
  ASSUME NEW c \in Nat \ {0}, NEW t \in 0..(c - 1), NEW q \in MailSeqs, q # <<>>,
         Off(q, Len(q) + 1) <= c, NEW mb, Holds(mb, c, t, q),
         NEW u, u = Wrap(t + 4 + Padded(q[1].msg.len), c)
  PROVE  Holds(mb, c, u, Tail(q))
<1> DEFINE r == Tail(q)
           p == Padded(q[1].msg.len)
<1>1. /\ r \in MailSeqs /\ Len(r) = Len(q) - 1 /\ Len(q) \in Nat \ {0}
      /\ \A i \in 1..(Len(q) - 1) : r[i] = q[i + 1]
      /\ \A i \in 1..Len(q) : Off(q, i + 1) = Off(r, i) + 4 + p
  BY OffOfTail DEF MetaSize
<1>2. p \in Nat
  <2>1. 1 \in 1..Len(q)
    BY <1>1
  <2> QED BY <2>1, MessageFacts
<1>3. u = Wrap(t + 4 + p, c)
  OBVIOUS
<1> HIDE DEF r, p
\* An offset from the new tail and the one from the old tail name one byte.
<1> DEFINE Same(o, v, n) ==
             /\ \A k \in 0..3 : Wrap(u + o + k, c) = Wrap(t + v + k, c)
             /\ \A k \in 0..(n - 1) : Wrap(u + o + 4 + k, c) = Wrap(t + v + 4 + k, c)
<1>4. ASSUME NEW o \in Nat, NEW v, v = o + 4 + p, NEW n \in Nat \ {0}, v + 4 + n <= c
      PROVE  Same(o, v, n)
  <2> USE DEF Wrap
  <2>1. ASSUME NEW k \in 0..3 PROVE Wrap(u + o + k, c) = Wrap(t + v + k, c)
    BY <1>2, <1>3, <1>4
  <2>2. ASSUME NEW k \in 0..(n - 1) PROVE Wrap(u + o + 4 + k, c) = Wrap(t + v + 4 + k, c)
    <3>1. k \in Nat /\ v + 4 + k < c /\ v \in Nat /\ t \in Nat
      BY <1>2, <1>4
    <3>2. u + o + 4 + k = IF t + 4 + p < c THEN t + v + 4 + k ELSE t + v + 4 + k - c
      BY <1>2, <1>3, <1>4, <3>1
    <3>3. CASE t + 4 + p < c
      <4>1. t + v + 4 + k < c \/ ~(t + v + 4 + k < c)
        OBVIOUS
      <4>2. t + v + 4 + k >= 0
        BY <1>2, <1>4, <3>1
      <4>3. u + o + 4 + k = t + v + 4 + k
        BY <3>2, <3>3
      <4>4. Wrap(u + o + 4 + k, c) = Wrap(t + v + 4 + k, c)
        BY <4>3, Zenon
      <4> QED BY <4>4
    <3>4. CASE ~(t + 4 + p < c)
      <4>1. t + v + 4 + k >= c /\ t + v + 4 + k - c \in 0..(c - 1) /\ t + v + 4 + k \in Int
        BY <1>2, <1>4, <3>1, <3>4
      <4>2. u + o + 4 + k = t + v + 4 + k - c
        BY <3>2, <3>4
      <4>3. Wrap(t + v + 4 + k - c, c) = t + v + 4 + k - c
        BY <4>1
      <4>4. Wrap(t + v + 4 + k, c) = t + v + 4 + k - c
        BY <3>1, <4>1
      <4> HIDE DEF Wrap
      <4> QED BY <4>2, <4>3, <4>4, Zenon
    <3> QED BY <3>3, <3>4
  <2> HIDE DEF Wrap
  <2> QED BY <2>1, <2>2
<1> HIDE DEF Same
<1>5. ASSUME NEW i \in 1..Len(r)
      PROVE  /\ \A k \in 0..3 : mb[Wrap(u + Off(r, i) + k, c)] = <<r[i].from, k>>
             /\ \A k \in 0..(Padded(r[i].msg.len) - 1) :
                  mb[Wrap(u + Off(r, i) + 4 + k, c)] = <<r[i].msg, k>>
  <2>1. i \in 1..(Len(q) - 1) /\ i + 1 \in 1..Len(q) /\ i \in 1..Len(q) /\ i \in 1..(Len(r) + 1)
        /\ Len(q) + 1 \in 1..(Len(q) + 1) /\ i + 1 \in 1..(Len(q) + 1)
    BY <1>1
  <2>2. r[i] = q[i + 1] /\ Off(q, i + 1) = Off(r, i) + 4 + p
    BY <1>1, <2>1
  <2>3. Off(r, i) \in Nat /\ Off(q, i + 1) \in Nat /\ Off(q, Len(q) + 1) \in Nat
    BY <1>1, <2>1, OffFacts
  <2>4. Padded(r[i].msg.len) \in Nat \ {0}
    BY <1>1, MessageFacts
  <2>5. Off(q, i + 1) + 4 + Padded(r[i].msg.len) <= Off(q, Len(q) + 1)
    BY <2>1, <2>2, OffFacts DEF MetaSize
  <2>6. Off(q, i + 1) + 4 + Padded(r[i].msg.len) <= c
    BY <2>3, <2>4, <2>5
  <2>7. Same(Off(r, i), Off(q, i + 1), Padded(r[i].msg.len))
    BY <1>4, <2>2, <2>3, <2>4, <2>6
  <2>8. /\ \A k \in 0..3 : Wrap(u + Off(r, i) + k, c) = Wrap(t + Off(q, i + 1) + k, c)
        /\ \A k \in 0..(Padded(r[i].msg.len) - 1) :
             Wrap(u + Off(r, i) + 4 + k, c) = Wrap(t + Off(q, i + 1) + 4 + k, c)
    BY <2>7 DEF Same
  <2>9. /\ \A k \in 0..3 : mb[Wrap(t + Off(q, i + 1) + k, c)] = <<q[i + 1].from, k>>
        /\ \A k \in 0..(Padded(q[i + 1].msg.len) - 1) :
             mb[Wrap(t + Off(q, i + 1) + 4 + k, c)] = <<q[i + 1].msg, k>>
    BY <2>1 DEF Holds
  <2> QED BY <2>2, <2>8, <2>9
<1> QED BY <1>5 DEF Holds, r

-----------------------------------------------------------------------------
\* A message that fits, as k_send_msg tests it, still fits when it is padded.
LEMMA FitsPadded ==
  ASSUME NEW c \in Nat, c % 4 = 0, NEW z \in Nat, z % 4 = 0, NEW n \in Nat \ {0}, n + 4 <= c - z
  PROVE  z + 4 + Padded(n) <= c
<1> DEFINE r == c - (z + 4)
<1>1. r \in Nat /\ r % 4 = 0 /\ n <= r
  OBVIOUS
<1>2. Padded(n) \in Nat
  BY PaddedFacts
<1> HIDE DEF r
<1>3. Padded(n) <= r
  BY <1>1, PaddedFacts
<1> QED BY <1>2, <1>3 DEF r

\* The oldest message, of p padded bytes, where it is read, and what is left.
HeadAt(c, t, z, p, b, u) ==
  /\ b \in 0..(c - 4) /\ t + 4 \in 0..c
  /\ \A k \in 0..3 : Wrap(t + k, c) = t + k /\ Wrap(t + 4 + k, c) = b + k
  /\ \A k \in 0..(p - 1) : Wrap(b + k, c) = Wrap(t + 4 + k, c) /\ b + k \in 0..(2 * c - 1)
  /\ Wrap(b + p, c) = u /\ b + p \in 0..(2 * c - 1)
  /\ u \in 0..(c - 1) /\ u % 4 = 0
  /\ Wrap(u + (z - (4 + p)), c) = Wrap(t + z, c)

LEMMA HeadArith ==
  ASSUME NEW c \in Nat \ {0}, NEW t \in 0..(c - 1), NEW z \in Nat, NEW p \in Nat,
         4 + p <= z, z <= c, c % 4 = 0, t % 4 = 0, p % 4 = 0,
         NEW b, b = Wrap(t + 4, c), NEW u, u = Wrap(t + 4 + p, c)
  PROVE  HeadAt(c, t, z, p, b, u)
<1> USE DEF Wrap
<1>1. t \in Nat /\ t + 4 \in 0..c
  OBVIOUS
<1>2. b = IF t + 4 < c THEN t + 4 ELSE 0
  BY <1>1
<1>3. b \in 0..(c - 4)
  <2>1. b \in Nat /\ b % 4 = 0 /\ b < c
    BY <1>1, <1>2
  <2> QED BY <2>1
<1>4. ASSUME NEW k \in 0..3 PROVE Wrap(t + k, c) = t + k /\ Wrap(t + 4 + k, c) = b + k
  BY <1>1, <1>2, <1>3
<1>5. ASSUME NEW k \in 0..(p - 1)
      PROVE  Wrap(b + k, c) = Wrap(t + 4 + k, c) /\ b + k \in 0..(2 * c - 1)
  BY <1>1, <1>2, <1>3
<1>6. Wrap(b + p, c) = u /\ b + p \in 0..(2 * c - 1)
  BY <1>1, <1>2, <1>3
<1>7. u \in 0..(c - 1) /\ u % 4 = 0
  BY <1>1
<1>8. Wrap(u + (z - (4 + p)), c) = Wrap(t + z, c)
  <2>1. u = IF t + 4 + p < c THEN t + 4 + p ELSE t + 4 + p - c
    BY <1>1
  <2> QED BY <1>1, <2>1
<1> HIDE DEF Wrap
<1> QED BY <1>1, <1>3, <1>4, <1>5, <1>6, <1>7, <1>8 DEF HeadAt

\* No mailbox satisfies the invariant.
LEMMA InitInv == Init => IInv
  BY DEF Init, IInv

\* A new mailbox is an empty ring.
LEMMA CreateInv ==
  ASSUME NEW n \in MbxSizes, MbxCreate(n)
  PROVE  IInv'
<1> DEFINE c == Padded(n)
<1>1. c \in Nat \ {0} /\ c % 4 = 0
  BY MailboxAssumption, PaddedFacts
<1>2. /\ mailbox_capacity' = c /\ mailbox' = [a \in 0..(c - 1) |-> Nothing]
      /\ mailbox_size' = 0 /\ mail_head' = 0 /\ mail_tail' = 0 /\ mail' = <<>>
  BY DEF MbxCreate
<1> HIDE DEF c
<1>3. <<>> \in MailSeqs /\ Len(<<>>) = 0 /\ 0 + 1 = 1
  BY DEF MailSeqs
<1>4. Off(<<>>, 0 + 1) = 0
  BY <1>3, OffStep
<1>5. Holds(mailbox', c, 0, <<>>)
  BY <1>3 DEF Holds
<1>6. 0 = Wrap(0 + 0, c) /\ 0 % 4 = 0 /\ 0 \in 0..(c - 1) /\ 0 <= c
  BY <1>1 DEF Wrap
<1>7. mailbox' = [a \in 0..(c - 1) |-> mailbox'[a]]
  BY <1>2
<1>8. RingInv'
  BY <1>1, <1>2, <1>3, <1>4, <1>5, <1>6, <1>7 DEF RingInv
<1> QED BY <1>1, <1>2, <1>8 DEF IInv

\* Without a mailbox nothing is claimed of the counters.
LEMMA ExitInv ==
  ASSUME IInv, Exit
  PROVE  IInv'
  BY DEF IInv, Exit

\* Where the ring's two ends are, as k_send_msg finds them.
LEMMA SendPlaces ==
  ASSUME IInv, NEW s \in Senders, NEW m \in Msgs, mailbox_capacity # 0, Fits(m)
  PROVE  LET c == mailbox_capacity
             z == mailbox_size
             p == Padded(m.len)
             b == After(mail_head, MetaSize)
         IN /\ c \in Nat \ {0} /\ z \in Nat /\ z % 4 = 0 /\ p \in Nat /\ p % 4 = 0
            /\ z + 4 + p <= c
            /\ b = Wrap(mail_head + 4, c)
            /\ RoomAt(c, mail_tail, z, p, mail_head, b)
            /\ \A a \in 0..(c - 1) : (a - b) % c = Wrap(a - b, c)
            /\ After(b, p) = Wrap(b + p, c)
<1> DEFINE c == mailbox_capacity
           t == mail_tail
           z == mailbox_size
           h == mail_head
           p == Padded(m.len)
           b == After(h, MetaSize)
<1>1. /\ c \in Nat \ {0} /\ c % 4 = 0 /\ t \in 0..(c - 1) /\ t % 4 = 0
      /\ z <= c /\ h = Wrap(t + z, c)
  BY DEF IInv, RingInv
<1>2. z \in Nat /\ z % 4 = 0
  <2>1. mail \in MailSeqs /\ z = Off(mail, Len(mail) + 1)
    BY DEF IInv, RingInv
  <2>2. Len(mail) + 1 \in 1..(Len(mail) + 1)
    BY <2>1 DEF MailSeqs
  <2> QED BY <2>1, <2>2, OffFacts
<1>3. m.len \in Nat \ {0}
  BY MailboxAssumption
<1>4. p \in Nat /\ p % 4 = 0
  BY <1>3, PaddedFacts
<1>5. z + 4 + p <= c
  <2>1. m.len + 4 <= c - z
    BY DEF Fits, MetaSize
  <2> QED BY <1>1, <1>2, <1>3, <2>1, FitsPadded
<1>6. b = (h + 4) % c
  BY DEF After, MetaSize
<1>7. \A pos : After(pos, p) = (pos + p) % c
  BY DEF After
<1> HIDE DEF c, t, z, h, p, b
<1>8. h \in 0..(c - 1)
  BY <1>1, <1>2 DEF Wrap
<1>9. b = Wrap(h + 4, c)
  <2>1. h + 4 \in (0 - c)..(2 * c - 1)
    BY <1>1, <1>2, <1>4, <1>5, <1>8
  <2> QED BY <1>1, <1>6, <2>1, WrapIs
<1>10. RoomAt(c, t, z, p, h, b)
  BY <1>1, <1>2, <1>4, <1>5, <1>9, RingArith
<1>11. b \in 0..(c - 1)
  BY <1>10 DEF RoomAt
<1>12. ASSUME NEW a \in 0..(c - 1) PROVE (a - b) % c = Wrap(a - b, c)
  <2>1. a - b \in (0 - c)..(2 * c - 1)
    BY <1>1, <1>11
  <2> QED BY <1>1, <2>1, WrapIs
<1>13. After(b, p) = Wrap(b + p, c)
  <2>1. b + p \in (0 - c)..(2 * c - 1)
    BY <1>1, <1>2, <1>4, <1>5, <1>11
  <2> QED BY <1>1, <1>7, <2>1, WrapIs
<1> QED BY <1>1, <1>2, <1>4, <1>5, <1>9, <1>10, <1>12, <1>13 DEF c, t, z, h, p, b

\* k_send_msg writes past what the ring holds.
LEMMA SendInv ==
  ASSUME IInv, NEW s \in Senders, NEW m \in Msgs, SendMsg(s, m)
  PROVE  IInv'
<1> DEFINE c == mailbox_capacity
           t == mail_tail
           z == mailbox_size
           h == mail_head
           p == Padded(m.len)
           b == After(h, MetaSize)
           x == [from |-> s, msg |-> m]
<1>1. /\ c \in Nat \ {0} /\ c % 4 = 0 /\ t \in 0..(c - 1) /\ t % 4 = 0
      /\ mail \in MailSeqs /\ z = Off(mail, Len(mail) + 1) /\ h = Wrap(t + z, c)
      /\ mailbox = [a \in 0..(c - 1) |-> mailbox[a]] /\ Holds(mailbox, c, t, mail)
  BY DEF IInv, RingInv, SendMsg
<1>2. /\ z \in Nat /\ p \in Nat /\ z + 4 + p <= c /\ b = Wrap(h + 4, c) /\ RoomAt(c, t, z, p, h, b)
      /\ \A a \in 0..(c - 1) : (a - b) % c = Wrap(a - b, c)
      /\ After(b, p) = Wrap(b + p, c)
  BY SendPlaces DEF SendMsg
<1>3. /\ mailbox' = [a \in DOMAIN mailbox |->
                      IF (a - b) % c < p THEN <<m, (a - b) % c>>
                      ELSE IF a - h \in 0..3 THEN <<s, a - h>>
                      ELSE mailbox[a]]
      /\ mail_head' = After(b, p) /\ mailbox_size' = z + 4 + p
      /\ mail' = Append(mail, x) /\ mailbox_capacity' = c /\ mail_tail' = t
  <2>1. mailbox_size' = z + 4 + p
    BY <1>2 DEF SendMsg, MetaSize
  <2> QED BY <2>1 DEF SendMsg
<1> HIDE DEF c, t, z, h, p, b, x
<1>4. mailbox' = Written(mailbox, c, h, b, s, m)
  <2>1. DOMAIN mailbox = 0..(c - 1)
    BY <1>1
  <2>2. mailbox' = [a \in 0..(c - 1) |->
                     IF Wrap(a - b, c) < p THEN <<m, Wrap(a - b, c)>>
                     ELSE IF a - h \in 0..3 THEN <<s, a - h>>
                     ELSE mailbox[a]]
    BY <1>2, <1>3, <2>1
  <2> QED BY <2>2 DEF Written, p
<1>5. Holds(mailbox', c, t, Append(mail, x))
  <2>1. Off(mail, Len(mail) + 1) + 4 + Padded(m.len) <= c /\ h = Wrap(t + Off(mail, Len(mail) + 1), c)
    BY <1>1, <1>2 DEF p
  <2>2. Holds(Written(mailbox, c, h, b, s, m), c, t, Append(mail, [from |-> s, msg |-> m]))
    BY <1>1, <1>2, <2>1, SendHolds
  <2> QED BY <1>4, <2>2 DEF x
<1>6. /\ Append(mail, x) \in MailSeqs
      /\ Off(Append(mail, x), Len(Append(mail, x)) + 1) = z + 4 + p
  BY <1>1, AppendFacts DEF z, p, x, MetaSize
<1>7. Wrap(b + p, c) = Wrap(t + (z + 4 + p), c)
  <2>1. Wrap(b + p, c) = Wrap(t + z + 4 + p, c)
    BY <1>2 DEF RoomAt
  <2>2. t + z + 4 + p = t + (z + 4 + p)
    BY <1>1, <1>2
  <2> QED BY <2>1, <2>2
<1>8. mailbox' = [a \in 0..(c - 1) |-> mailbox'[a]]
  BY <1>4 DEF Written
<1>9. RingInv'
  BY <1>1, <1>2, <1>3, <1>5, <1>6, <1>7, <1>8 DEF RingInv
<1> QED BY <1>1, <1>3, <1>9 DEF IInv

\* What k_recv_msg reads at the tail is the oldest message, and its sender.
LEMMA ReceivePlaces ==
  ASSUME IInv, mailbox_capacity # 0, mailbox_size # 0
  PROVE  LET c == mailbox_capacity
             z == mailbox_size
             p == Padded(mail[1].msg.len)
             b == After(mail_tail, MetaSize)
             u == Wrap(mail_tail + 4 + p, c)
         IN /\ c \in Nat \ {0} /\ z \in Nat /\ p \in Nat \ {0} /\ 4 + p <= z /\ mail # <<>>
            /\ b = Wrap(mail_tail + 4, c)
            /\ HeadAt(c, mail_tail, z, p, b, u)
            /\ \A k \in 0..3 : /\ mailbox[mail_tail + k] = <<mail[1].from, k>>
                               /\ mailbox[b + k] = <<mail[1].msg, k>>
            /\ \A k \in 0..(p - 1) : mailbox[After(b, k)] = <<mail[1].msg, k>>
            /\ After(b, p) = u
<1> DEFINE c == mailbox_capacity
           t == mail_tail
           z == mailbox_size
           q == mail
           p == Padded(q[1].msg.len)
           b == After(t, MetaSize)
           u == Wrap(t + 4 + p, c)
<1>1. /\ c \in Nat \ {0} /\ c % 4 = 0 /\ t \in 0..(c - 1) /\ t % 4 = 0
      /\ z <= c /\ z # 0 /\ q \in MailSeqs /\ z = Off(q, Len(q) + 1)
      /\ Holds(mailbox, c, t, q)
  BY DEF IInv, RingInv
<1>2. q # <<>>
  <2> SUFFICES ASSUME q = <<>> PROVE FALSE
    OBVIOUS
  <2>1. Len(q) + 1 = 1
    OBVIOUS
  <2>2. Off(q, 1) = 0
    BY <1>1, OffStep
  <2> HIDE DEF q, z
  <2> QED BY <1>1, <2>1, <2>2
<1>3. 1 \in 1..Len(q) /\ Len(q) + 1 \in 1..(Len(q) + 1)
  <2>1. Len(q) \in Nat \ {0}
    BY <1>1, <1>2, OffOfTail
  <2> QED BY <2>1
<1>4. p \in Nat \ {0} /\ p % 4 = 0 /\ z \in Nat
  BY <1>1, <1>3, MessageFacts, OffFacts
<1>5. 4 <= p
  <2>1. q[1].msg.len \in Nat \ {0}
    BY <1>1, <1>3, MessageFacts
  <2> QED BY <2>1, PaddedFacts
<1>6. b = (t + 4) % c /\ \A k : After(b, k) = (b + k) % c
  BY DEF After, MetaSize
<1>7. /\ \A k \in 0..3 : mailbox[Wrap(t + Off(q, 1) + k, c)] = <<q[1].from, k>>
      /\ \A k \in 0..(p - 1) : mailbox[Wrap(t + Off(q, 1) + 4 + k, c)] = <<q[1].msg, k>>
  BY <1>1, <1>3 DEF Holds
<1>8. Off(q, 1) = 0 /\ Off(q, 1) + 4 + p <= Off(q, Len(q) + 1)
  BY <1>1, <1>3, OffStep, OffFacts DEF MetaSize
<1> HIDE DEF c, t, z, q, p, b
<1>9. 4 + p <= z
  BY <1>1, <1>4, <1>8
<1>10. b = Wrap(t + 4, c)
  <2>1. t + 4 \in (0 - c)..(2 * c - 1)
    BY <1>1, <1>4, <1>9
  <2> QED BY <1>1, <1>6, <2>1, WrapIs
<1>11. HeadAt(c, t, z, p, b, u)
  BY <1>1, <1>4, <1>9, <1>10, HeadArith
<1>12. \A k \in 0..3 : mailbox[Wrap(t + k, c)] = <<q[1].from, k>>
  <2>1. t + Off(q, 1) = t
    BY <1>1, <1>8
  <2> QED BY <1>7, <2>1
<1>13. \A k \in 0..(p - 1) : mailbox[Wrap(t + 4 + k, c)] = <<q[1].msg, k>>
  <2>1. t + Off(q, 1) = t
    BY <1>1, <1>8
  <2> QED BY <1>7, <2>1
<1>14. ASSUME NEW k \in 0..3
       PROVE  mailbox[t + k] = <<q[1].from, k>> /\ mailbox[b + k] = <<q[1].msg, k>>
  <2>1. Wrap(t + k, c) = t + k /\ Wrap(t + 4 + k, c) = b + k
    BY <1>11 DEF HeadAt
  <2>2. k \in 0..(p - 1)
    BY <1>4, <1>5
  <2> QED BY <1>12, <1>13, <2>1, <2>2
<1>15. ASSUME NEW k \in 0..(p - 1) PROVE mailbox[After(b, k)] = <<q[1].msg, k>>
  <2>1. Wrap(b + k, c) = Wrap(t + 4 + k, c) /\ b + k \in 0..(2 * c - 1)
    BY <1>11 DEF HeadAt
  <2>2. b + k \in (0 - c)..(2 * c - 1)
    BY <1>1, <2>1
  <2>3. (b + k) % c = Wrap(b + k, c)
    BY <1>1, <2>2, WrapIs
  <2> QED BY <1>6, <1>13, <2>1, <2>3
<1>16. After(b, p) = u
  <2>1. Wrap(b + p, c) = u /\ b + p \in 0..(2 * c - 1)
    BY <1>11 DEF HeadAt
  <2>2. b + p \in (0 - c)..(2 * c - 1)
    BY <1>1, <2>1
  <2>3. (b + p) % c = Wrap(b + p, c)
    BY <1>1, <2>2, WrapIs
  <2> QED BY <1>6, <2>1, <2>3
<1> HIDE DEF u
<1>17. q = mail
  BY DEF q
<1> QED BY <1>1, <1>2, <1>4, <1>9, <1>10, <1>11, <1>14, <1>15, <1>16, <1>17 DEF c, t, z, p, b, u

\* No other message has these bytes.
LEMMA ReceiveReads ==
  ASSUME IInv, NEW len \in BufLens, RecvMsg(len)
  PROVE  LET m == mail[1].msg
             b == After(mail_tail, MetaSize)
         IN /\ mail # <<>> /\ m.len \in Nat \ {0} /\ HeaderAt(b) = m /\ SenderAt(mail_tail) = mail[1].from
            /\ CopyFrom(b, m.len) = m
<1> DEFINE m == mail[1].msg
           b == After(mail_tail, MetaSize)
           p == Padded(m.len)
<1>1. mail # <<>> /\ mail \in MailSeqs
  BY ReceivePlaces DEF RecvMsg, IInv, RingInv
<1>2. 1 \in 1..Len(mail)
  <2>1. Len(mail) \in Nat \ {0}
    BY <1>1, OffOfTail
  <2> QED BY <2>1
<1>3. mail[1].from \in Senders /\ m \in Msgs /\ m.len \in Nat \ {0}
  BY <1>1, <1>2, MessageFacts
<1>4. /\ \A k \in 0..3 : /\ mailbox[mail_tail + k] = <<mail[1].from, k>>
                         /\ mailbox[b + k] = <<m, k>>
      /\ \A k \in 0..(p - 1) : mailbox[After(b, k)] = <<m, k>>
  BY ReceivePlaces DEF RecvMsg
<1>5. m.len <= p /\ p \in Nat
  BY <1>3, PaddedFacts
<1> HIDE DEF m, b, p
<1>6. HeaderAt(b) = m
  <2>1. \A k \in 0..3 : mailbox[b + k] = <<m, k>>
    BY <1>4
  <2>2. ASSUME NEW x \in Msgs, \A k \in 0..3 : mailbox[b + k] = <<x, k>> PROVE x = m
    <3>1. 0 \in 0..3
      OBVIOUS
    <3>2. <<x, 0>> = <<m, 0>>
      BY <2>1, <2>2, <3>1
    <3> QED BY <3>2
  <2> QED BY <1>3, <2>1, <2>2 DEF HeaderAt
<1>7. SenderAt(mail_tail) = mail[1].from
  <2>1. \A k \in 0..3 : mailbox[mail_tail + k] = <<mail[1].from, k>>
    BY <1>4
  <2>2. ASSUME NEW x \in Senders, \A k \in 0..3 : mailbox[mail_tail + k] = <<x, k>>
        PROVE  x = mail[1].from
    <3>1. 0 \in 0..3
      OBVIOUS
    <3>2. <<x, 0>> = <<mail[1].from, 0>>
      BY <2>1, <2>2, <3>1
    <3> QED BY <3>2
  <2> QED BY <1>3, <2>1, <2>2 DEF SenderAt
<1>8. CopyFrom(b, m.len) = m
  <2> DEFINE Is(x) == x.len = m.len /\ \A k \in 0..(m.len - 1) : mailbox[After(b, k)] = <<x, k>>
  <2>1. Is(m)
    <3>1. \A k \in 0..(m.len - 1) : k \in 0..(p - 1)
      BY <1>3, <1>5
    <3> QED BY <1>4, <3>1
  <2>2. ASSUME NEW x \in Msgs, Is(x) PROVE x = m
    <3>1. 0 \in 0..(m.len - 1)
      BY <1>3
    <3>2. <<x, 0>> = <<m, 0>>
      BY <2>1, <2>2, <3>1
    <3> QED BY <3>2
  <2> HIDE DEF Is
  <2>3. m = CHOOSE x \in Msgs : Is(x)
    BY <1>3, <2>1, <2>2
  <2> QED BY <2>3 DEF CopyFrom, Is
<1> QED BY <1>1, <1>3, <1>6, <1>7, <1>8 DEF m, b

\* k_recv_msg moves the tail to the next message.
LEMMA ReceiveInv ==
  ASSUME IInv, NEW len \in BufLens, RecvMsg(len)
  PROVE  IInv'
<1> DEFINE c == mailbox_capacity
           t == mail_tail
           z == mailbox_size
           p == Padded(mail[1].msg.len)
           b == After(t, MetaSize)
           u == Wrap(t + 4 + p, c)
<1>1. /\ c \in Nat \ {0} /\ c % 4 = 0 /\ t \in 0..(c - 1)
      /\ mail \in MailSeqs /\ z = Off(mail, Len(mail) + 1) /\ z <= c
      /\ mail_head = Wrap(t + z, c)
      /\ mailbox = [a \in 0..(c - 1) |-> mailbox[a]] /\ Holds(mailbox, c, t, mail)
  BY DEF IInv, RingInv, RecvMsg
<1>2. /\ z \in Nat /\ p \in Nat \ {0} /\ 4 + p <= z /\ mail # <<>>
      /\ HeadAt(c, t, z, p, b, u) /\ After(b, p) = u
  BY ReceivePlaces DEF RecvMsg
<1>3. /\ mailbox' = mailbox /\ mail_head' = mail_head /\ mailbox_capacity' = c
      /\ mail' = Tail(mail)
      /\ mail_tail' = After(b, Padded(HeaderAt(b).len))
      /\ mailbox_size' = z - (4 + Padded(HeaderAt(b).len))
  BY DEF RecvMsg, MetaSize
<1>4. HeaderAt(b) = mail[1].msg
  BY ReceiveReads
<1>5. mail_tail' = u /\ mailbox_size' = z - (4 + p)
  BY <1>2, <1>3, <1>4
<1>6. u = Wrap(t + 4 + Padded(mail[1].msg.len), c)
  OBVIOUS
<1>7. /\ Tail(mail) \in MailSeqs /\ Len(Tail(mail)) = Len(mail) - 1 /\ Len(mail) \in Nat \ {0}
      /\ \A i \in 1..Len(mail) : Off(mail, i + 1) = Off(Tail(mail), i) + 4 + p
  BY <1>1, <1>2, OffOfTail DEF MetaSize
<1> HIDE DEF c, t, z, b, u
<1>8. Holds(mailbox, c, u, Tail(mail))
  BY <1>1, <1>2, <1>6, ReceiveHolds
<1> HIDE DEF p
<1>9. Off(Tail(mail), Len(Tail(mail)) + 1) = z - (4 + p)
  <2>1. Len(mail) \in 1..Len(mail) /\ Len(Tail(mail)) + 1 = Len(mail) /\ Len(mail) \in 1..(Len(Tail(mail)) + 1)
    BY <1>7
  <2>2. Off(mail, Len(mail) + 1) = Off(Tail(mail), Len(mail)) + 4 + p
    BY <1>7, <2>1
  <2>3. Off(Tail(mail), Len(mail)) \in Nat
    BY <1>7, <2>1, OffFacts
  <2> QED BY <1>1, <1>2, <2>1, <2>2, <2>3
<1>10. /\ u \in 0..(c - 1) /\ u % 4 = 0 /\ Wrap(u + (z - (4 + p)), c) = Wrap(t + z, c)
  BY <1>2 DEF HeadAt
<1>11. z - (4 + p) <= c
  BY <1>1, <1>2
<1>12. RingInv'
  BY <1>1, <1>3, <1>5, <1>7, <1>8, <1>9, <1>10, <1>11 DEF RingInv
<1> QED BY <1>1, <1>3, <1>12 DEF IInv

\* Every step keeps the invariant.
LEMMA StepInv == IInv /\ [Next]_vars => IInv'
<1> SUFFICES ASSUME IInv, [Next]_vars PROVE IInv'
  OBVIOUS
<1>1. CASE \E n \in MbxSizes : MbxCreate(n)
  BY <1>1, CreateInv
<1>2. CASE Exit
  BY <1>2, ExitInv
<1>3. CASE \E s \in Senders, m \in Msgs : SendMsg(s, m)
  BY <1>3, SendInv
<1>4. CASE \E len \in BufLens : RecvMsg(len)
  BY <1>4, ReceiveInv
<1>5. CASE UNCHANGED vars
  BY <1>5 DEF vars, IInv, RingInv
<1> QED BY <1>1, <1>2, <1>3, <1>4, <1>5 DEF Next

\* So it always holds.
LEMMA AlwaysInv == Spec => []IInv
  BY InitInv, StepInv, PTL DEF Spec

-----------------------------------------------------------------------------
\* What MailFifo calls the bytes used.
LEMMA BytesUsedIs == mail \in MailSeqs => Fifo!BytesUsed = Off(mail, Len(mail) + 1)
  BY OffsetIs DEF Fifo!BytesUsed

\* What the invariant says of a mailbox, in the queue's words.
LEMMA RingFacts ==
  ASSUME IInv, mailbox_capacity # 0
  PROVE  /\ mailbox_capacity \in Nat \ {0} /\ mailbox_capacity % 4 = 0
         /\ mail_tail \in 0..(mailbox_capacity - 1) /\ mail_tail % 4 = 0
         /\ mail \in MailSeqs /\ mailbox_size \in Nat /\ mailbox_size % 4 = 0
         /\ mailbox_size = Fifo!BytesUsed /\ mailbox_size <= mailbox_capacity
         /\ mail_head = Wrap(mail_tail + mailbox_size, mailbox_capacity)
         /\ Holds(mailbox, mailbox_capacity, mail_tail, mail)
<1>1. /\ mailbox_capacity \in Nat \ {0} /\ mailbox_capacity % 4 = 0
      /\ mail_tail \in 0..(mailbox_capacity - 1) /\ mail_tail % 4 = 0
      /\ mail \in MailSeqs /\ mailbox_size = Off(mail, Len(mail) + 1)
      /\ mailbox_size <= mailbox_capacity
      /\ mail_head = Wrap(mail_tail + mailbox_size, mailbox_capacity)
      /\ Holds(mailbox, mailbox_capacity, mail_tail, mail)
  BY DEF IInv, RingInv
<1>2. Len(mail) + 1 \in 1..(Len(mail) + 1)
  BY <1>1 DEF MailSeqs
<1>3. mailbox_size \in Nat /\ mailbox_size % 4 = 0
  BY <1>1, <1>2, OffFacts
<1> QED BY <1>1, <1>3, BytesUsedIs

\* Both ends of the ring are on words inside it.
LEMMA EndsAligned ==
  ASSUME NEW c \in Nat \ {0}, c % 4 = 0, NEW t \in 0..(c - 1), t % 4 = 0,
         NEW z \in Nat, z % 4 = 0, z <= c, NEW h, h = Wrap(t + z, c)
  PROVE  h % 4 = 0 /\ h + 4 <= c /\ t + 4 <= c
<1>1. h \in 0..(c - 1) /\ h % 4 = 0
  BY DEF Wrap
<1>2. \A x \in 0..(c - 1) : x % 4 = 0 => x + 4 <= c
  OBVIOUS
<1> QED BY <1>1, <1>2

\* The message that was sent i-th of those still there, padding left out.
LEMMA HoldsSlots ==
  ASSUME NEW c \in Nat \ {0}, NEW t \in 0..(c - 1), NEW q \in MailSeqs, NEW mb, Holds(mb, c, t, q),
         Off(q, Len(q) + 1) <= c, NEW i \in 1..Len(q)
  PROVE  /\ \A k \in 0..3 : mb[(t + Off(q, i) + k) % c] = <<q[i].from, k>>
         /\ \A k \in 0..(q[i].msg.len - 1) :
              mb[(t + Off(q, i) + 4 + k) % c] = <<q[i].msg, k>>
<1> DEFINE o == Off(q, i)
           p == Padded(q[i].msg.len)
           z == Off(q, Len(q) + 1)
<1>1. /\ z \in Nat /\ \A k \in 0..3 : o + k \in 0..(z - 1)
      /\ \A k \in 0..(p - 1) : o + 4 + k \in 0..(z - 1)
  BY WithinUsed
<1>2. /\ \A k \in 0..3 : mb[Wrap(t + o + k, c)] = <<q[i].from, k>>
      /\ \A k \in 0..(p - 1) : mb[Wrap(t + o + 4 + k, c)] = <<q[i].msg, k>>
  BY DEF Holds
<1>3. o \in Nat
  <2>1. i \in 1..(Len(q) + 1)
    BY DEF MailSeqs
  <2> QED BY <2>1, OffFacts
<1>4. p \in Nat /\ \A k \in 0..(q[i].msg.len - 1) : k \in 0..(p - 1)
  <2>1. q[i].msg.len \in Nat \ {0} /\ p \in Nat
    BY MessageFacts
  <2>2. q[i].msg.len <= p
    BY <2>1, PaddedFacts
  <2> HIDE DEF p
  <2> QED BY <2>1, <2>2
<1>5. z <= c
  OBVIOUS
<1> HIDE DEF o, p, z
<1>6. ASSUME NEW k \in 0..3 PROVE mb[(t + o + k) % c] = <<q[i].from, k>>
  <2>1. t + o + k \in (0 - c)..(2 * c - 1)
    BY <1>1, <1>3, <1>5
  <2> QED BY <1>2, <2>1, WrapIs
<1>7. ASSUME NEW k \in 0..(q[i].msg.len - 1) PROVE mb[(t + o + 4 + k) % c] = <<q[i].msg, k>>
  <2>1. k \in 0..(p - 1)
    BY <1>4
  <2>2. t + o + 4 + k \in (0 - c)..(2 * c - 1)
    BY <1>1, <1>3, <1>4, <1>5, <2>1
  <2> QED BY <1>2, <2>1, <2>2, WrapIs
<1> QED BY <1>6, <1>7 DEF o

\* Whatever the sizes, metadata and length are accessed as aligned words inside
\* the buffer (k_msg.c:58, 114, 117).
THEOREM WordsAreAligned == Spec => []WordsAligned
<1>1. ASSUME IInv PROVE WordsAligned
  <2> SUFFICES ASSUME mailbox_capacity # 0
               PROVE  /\ mail_head % 4 = 0 /\ mail_head + 4 <= mailbox_capacity
                      /\ mail_tail % 4 = 0 /\ mail_tail + 4 <= mailbox_capacity
    BY DEF WordsAligned
  <2> QED BY <1>1, RingFacts, EndsAligned
<1> QED BY <1>1, AlwaysInv, PTL

\* However it has wrapped, the ring holds the messages sent and not received,
\* whole and in order (k_send_msg and k_recv_msg, k_msg.c:43-144).
THEOREM RingIsMail == Spec => []RingHoldsMail
<1>1. ASSUME IInv PROVE RingHoldsMail
  <2> DEFINE c == mailbox_capacity
             t == mail_tail
  <2> SUFFICES ASSUME mailbox_capacity # 0
               PROVE  /\ mailbox_size = Fifo!BytesUsed /\ mailbox_size <= c
                      /\ mail_head = (t + mailbox_size) % c
                      /\ \A i \in 1..Len(mail) :
                           /\ \A k \in 0..3 : mailbox[(t + Fifo!Offset(i) + k) % c] = <<mail[i].from, k>>
                           /\ \A k \in 0..(mail[i].msg.len - 1) :
                                mailbox[(t + Fifo!Offset(i) + MetaSize + k) % c] = <<mail[i].msg, k>>
    BY DEF RingHoldsMail
  <2>1. /\ c \in Nat \ {0} /\ t \in 0..(c - 1) /\ mail \in MailSeqs /\ mailbox_size \in Nat
        /\ mailbox_size = Fifo!BytesUsed /\ mailbox_size <= c
        /\ mail_head = Wrap(t + mailbox_size, c) /\ Holds(mailbox, c, t, mail)
    BY <1>1, RingFacts
  <2> HIDE DEF c, t
  <2>2. mail_head = (t + mailbox_size) % c
    <3>1. t + mailbox_size \in (0 - c)..(2 * c - 1)
      BY <2>1
    <3> QED BY <2>1, <3>1, WrapIs
  <2>3. Off(mail, Len(mail) + 1) <= c
    BY <2>1, BytesUsedIs
  <2>4. ASSUME NEW i \in 1..Len(mail)
        PROVE  /\ \A k \in 0..3 : mailbox[(t + Fifo!Offset(i) + k) % c] = <<mail[i].from, k>>
               /\ \A k \in 0..(mail[i].msg.len - 1) :
                    mailbox[(t + Fifo!Offset(i) + MetaSize + k) % c] = <<mail[i].msg, k>>
    <3>1. Fifo!Offset(i) = Off(mail, i)
      BY OffsetIs
    <3>2. /\ \A k \in 0..3 : mailbox[(t + Off(mail, i) + k) % c] = <<mail[i].from, k>>
          /\ \A k \in 0..(mail[i].msg.len - 1) :
               mailbox[(t + Off(mail, i) + 4 + k) % c] = <<mail[i].msg, k>>
      BY <2>1, <2>3, HoldsSlots
    <3> QED BY <3>1, <3>2 DEF MetaSize
  <2> QED BY <2>1, <2>2, <2>4
<1> QED BY <1>1, AlwaysInv, PTL

\* k_send_msg's test of the room that is left never refuses a message that
\* fits, padded and with its metadata (k_msg.c:47-51).
THEOREM RoomIsUsed == Spec => []NeverRefusesRoom
<1>1. ASSUME IInv PROVE NeverRefusesRoom
  <2> SUFFICES ASSUME NEW m \in Msgs, mailbox_capacity # 0,
                      Fifo!BytesUsed + MetaSize + Padded(m.len) <= mailbox_capacity
               PROVE  Fits(m)
    BY DEF NeverRefusesRoom
  <2>1. m.len \in Nat \ {0} /\ Padded(m.len) \in Nat /\ m.len <= Padded(m.len)
    BY MailboxAssumption, PaddedFacts
  <2>2. /\ mailbox_size \in Nat /\ mailbox_capacity \in Nat
        /\ mailbox_size + 4 + Padded(m.len) <= mailbox_capacity
    BY <1>1, RingFacts DEF MetaSize
  <2> QED BY <2>1, <2>2 DEF Fits, MetaSize
<1> QED BY <1>1, AlwaysInv, PTL

\* A message that is stored is one that the queue accepts.
LEMMA SendRefines ==
  ASSUME IInv, NEW s \in Senders, NEW m \in Msgs, SendMsg(s, m)
  PROVE  Fifo!Send(s, m)
<1>1. mailbox_size + 4 + Padded(m.len) <= mailbox_capacity
  BY SendPlaces DEF SendMsg
<1>2. mailbox_size = Fifo!BytesUsed
  BY RingFacts DEF SendMsg
<1>3. Fifo!Padded(m.len) = Padded(m.len)
  BY MailboxAssumption, PaddedFacts
<1> QED BY <1>1, <1>2, <1>3 DEF SendMsg, Fifo!Send, Fifo!MetaSize

\* A message that is received is the queue's oldest.
LEMMA ReceiveRefines ==
  ASSUME IInv, NEW len \in BufLens, RecvMsg(len)
  PROVE  Fifo!Receive(len)
<1> DEFINE m == mail[1].msg
           b == After(mail_tail, MetaSize)
<1>1. /\ mail # <<>> /\ m.len \in Nat \ {0} /\ HeaderAt(b) = m /\ SenderAt(mail_tail) = mail[1].from
      /\ CopyFrom(b, m.len) = m
  BY ReceiveReads
<1>2. Head(mail) = mail[1]
  OBVIOUS
<1>3. mail[1] = [from |-> mail[1].from, msg |-> mail[1].msg]
  <2>1. mail \in Seq([from : Senders, msg : Msgs])
    BY DEF IInv, RingInv, RecvMsg, MailSeqs
  <2>2. mail[1] \in [from : Senders, msg : Msgs]
    <3> DEFINE S == [from : Senders, msg : Msgs]
    <3>1. mail \in Seq(S)
      BY <2>1
    <3> HIDE DEF S
    <3>2. mail[1] \in S
      BY <1>1, <3>1
    <3> QED BY <3>2 DEF S
  <2> QED BY <2>2
<1>4. got' = IF HeaderAt(b).len > len THEN Nothing
             ELSE [from |-> SenderAt(mail_tail), msg |-> CopyFrom(b, HeaderAt(b).len)]
  BY DEF RecvMsg
<1>5. mail' = Tail(mail) /\ mailbox_capacity' = mailbox_capacity
  BY DEF RecvMsg
<1> HIDE DEF b
<1>6. got' = IF m.len > len THEN Nothing ELSE mail[1]
  BY <1>1, <1>3, <1>4
<1>7. len \in Nat
  BY MailboxAssumption
<1>8. got' = IF m.len <= len THEN mail[1] ELSE Nothing
  <2> HIDE DEF m
  <2>1. m.len \in Nat
    BY <1>1
  <2> QED BY <1>6, <1>7, <2>1
<1> QED BY <1>1, <1>2, <1>5, <1>8 DEF Fifo!Receive

\* A new mailbox is an empty queue of the padded capacity.
LEMMA CreateRefines ==
  ASSUME NEW n \in MbxSizes, MbxCreate(n)
  PROVE  Fifo!Create(n)
<1>1. Fifo!Padded(n) = Padded(n)
  BY MailboxAssumption, PaddedFacts
<1> QED BY <1>1 DEF MbxCreate, Fifo!Create

\* A receiver gets the oldest message and its sender, and a message is accepted
\* exactly when it fits: every step of the ring is one of the queue's
\* (k_msg.c:18-144).
THEOREM RingImplementsFifo == Spec => ImplementsFifo
<1> DEFINE Step == \/ \E n \in MbxSizes : Fifo!Create(n)
                   \/ Fifo!Delete
                   \/ \E s \in Senders, m \in Msgs : Fifo!Send(s, m)
                   \/ \E len \in BufLens : Fifo!Receive(len)
<1>1. ASSUME IInv, [Next]_vars PROVE [Step]_<<mailbox_capacity, mail, got>>
  <2>1. CASE \E n \in MbxSizes : MbxCreate(n)
    BY <2>1, CreateRefines
  <2>2. CASE Exit
    BY <2>2 DEF Exit, Fifo!Delete
  <2>3. CASE \E s \in Senders, m \in Msgs : SendMsg(s, m)
    BY <1>1, <2>3, SendRefines
  <2>4. CASE \E len \in BufLens : RecvMsg(len)
    BY <1>1, <2>4, ReceiveRefines
  <2>5. CASE UNCHANGED vars
    BY <2>5 DEF vars
  <2> QED BY <1>1, <2>1, <2>2, <2>3, <2>4, <2>5 DEF Next
<1> QED BY <1>1, AlwaysInv, PTL DEF Spec, ImplementsFifo

\* The mailbox, its counters and its bytes, is the bounded queue of MailFifo.
THEOREM MailboxIsFifo == Spec => Fifo!Spec
<1>1. Init => Fifo!Init
  BY DEF Init, Fifo!Init
<1>2. ASSUME IInv, [Next]_vars PROVE [Fifo!Next]_<<mailbox_capacity, mail, got>>
  <2>1. CASE \E n \in MbxSizes : MbxCreate(n)
    BY <2>1, CreateRefines, MailboxAssumption DEF Fifo!Next
  <2>2. CASE Exit
    BY <2>2 DEF Exit, Fifo!Delete, Fifo!Next
  <2>3. CASE \E s \in Senders, m \in Msgs : SendMsg(s, m)
    BY <1>2, <2>3, SendRefines DEF Fifo!Next
  <2>4. CASE \E len \in BufLens : RecvMsg(len)
    BY <1>2, <2>4, ReceiveRefines, MailboxAssumption DEF Fifo!Next
  <2>5. CASE UNCHANGED vars
    BY <2>5 DEF vars
  <2> QED BY <1>2, <2>1, <2>2, <2>3, <2>4, <2>5 DEF Next
<1> QED BY <1>1, <1>2, AlwaysInv, PTL DEF Spec, Fifo!Spec
=============================================================================
