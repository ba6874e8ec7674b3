------------------------------ MODULE Mailbox -------------------------------
(***************************************************************************)
(* One task's mailbox (kernel/k_msg.c): a ring of bytes in which a message *)
(* is its metadata and then the message itself, padded to four bytes.  A   *)
(* byte is symbolic: <<m, k>> is byte k of message m, whose first four     *)
(* bytes are its length field; <<s, k>> is byte k of the metadata naming   *)
(* sender s.  `mail' is a history variable: the code does not have it.     *)
(***************************************************************************)
EXTENDS Integers, Sequences

CONSTANTS
  Senders,
  Msgs,       \* messages: records with a field len, in bytes
  MbxSizes,   \* the sizes tasks ask for, in bytes
  BufLens,    \* the lengths of the buffers they receive into, in bytes
  Nothing     \* no message, and the content of fresh memory

ASSUME MailboxAssumption ==
  /\ \A m \in Msgs : m.len \in Nat \ {0}
  /\ MbxSizes \subseteq Nat \ {0} /\ BufLens \subseteq Nat

VARIABLES
  mailbox,            \* the bytes at mailbox_lo
  mailbox_capacity,   \* 0 while mailbox_lo is NULL
  mailbox_size, mail_head, mail_tail,
  got,                \* what the last recv_msg returned
  mail

vars == <<mailbox, mailbox_capacity, mailbox_size, mail_head, mail_tail, got, mail>>

Fifo == INSTANCE MailFifo WITH capacity <- mailbox_capacity

MetaSize == 4   \* sizeof(mailbox_metadata_t)

\* Fault: nothing padded.
PaddedNot(n) == n

\* (n + 4) & ~0x3 unless n is a multiple of four.
Padded(n) == IF n % 4 # 0 THEN ((n + 4) \div 4) * 4 ELSE n

Init == /\ mailbox = <<>> /\ mailbox_capacity = 0 /\ mailbox_size = 0
        /\ mail_head = 0 /\ mail_tail = 0
        /\ got = Nothing /\ mail = <<>>

\* k_mbx_create; k_mem_alloc rounds up to eight, which has room for the four.
MbxCreate(n) ==
  /\ mailbox_capacity = 0
  /\ mailbox_capacity' = Padded(n)
  /\ mailbox' = [a \in 0..(Padded(n) - 1) |-> Nothing]
  /\ mailbox_size' = 0 /\ mail_head' = 0 /\ mail_tail' = 0
  /\ mail' = <<>>
  /\ UNCHANGED got

\* k_tsk_exit frees the mailbox; its counters stay as they are.
Exit ==
  /\ mailbox_capacity # 0
  /\ mailbox_capacity' = 0
  /\ mailbox' = <<>> /\ mail' = <<>>
  /\ UNCHANGED <<mailbox_size, mail_head, mail_tail, got>>

-----------------------------------------------------------------------------
\* Faults: the metadata not counted, and the last free bytes never used.
FitsUncounted(m) == m.len <= mailbox_capacity - mailbox_size
FitsStrictly(m) == m.len + MetaSize < mailbox_capacity - mailbox_size

\* k_send_msg's test, on the length before it is padded.
Fits(m) == /\ mailbox_size # mailbox_capacity
           /\ m.len + MetaSize <= mailbox_capacity - mailbox_size

\* Fault: a position that does not wrap.
AfterUnwrapped(pos, n) == pos + n

\* n bytes on from pos.
After(pos, n) == (pos + n) % mailbox_capacity

\* k_send_msg: the metadata as one word at the head, then byte by byte.
SendMsg(s, m) ==
  /\ mailbox_capacity # 0 /\ Fits(m)
  /\ LET body == After(mail_head, MetaSize)
         byte(a) == (a - body) % mailbox_capacity
     IN /\ mailbox' = [a \in DOMAIN mailbox |->
                         IF byte(a) < Padded(m.len) THEN <<m, byte(a)>>
                         ELSE IF a - mail_head \in 0..3 THEN <<s, a - mail_head>>
                         ELSE mailbox[a]]
        /\ mail_head' = After(body, Padded(m.len))
  /\ mailbox_size' = mailbox_size + MetaSize + Padded(m.len)
  /\ mail' = Append(mail, [from |-> s, msg |-> m])
  /\ UNCHANGED <<mailbox_capacity, mail_tail, got>>

\* The word at a: the sender, or the message, whose four bytes are there.
SenderAt(a) == CHOOSE s \in Senders : \A k \in 0..3 : mailbox[a + k] = <<s, k>>
HeaderAt(a) == CHOOSE m \in Msgs : \A k \in 0..3 : mailbox[a + k] = <<m, k>>

\* The message of len bytes copied from a on.
CopyFrom(a, len) ==
  CHOOSE m \in Msgs : /\ m.len = len
                      /\ \A k \in 0..(len - 1) : mailbox[After(a, k)] = <<m, k>>

\* k_recv_msg, once there is a message: a buffer too short for it loses it.
RecvMsg(len) ==
  /\ mailbox_capacity # 0 /\ mailbox_size # 0
  /\ LET body == After(mail_tail, MetaSize)
         msg_len == HeaderAt(body).len
     IN /\ mailbox_size' = mailbox_size - (MetaSize + Padded(msg_len))
        /\ mail_tail' = After(body, Padded(msg_len))
        /\ got' = IF msg_len > len THEN Nothing
                  ELSE [from |-> SenderAt(mail_tail), msg |-> CopyFrom(body, msg_len)]
  /\ mail' = Tail(mail)
  /\ UNCHANGED <<mailbox, mailbox_capacity, mail_head>>

Next == \/ \E n \in MbxSizes : MbxCreate(n)
        \/ Exit
        \/ \E s \in Senders, m \in Msgs : SendMsg(s, m)
        \/ \E len \in BufLens : RecvMsg(len)

Spec == Init /\ [][Next]_vars

-----------------------------------------------------------------------------
\* Metadata and length are read and written as aligned words that end inside
\* the buffer, although messages wrap around its end (k_msg.c:58, 114, 117).
WordsAligned == mailbox_capacity # 0 =>
  \A pos \in {mail_head, mail_tail} : pos % 4 = 0 /\ pos + 4 <= mailbox_capacity

\* The ring holds the messages sent and not yet received, whole and in order,
\* and nothing of them is ever overwritten; its size and its two ends say so.
RingHoldsMail == mailbox_capacity # 0 =>
  LET Slot(pos) == pos % mailbox_capacity
  IN /\ mailbox_size = Fifo!BytesUsed /\ mailbox_size <= mailbox_capacity
     /\ mail_head = Slot(mail_tail + mailbox_size)
     /\ \A i \in 1..Len(mail) :
          LET at == mail_tail + Fifo!Offset(i)
          IN /\ \A k \in 0..3 : mailbox[Slot(at + k)] = <<mail[i].from, k>>
             /\ \A k \in 0..(mail[i].msg.len - 1) :
                  mailbox[Slot(at + MetaSize + k)] = <<mail[i].msg, k>>

\* The ring implements the queue of messages: what a receiver gets is the
\* oldest message and its sender, and a message is accepted exactly when it
\* fits, padding and metadata included.
ImplementsFifo ==
  [][\/ \E n \in MbxSizes : Fifo!Create(n)
     \/ Fifo!Delete
     \/ \E s \in Senders, m \in Msgs : Fifo!Send(s, m)
     \/ \E len \in BufLens : Fifo!Receive(len)
    ]_<<mailbox_capacity, mail, got>>

\* A message that the queue has room for is not refused.
NeverRefusesRoom ==
  \A m \in Msgs :
    mailbox_capacity # 0 /\ Fifo!BytesUsed + MetaSize + Padded(m.len) <= mailbox_capacity
      => Fits(m)
=============================================================================
