------------------------------ MODULE MailFifo ------------------------------
(***************************************************************************)
(* What a mailbox promises: a queue of whole messages, each with its       *)
(* sender, received in the order they were sent, bounded by the bytes      *)
(* they and their metadata take.  Mailbox.tla implements it.               *)
(***************************************************************************)
EXTENDS Integers, Sequences

CONSTANTS Senders, Msgs, Nothing

VARIABLES capacity, mail, got

MetaSize == 4   \* sizeof(mailbox_metadata_t)

\* The least multiple of four that is not below n.
Padded(n) == ((n + 3) \div 4) * 4

\* The offset of the i-th message from the oldest one.
Offset(i) ==
  LET sum[n \in Nat] ==
        IF n = 0 THEN 0 ELSE sum[n - 1] + MetaSize + Padded(mail[n].msg.len)
  IN  sum[i - 1]
BytesUsed == Offset(Len(mail) + 1)

Init == capacity = 0 /\ mail = <<>> /\ got = Nothing

Create(n) == /\ capacity = 0
             /\ capacity' = Padded(n) /\ mail' = <<>>
             /\ UNCHANGED got

Delete == /\ capacity # 0
          /\ capacity' = 0 /\ mail' = <<>>
          /\ UNCHANGED got

Send(s, m) == /\ BytesUsed + MetaSize + Padded(m.len) <= capacity
              /\ mail' = Append(mail, [from |-> s, msg |-> m])
              /\ UNCHANGED <<capacity, got>>

\* The oldest message is taken; a buffer too short for it loses it.
Receive(len) == /\ mail # <<>>
                /\ mail' = Tail(mail)
                /\ got' = IF Head(mail).msg.len <= len THEN Head(mail) ELSE Nothing
                /\ UNCHANGED capacity

Next == \/ \E n \in Nat \ {0} : Create(n)
        \/ Delete
        \/ \E s \in Senders, m \in Msgs : Send(s, m)
        \/ \E len \in Nat : Receive(len)

Spec == Init /\ [][Next]_<<capacity, mail, got>>
=============================================================================
