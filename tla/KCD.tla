-------------------------------- MODULE KCD ---------------------------------
(***************************************************************************)
(* The KCD task (app/kcd_task.c) and the tasks that register commands with *)
(* it, exit and give their ids to new tasks.  The task's loop, from one    *)
(* recv_msg to the next, is one step: meanwhile the UART's interrupt can   *)
(* only add a character to its mailbox, and no task becomes more urgent    *)
(* than the running one.  `born' numbers the tasks that ever were and is a *)
(* history variable, as are the `born' fields.                             *)
(***************************************************************************)
EXTENDS Integers, Sequences, FiniteSets

CONSTANTS
  Chars,         \* the characters typed and sent, as ASCII codes
  Tids,          \* the task ids of the tasks that register commands
  MAX_CMD_LEN,
  MsgLens,       \* the lengths of the messages tasks send, in bytes
  INBOX,         \* messages waiting in the KCD task's mailbox
  BIRTHS,        \* tasks that ever are created
  TID_UART_IRQ, None

ASSUME KcdAssumption ==
  /\ Chars \subseteq 0..255 /\ MAX_CMD_LEN \in Nat \ {0, 1}
  /\ MsgLens \subseteq Nat \ {0} /\ MsgLens \cap 5..7 = {}
  /\ INBOX \in Nat /\ BIRTHS \in Nat
  /\ TID_UART_IRQ \notin Tids /\ None \notin Tids \cup Chars

VARIABLES
  born,       \* the task that has each id, 0 if none
  births,
  inbox,
  recv_buf,   \* type and data of the last message received
  cmd_reg_map, cmd_reg_bitmap,
  cmd_str, cmd_str_idx,
  cmd_too_long_err_flag,
  registered, \* the task that registered each slot
  out         \* what became of the last line

tasks == <<born, births>>
table == <<cmd_reg_map, cmd_reg_bitmap, registered>>
entry == <<cmd_str, cmd_str_idx, cmd_too_long_err_flag>>
vars == <<tasks, inbox, recv_buf, table, entry, out>>

KCD_REG == "KCD_REG"
KEY_IN == "KEY_IN"
DEFAULT == "DEFAULT"
HDR == 8                 \* sizeof(RTX_MSG_HDR)
Slots == 0..61

Ids == Chars \cap (48..57 \cup 65..90 \cup 97..122)   \* 0-9, A-Z, a-z
Enters == {10, 13}
PERCENT == 37

\* Fault: the letters one slot too low.
SlotShifted(c) == IF c <= 57 THEN c - 48 ELSE IF c <= 90 THEN c - 56 ELSE c - 61

\* The slot of a command identifier.
Slot(c) == IF c <= 57 THEN c - 48 ELSE IF c <= 90 THEN c - 55 ELSE c - 61

Line == [i \in 1..cmd_str_idx |-> cmd_str[i - 1]]

Init == /\ born = [t \in Tids |-> 0] /\ births = 0
        /\ inbox = <<>>
        /\ recv_buf = [type |-> DEFAULT, data |-> 0]
        /\ cmd_reg_map = [s \in Slots |-> None] /\ cmd_reg_bitmap = {}
        /\ registered = [s \in Slots |-> 0]
        /\ cmd_str = [i \in 0..(MAX_CMD_LEN - 1) |-> 0] /\ cmd_str_idx = 0
        /\ cmd_too_long_err_flag = FALSE
        /\ out = None

-----------------------------------------------------------------------------
\* tsk_create and tsk_exit.
Create(t) == /\ born[t] = 0 /\ births < BIRTHS
             /\ births' = births + 1
             /\ born' = [born EXCEPT ![t] = births']
             /\ UNCHANGED <<inbox, recv_buf, table, entry, out>>

Exit(t) == /\ born[t] # 0
           /\ born' = [born EXCEPT ![t] = 0]
           /\ UNCHANGED <<births, inbox, recv_buf, table, entry, out>>

\* A task sends a message of any type, and the interrupt a character; a message
\* that finds the mailbox full is lost.
Post(m) == /\ Len(inbox) < INBOX
           /\ inbox' = Append(inbox, m)
           /\ UNCHANGED <<tasks, recv_buf, table, entry, out>>

Send(t, type, len, c) ==
  /\ born[t] # 0
  /\ Post([from |-> t, born |-> born[t], type |-> type, len |-> len, data |-> c])

Uart(c) == Post([from |-> TID_UART_IRQ, born |-> 0, type |-> KEY_IN,
                 len |-> HDR + 1, data |-> c])

-----------------------------------------------------------------------------
\* k_recv_msg copies the message's own bytes and no others: the type and the
\* character of a shorter message are those of the one before.
Received(m) == [type |-> IF m.len >= HDR THEN m.type ELSE recv_buf.type,
                data |-> IF m.len > HDR THEN m.data ELSE recv_buf.data]

\* A message too long for the buffer is discarded.
Discard == /\ inbox # <<>>
           /\ Head(inbox).len > HDR + 1
           /\ inbox' = Tail(inbox)
           /\ UNCHANGED <<tasks, recv_buf, table, entry, out>>

\* recv_msg, with what the loop does next depending on what it finds.
Receives == /\ inbox # <<>>
            /\ Head(inbox).len <= HDR + 1
            /\ inbox' = Tail(inbox)
            /\ recv_buf' = Received(Head(inbox))
            /\ UNCHANGED tasks

Register ==
  /\ Receives
  /\ recv_buf'.type = KCD_REG
  /\ LET s == Slot(recv_buf'.data)
     IN IF recv_buf'.data \in Ids
        THEN /\ cmd_reg_map' = [cmd_reg_map EXCEPT ![s] = Head(inbox).from]
             /\ cmd_reg_bitmap' = cmd_reg_bitmap \cup {s}
             /\ registered' = [registered EXCEPT ![s] = Head(inbox).born]
        ELSE UNCHANGED table
  /\ UNCHANGED <<entry, out>>

Ignore ==
  /\ Receives
  /\ recv_buf'.type # KCD_REG
  /\ recv_buf'.type = KEY_IN => Head(inbox).from # TID_UART_IRQ
  /\ UNCHANGED <<table, entry, out>>

ReceivesKey == /\ Receives
               /\ recv_buf'.type = KEY_IN /\ Head(inbox).from = TID_UART_IRQ

\* Fault: the limit not tested.
KeyUnbounded ==
  /\ ReceivesKey
  /\ recv_buf'.data \notin Enters
  /\ cmd_str' = [cmd_str EXCEPT ![cmd_str_idx] = recv_buf'.data]
  /\ cmd_str_idx' = cmd_str_idx + 1
  /\ UNCHANGED <<cmd_too_long_err_flag, table, out>>

Key ==
  /\ ReceivesKey
  /\ recv_buf'.data \notin Enters
  /\ IF cmd_str_idx = MAX_CMD_LEN
     THEN cmd_too_long_err_flag' = TRUE /\ UNCHANGED <<cmd_str, cmd_str_idx>>
     ELSE /\ cmd_str' = [cmd_str EXCEPT ![cmd_str_idx] = recv_buf'.data]
          /\ cmd_str_idx' = cmd_str_idx + 1
          /\ UNCHANGED cmd_too_long_err_flag
  /\ UNCHANGED <<table, out>>

EndsLine == /\ ReceivesKey
            /\ recv_buf'.data \in Enters
            /\ cmd_str_idx' = 0
            /\ UNCHANGED <<cmd_str, table>>

IsCommand == /\ ~cmd_too_long_err_flag
             /\ cmd_str[0] = PERCENT
             /\ cmd_str_idx >= 2

Invalid == /\ EndsLine
           /\ ~IsCommand
           /\ cmd_too_long_err_flag' = FALSE
           /\ out' = [result |-> "INVALID"]

\* receiver_tid and whether err_flag stays 0.  After a command that begins with
\* neither a digit nor a letter receiver_tid is uninitialized.
Receiver(t) == LET id == cmd_str[1]
               IN id \in Ids => /\ Slot(id) \in cmd_reg_bitmap
                                /\ t = cmd_reg_map[Slot(id)]
                                /\ born[t] # 0

\* The outcome of a command that task t got.
SentTo(t) == [result |-> "SENT", to |-> t, body |-> Tail(Line)]

\* send_msg delivers the command to a live task if its mailbox takes it.
Dispatch ==
  /\ EndsLine
  /\ IsCommand
  /\ \E t \in Tids : /\ Receiver(t) /\ born[t] # 0
                     /\ out' = SentTo(t)
  /\ UNCHANGED cmd_too_long_err_flag

\* The command is not registered, its task is gone, or send_msg refuses it: the
\* receiver may always lack a mailbox, or room in it.
CannotProcess ==
  /\ EndsLine
  /\ IsCommand
  /\ out' = [result |-> "UNPROCESSED"]
  /\ UNCHANGED cmd_too_long_err_flag

Next ==
  \/ \E t \in Tids : Create(t) \/ Exit(t)
  \/ \E t \in Tids, type \in {KCD_REG, KEY_IN, DEFAULT}, len \in MsgLens, c \in Chars :
       Send(t, type, len, c)
  \/ \E c \in Chars : Uart(c)
  \/ Discard
  \/ Register
  \/ Ignore
  \/ Key
  \/ Invalid
  \/ Dispatch
  \/ CannotProcess

Spec == Init /\ [][Next]_vars

-----------------------------------------------------------------------------
TypeOK ==
  /\ born \in [Tids -> 0..BIRTHS] /\ births \in 0..BIRTHS
  /\ Len(inbox) <= INBOX
  /\ recv_buf \in [type : {KCD_REG, KEY_IN, DEFAULT}, data : Chars \cup {0}]
  /\ cmd_reg_map \in [Slots -> Tids \cup {None}] /\ cmd_reg_bitmap \subseteq Slots
  /\ registered \in [Slots -> 0..BIRTHS]
  /\ cmd_str \in [0..(MAX_CMD_LEN - 1) -> Chars \cup {0}]
  /\ cmd_str_idx \in 0..MAX_CMD_LEN
  /\ cmd_too_long_err_flag \in BOOLEAN

\* The console this buffer, its index, its flag and the table stand for.
C == INSTANCE Console WITH
       line <- Line, tooLong <- cmd_too_long_err_flag,
       registrant <- [c \in Ids |-> IF Slot(c) \in cmd_reg_bitmap
                                    THEN cmd_reg_map[Slot(c)] ELSE None]

\* The task implements the console: what is sent is the line typed since the
\* last enter and nothing of an older or an overlong one, to the last task that
\* registered its identifier, and a registration touches no other identifier.
ImplementsConsole == C!Spec

\* A step that sends a command, other than the last one.
Sends == out' # out /\ out'.result = "SENT"

\* "command id not registered or task is dormant (task no longer exists)": a
\* command for a task that no longer exists is an error (kcd_task.c:80-82), so
\* what is sent reaches the task that registered it and no later one.
ReachesRegistrant ==
  [][Sends /\ cmd_str[1] \in Ids => born[out'.to] = registered[Slot(cmd_str[1])]]_vars
=============================================================================
