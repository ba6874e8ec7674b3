----------------------------- MODULE KCDProofs ------------------------------
(***************************************************************************)
(* The KCD task implements the console, for any characters, any tasks and  *)
(* any length of a command.                                                *)
(***************************************************************************)
EXTENDS KCD, SequenceTheorems, TLAPS

Types == {KCD_REG, KEY_IN, DEFAULT}

\* What the mailbox may hold: of the interrupt, characters only.
Mail == {m \in [from : Tids \cup {TID_UART_IRQ}, born : 0..BIRTHS, type : Types,
                len : Nat, data : Chars] :
           m.from = TID_UART_IRQ => m.type = KEY_IN /\ m.len = HDR + 1}

\* The inductive invariant.
IInv == TypeOK /\ inbox \in Seq(Mail)

\* Command identifiers have slots of the table, and no two share one
\* (kcd_task.c:42-53).
LEMMA SlotsDistinct ==
  /\ \A c \in Ids : Slot(c) \in Slots
  /\ \A c, d \in Ids : Slot(c) = Slot(d) => c = d
BY DEF Ids, Slot, Slots

\* What the task receives is in its buffer's type, and a character when the
\* interrupt has sent it.
LEMMA ReceivedRight ==
  ASSUME IInv, Receives
  PROVE  /\ Head(inbox) \in Mail
         /\ inbox' \in Seq(Mail) /\ Len(inbox') <= INBOX
         /\ recv_buf' \in [type : Types, data : Chars \cup {0}]
         /\ Head(inbox).from = TID_UART_IRQ =>
              recv_buf'.type = KEY_IN /\ recv_buf'.data \in Chars
<1> USE KcdAssumption
<1>1. /\ Head(inbox) \in Mail /\ Tail(inbox) \in Seq(Mail)
      /\ Len(Tail(inbox)) = Len(inbox) - 1 /\ Len(inbox) \in Nat
  BY HeadTailProperties, LenProperties DEF IInv, Receives
<1>2. inbox' \in Seq(Mail) /\ Len(inbox') <= INBOX
  BY <1>1 DEF IInv, TypeOK, Receives
<1>3. recv_buf' = Received(Head(inbox))
  BY DEF Receives
<1>4. recv_buf \in [type : Types, data : Chars \cup {0}]
  BY DEF IInv, TypeOK, Types
<1>5. recv_buf' \in [type : Types, data : Chars \cup {0}]
  BY <1>1, <1>3, <1>4 DEF Received, Mail
<1>6. Head(inbox).from = TID_UART_IRQ =>
        recv_buf'.type = KEY_IN /\ recv_buf'.data \in Chars
  BY <1>1, <1>3 DEF Received, Mail, HDR
<1> QED BY <1>1, <1>2, <1>5, <1>6

\* The initial states satisfy the invariant.
LEMMA InitStep == ASSUME Init PROVE IInv
<1> USE KcdAssumption
<1>1. inbox \in Seq(Mail) /\ Len(inbox) = 0
  BY EmptySeq DEF Init
<1>2. cmd_str_idx \in 0..MAX_CMD_LEN
  BY DEF Init
<1>3. cmd_reg_map \in [Slots -> Tids \cup {None}] /\ cmd_reg_bitmap \subseteq Slots
  BY DEF Init
<1>4. registered \in [Slots -> 0..BIRTHS] /\ born \in [Tids -> 0..BIRTHS] /\ births \in 0..BIRTHS
  BY DEF Init
<1>5. recv_buf \in [type : {KCD_REG, KEY_IN, DEFAULT}, data : Chars \cup {0}]
  BY DEF Init
<1>6. cmd_str \in [0..(MAX_CMD_LEN - 1) -> Chars \cup {0}] /\ cmd_too_long_err_flag \in BOOLEAN
  BY DEF Init
<1>7. Len(inbox) <= INBOX
  BY <1>1
<1> QED BY <1>1, <1>2, <1>3, <1>4, <1>5, <1>6, <1>7 DEF IInv, TypeOK

\* Every step keeps the invariant.
LEMMA NextStep == ASSUME IInv, [Next]_vars PROVE IInv'
<1> USE KcdAssumption DEF IInv
<1>1. CASE \E t \in Tids : Create(t) \/ Exit(t)
  <2>1. PICK t \in Tids : Create(t) \/ Exit(t)
    BY <1>1
  <2>2. UNCHANGED <<inbox, recv_buf, table, entry, out>>
    BY <2>1 DEF Create, Exit
  <2>3. born' \in [Tids -> 0..BIRTHS] /\ births' \in 0..BIRTHS
    BY <2>1 DEF Create, Exit, TypeOK
  <2> QED BY <2>2, <2>3 DEF TypeOK, table, entry
<1>2. CASE \/ \E t \in Tids, type \in {KCD_REG, KEY_IN, DEFAULT}, len \in MsgLens, c \in Chars :
                Send(t, type, len, c)
           \/ \E c \in Chars : Uart(c)
  <2>1. PICK m \in Mail : Post(m)
    <3>1. CASE \E t \in Tids, type \in {KCD_REG, KEY_IN, DEFAULT}, len \in MsgLens, c \in Chars :
                 Send(t, type, len, c)
      <4>1. PICK t \in Tids, type \in Types, len \in MsgLens, c \in Chars :
              Send(t, type, len, c)
        BY <3>1 DEF Types
      <4>2. [from |-> t, born |-> born[t], type |-> type, len |-> len, data |-> c] \in Mail
        <5>1. born[t] \in 0..BIRTHS /\ len \in Nat
          BY DEF TypeOK
        <5>2. t # TID_UART_IRQ
          OBVIOUS
        <5> QED BY <5>1, <5>2 DEF Mail
      <4> QED BY <4>1, <4>2 DEF Send
    <3>2. CASE \E c \in Chars : Uart(c)
      <4>1. PICK c \in Chars : Uart(c)
        BY <3>2
      <4>2. [from |-> TID_UART_IRQ, born |-> 0, type |-> KEY_IN,
             len |-> HDR + 1, data |-> c] \in Mail
        BY DEF Mail, Types, HDR, TypeOK
      <4> QED BY <4>1, <4>2 DEF Uart
    <3> QED BY <1>2, <3>1, <3>2
  <2>2. inbox' \in Seq(Mail) /\ Len(inbox') <= INBOX
    BY <2>1, AppendProperties, LenProperties DEF Post
  <2> QED BY <2>1, <2>2 DEF Post, TypeOK, tasks, table, entry
<1>3. CASE Discard
  <2>1. inbox' \in Seq(Mail) /\ Len(inbox') <= INBOX
    BY <1>3, HeadTailProperties, LenProperties DEF Discard, TypeOK
  <2> QED BY <1>3, <2>1 DEF Discard, TypeOK, tasks, table, entry
<1>4. CASE Register
  <2>1. Receives /\ UNCHANGED <<entry, out, tasks>> /\ recv_buf'.type = KCD_REG
    BY <1>4 DEF Register, Receives
  <2>2. Head(inbox).from \in Tids /\ Head(inbox).born \in 0..BIRTHS
    BY <2>1, ReceivedRight DEF Mail, KCD_REG, KEY_IN
  <2>3. /\ cmd_reg_map' \in [Slots -> Tids \cup {None}] /\ cmd_reg_bitmap' \subseteq Slots
        /\ registered' \in [Slots -> 0..BIRTHS]
    <3> DEFINE s == Slot(recv_buf'.data)
    <3>1. CASE recv_buf'.data \in Ids
      <4>1. /\ cmd_reg_map' = [cmd_reg_map EXCEPT ![s] = Head(inbox).from]
            /\ cmd_reg_bitmap' = cmd_reg_bitmap \cup {s}
            /\ registered' = [registered EXCEPT ![s] = Head(inbox).born]
        BY <1>4, <3>1 DEF Register
      <4>2. s \in Slots
        BY <3>1, SlotsDistinct
      <4> HIDE DEF s
      <4> QED BY <4>1, <4>2, <2>2 DEF TypeOK
    <3>2. CASE recv_buf'.data \notin Ids
      BY <1>4, <3>2 DEF Register, TypeOK, table
    <3> QED BY <3>1, <3>2
  <2> QED BY <2>1, <2>3, ReceivedRight DEF TypeOK, tasks, entry, Types
<1>5. CASE Ignore
  BY <1>5, ReceivedRight DEF Ignore, Receives, TypeOK, tasks, table, entry, Types
<1>6. CASE Key
  <2>1. Receives /\ Head(inbox).from = TID_UART_IRQ /\ UNCHANGED <<tasks, table, out>>
    BY <1>6 DEF Key, ReceivesKey, Receives
  <2>2. /\ cmd_str' \in [0..(MAX_CMD_LEN - 1) -> Chars \cup {0}]
        /\ cmd_str_idx' \in 0..MAX_CMD_LEN
        /\ cmd_too_long_err_flag' \in BOOLEAN
    <3>1. recv_buf'.data \in Chars
      BY <2>1, ReceivedRight
    <3>2. CASE cmd_str_idx = MAX_CMD_LEN
      BY <1>6, <3>2 DEF Key, TypeOK
    <3>3. CASE cmd_str_idx # MAX_CMD_LEN
      BY <1>6, <3>1, <3>3 DEF Key, TypeOK
    <3> QED BY <3>2, <3>3
  <2> QED BY <2>1, <2>2, ReceivedRight DEF TypeOK, tasks, table, Types
<1>7. CASE Invalid \/ Dispatch \/ CannotProcess
  <2>1. Receives /\ UNCHANGED <<tasks, table, cmd_str>> /\ cmd_str_idx' = 0
    BY <1>7 DEF Invalid, Dispatch, CannotProcess, EndsLine, ReceivesKey, Receives
  <2>2. cmd_too_long_err_flag' \in BOOLEAN
    BY <1>7 DEF Invalid, Dispatch, CannotProcess, TypeOK
  <2> QED BY <2>1, <2>2, ReceivedRight DEF TypeOK, tasks, table, Types
<1>8. CASE UNCHANGED vars
  BY <1>8 DEF vars, TypeOK, tasks, table, entry
<1> QED BY <1>1, <1>2, <1>3, <1>4, <1>5, <1>6, <1>7, <1>8 DEF Next

\* Every variable of the KCD task keeps its type; in particular no write leaves
\* the table or the command buffer.
THEOREM TypeCorrect == Spec => []TypeOK
<1>1. IInv /\ [Next]_vars => IInv'
  BY NextStep
<1>2. IInv => TypeOK
  BY DEF IInv
<1> QED BY <1>1, <1>2, InitStep, PTL DEF Spec

-----------------------------------------------------------------------------
\* The first n cells of a buffer, as a sequence.
LEMMA Cells ==
  ASSUME NEW S, NEW s, NEW n \in Nat, \A i \in 1..n : s[i - 1] \in S
  PROVE  LET line == [i \in 1..n |-> s[i - 1]]
         IN  /\ line \in Seq(S) /\ Len(line) = n
             /\ \A i \in 1..n : line[i] = s[i - 1]
<1> DEFINE line == [i \in 1..n |-> s[i - 1]]
<1>1. line \in [1..n -> S]
  OBVIOUS
<1>2. line \in Seq(S)
  BY <1>1, SeqDef
<1> QED BY <1>1, <1>2, LenProperties

\* The line that the buffer and its index stand for.
LEMMA LineIs ==
  ASSUME TypeOK
  PROVE  /\ Line \in Seq(Chars \cup {0})
         /\ Len(Line) = cmd_str_idx
         /\ \A i \in 1..cmd_str_idx : Line[i] = cmd_str[i - 1]
<1>1. cmd_str_idx \in Nat /\ \A i \in 1..cmd_str_idx : cmd_str[i - 1] \in Chars \cup {0}
  BY KcdAssumption DEF TypeOK
<1> QED BY <1>1, Cells DEF Line

\* The registrants that the table stands for.
Registrant == [c \in Ids |-> IF Slot(c) \in cmd_reg_bitmap
                             THEN cmd_reg_map[Slot(c)] ELSE None]

\* The initial states are initial states of the console.
LEMMA InitImplements == ASSUME Init PROVE C!Init
<1>1. TypeOK
  BY InitStep DEF IInv
<1>2. Line = <<>>
  BY <1>1, LineIs, EmptySeq DEF Init
<1>3. [c \in Ids |-> IF Slot(c) \in cmd_reg_bitmap
                     THEN cmd_reg_map[Slot(c)] ELSE None] = [c \in C!Ids |-> None]
  BY DEF Init, Ids, C!Ids
<1> QED BY <1>2, <1>3 DEF Init, C!Init

\* A registration is the console's: no other identifier's task changes.
LEMMA RegisterImplements == ASSUME IInv, Register PROVE [C!Next]_(C!vars)
<1> USE DEF IInv
<1>1. Receives /\ UNCHANGED <<entry, out>> /\ recv_buf'.type = KCD_REG
  BY DEF Register
<1>2. UNCHANGED <<Line, cmd_too_long_err_flag, out>>
  BY <1>1 DEF Line, entry
<1>3. CASE recv_buf'.data \notin Ids
  BY <1>2, <1>3 DEF Register, table, C!vars
<1>4. CASE recv_buf'.data \in Ids
  <2> DEFINE c == recv_buf'.data
             t == Head(inbox).from
  <2>1. t \in Tids
    BY <1>1, ReceivedRight DEF Mail, KCD_REG, KEY_IN
  <2>2. /\ cmd_reg_map' = [cmd_reg_map EXCEPT ![Slot(c)] = t]
        /\ cmd_reg_bitmap' = cmd_reg_bitmap \cup {Slot(c)}
    BY <1>4 DEF Register
  <2> HIDE DEF t
  <2>3. Registrant' = [Registrant EXCEPT ![c] = t]
    <3>1. \A d \in Ids : Slot(d) = Slot(c) <=> d = c
      BY <1>4, SlotsDistinct
    <3>2. \A d \in Ids : Slot(d) \in Slots
      BY SlotsDistinct
    <3> QED BY <1>4, <2>2, <3>1, <3>2 DEF Registrant, TypeOK
  <2>4. C!Register(c, t)
    BY <1>2, <2>3 DEF C!Register, Registrant
  <2>5. c \in C!Ids
    BY <1>4 DEF Ids, C!Ids
  <2> QED BY <2>1, <2>4, <2>5 DEF C!Next
<1> QED BY <1>3, <1>4

\* A character is the console's: it is appended, or the line is too long.
LEMMA KeyImplements == ASSUME IInv, IInv', Key PROVE C!Next
<1> USE DEF IInv
<1> DEFINE c == recv_buf'.data
<1>1. Receives /\ c \in Chars /\ c \notin Enters /\ UNCHANGED <<table, out>>
  BY ReceivedRight DEF Key, ReceivesKey
<1>2. UNCHANGED Registrant
  BY <1>1 DEF Registrant, table
<1>3. CASE cmd_str_idx = MAX_CMD_LEN
  <2>1. UNCHANGED Line /\ cmd_too_long_err_flag' = TRUE /\ ~(Len(Line) < MAX_CMD_LEN)
    BY <1>3, LineIs, KcdAssumption DEF Key, Line
  <2> QED BY <1>1, <1>2, <2>1 DEF C!Next, C!Key, Registrant, Enters, C!Enters
<1>4. CASE cmd_str_idx # MAX_CMD_LEN
  <2>1. /\ cmd_str' = [cmd_str EXCEPT ![cmd_str_idx] = c]
        /\ cmd_str_idx' = cmd_str_idx + 1
        /\ UNCHANGED cmd_too_long_err_flag
    BY <1>4 DEF Key
  <2>2. cmd_str_idx \in Nat /\ cmd_str_idx < MAX_CMD_LEN /\ MAX_CMD_LEN \in Nat
    BY <1>4, KcdAssumption DEF TypeOK
  <2>3. Line' = Append(Line, c)
    <3>1. /\ Line \in Seq(Chars \cup {0}) /\ Len(Line) = cmd_str_idx
          /\ \A i \in 1..cmd_str_idx : Line[i] = cmd_str[i - 1]
      BY LineIs
    <3>2. /\ Line' \in Seq(Chars \cup {0}) /\ Len(Line') = cmd_str_idx + 1
          /\ \A i \in 1..(cmd_str_idx + 1) : Line'[i] = cmd_str'[i - 1]
      <4>1. /\ cmd_str_idx' \in Nat
            /\ \A i \in 1..cmd_str_idx' : cmd_str'[i - 1] \in Chars \cup {0}
        BY KcdAssumption DEF TypeOK
      <4> QED BY <2>1, <4>1, Cells DEF Line
    <3>3. /\ Append(Line, c) \in Seq(Chars \cup {0})
          /\ Len(Append(Line, c)) = cmd_str_idx + 1
          /\ \A i \in 1..cmd_str_idx : Append(Line, c)[i] = Line[i]
          /\ Append(Line, c)[cmd_str_idx + 1] = c
      BY <1>1, <3>1, AppendProperties
    <3>4. \A i \in 1..(cmd_str_idx + 1) : Line'[i] = Append(Line, c)[i]
      <4> TAKE i \in 1..(cmd_str_idx + 1)
      <4>1. cmd_str'[i - 1] = IF i = cmd_str_idx + 1 THEN c ELSE cmd_str[i - 1]
        BY <2>1, <2>2 DEF TypeOK
      <4> QED BY <2>2, <3>1, <3>2, <3>3, <4>1
    <3> QED BY <3>2, <3>3, <3>4, SeqEqual
  <2>4. Len(Line) < MAX_CMD_LEN
    BY <2>2, LineIs
  <2> QED BY <1>1, <1>2, <2>1, <2>3, <2>4 DEF C!Next, C!Key, Registrant, Enters, C!Enters
<1> QED BY <1>3, <1>4

\* The end of a line is the console's: what is sent is the line, to the task
\* that registered it.
LEMMA EnterImplements ==
  ASSUME IInv, IInv', Invalid \/ Dispatch \/ CannotProcess
  PROVE  C!Next
<1> USE DEF IInv
<1>1. cmd_str_idx' = 0 /\ UNCHANGED table
  BY DEF Invalid, Dispatch, CannotProcess, EndsLine
<1>2. UNCHANGED Registrant
  BY <1>1 DEF Registrant, table
<1>3. Line' = <<>>
  BY <1>1 DEF Line
<1>4. /\ Len(Line) = cmd_str_idx /\ cmd_str_idx \in Nat
      /\ cmd_str_idx >= 2 => Line[1] = cmd_str[0] /\ Line[2] = cmd_str[1]
  BY LineIs, KcdAssumption DEF TypeOK
<1>5. IsCommand <=> C!WellFormed
  BY <1>4 DEF IsCommand, C!WellFormed, PERCENT, C!PERCENT
<1>6. cmd_too_long_err_flag' = FALSE
  BY DEF Invalid, Dispatch, CannotProcess, IsCommand, TypeOK
<1>7. \/ ~IsCommand /\ out' = [result |-> "INVALID"]
      \/ IsCommand /\ out' = [result |-> "UNPROCESSED"]
      \/ IsCommand /\ \E t \in Tids : /\ Line[2] \in Ids => Registrant[Line[2]] = t
                                      /\ out' = SentTo(t)
  <2>1. CASE Dispatch
    <3>1. PICK t \in Tids : Receiver(t) /\ out' = SentTo(t)
      BY <2>1 DEF Dispatch
    <3>2. IsCommand /\ Line[2] = cmd_str[1]
      BY <2>1, <1>4 DEF Dispatch, IsCommand
    <3>3. Line[2] \in Ids => Registrant[Line[2]] = t
      BY <3>1, <3>2 DEF Receiver, Registrant
    <3> QED BY <3>1, <3>2, <3>3
  <2> QED BY <2>1 DEF Invalid, CannotProcess
<1>8. C!Enter
  BY <1>2, <1>3, <1>5, <1>6, <1>7
  DEF C!Enter, C!INVALID, C!UNPROCESSED, C!Command, SentTo, Registrant, Ids, C!Ids
<1> QED BY <1>8 DEF C!Next

\* Every step of the KCD task, and of the tasks and the interrupt around it, is
\* a step of the console or leaves it as it is.
LEMMA StepImplements ==
  ASSUME IInv, IInv', [Next]_vars
  PROVE  [C!Next]_(C!vars)
<1>1. CASE UNCHANGED <<table, entry, out>>
  BY <1>1 DEF table, entry, C!vars, Line
<1>2. CASE \/ \E t \in Tids : Create(t) \/ Exit(t)
           \/ \E t \in Tids, type \in {KCD_REG, KEY_IN, DEFAULT}, len \in MsgLens, c \in Chars :
                Send(t, type, len, c)
           \/ \E c \in Chars : Uart(c)
           \/ Discard
           \/ Ignore
           \/ UNCHANGED vars
  <2>1. UNCHANGED <<table, entry, out>>
    BY <1>2 DEF Create, Exit, Send, Uart, Post, Discard, Ignore, vars
  <2> QED BY <1>1, <2>1
<1> QED BY <1>2, RegisterImplements, KeyImplements, EnterImplements DEF Next

\* What the KCD task sends, and to whom, is what the console promises: whole
\* lines and nothing of an older or an overlong one, to the task that registered
\* them last (kcd_task.c:32-118).
THEOREM KcdImplementsConsole == Spec => ImplementsConsole
<1>1. IInv /\ [Next]_vars => IInv'
  BY NextStep
<1>2. IInv /\ IInv' /\ [Next]_vars => [C!Next]_(C!vars)
  BY StepImplements
<1> QED BY <1>1, <1>2, InitStep, InitImplements, PTL DEF Spec, ImplementsConsole, C!Spec
=============================================================================
