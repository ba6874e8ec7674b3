----------------------------- MODULE AutoTests -----------------------------
(***************************************************************************)
(* The boot tables and the automated tests of app/ae.c, ae_priv_tasks.c    *)
(* and ae_usr_tasks.c as programs that run on Kernel: TEST chooses a table *)
(* and the programs of its tasks.  An action is one kernel call, or one    *)
(* reading of a variable that tasks share, with the task's own computation *)
(* around it.  `pc' says what each task does next, `v' holds the variables *)
(* of the programs under their names in the source.                        *)
(*                                                                         *)
(* Kernel knows the lengths of messages only; `content' has what is in     *)
(* them, next to `mail'.  A line the operator types (%cGTA and the enter   *)
(* key) is one character, its command identifier, so that the KCD task is  *)
(* only its table here; KCD.tla has the rest of it.                        *)
(***************************************************************************)
EXTENDS Integers, Sequences, FiniteSets

CONSTANTS
  Tests,        \* the values of TEST
  RxMax,        \* characters the UART's receive FIFO holds
  MemMayFail    \* TRUE if a mailbox or a buffer may find no memory

\* Sizes the tests do not depend on: 210 tasks and id 159 in INC/common.h.
MAX_TASKS == 5
TID_KCD == 4

HIGH == 100
LOW == 102
LOWEST == 103
PRIO_NULL == 255
KCD_MBX_SIZE == 512
DEFAULT == 0
KCD_REG == 1
KCD_CMD == 2
KEY_IN == 4
HDR == 8            \* sizeof(RTX_MSG_HDR)
Words(bytes) == (bytes + 3) \div 4

c == 99
d == 100
message1 == c       \* cGTA
message2 == d       \* dGTA
Commands == {c, d}

\* What the operator types: a command each time one is awaited.
Script == <<c, c, c, d, c, d>>

Task(prio_, priv_, kcd_) == [prio |-> prio_, priv |-> priv_, kcd |-> kcd_]

\* ae_set_task_info.
tasks(t) ==
  CASE t = 0 -> <<Task(100, TRUE, FALSE), Task(100, TRUE, FALSE), Task(100, FALSE, FALSE)>>
    [] t = 1 -> <<Task(HIGH, FALSE, FALSE)>>
    [] t = 2 -> <<Task(150, FALSE, FALSE), Task(175, FALSE, FALSE),
                  Task(100, FALSE, TRUE), Task(200, FALSE, FALSE)>>
    [] t = 3 -> <<Task(150, FALSE, FALSE), Task(175, FALSE, FALSE)>>

\* Where each of these tasks begins.
ptask(t) ==
  CASE t = 0 -> <<"yield", "create", "yield">>
    [] t = 1 -> <<"info">>
    [] t = 2 -> <<"u1 mailbox", "u2 wait", "kcd mailbox", "yield">>
    [] t = 3 -> <<"u1 mailbox", "u2 find">>

VARIABLES boot, is_kcd_init, gp_current_task, state, prio, priv, capacity, mail,
          receiving, queue, U_TID_Q, U_TID_head, U_TID_tail, g_num_active_tasks,
          irq, rx,
          test,      \* the value of TEST
          pc,        \* of each TCB
          v,         \* the variables of the programs
          content    \* of each TCB: what is in the messages of its mailbox

K(t) == INSTANCE Kernel WITH
          BootTasks <- tasks(t), KCD_MBX_SIZE <- Words(KCD_MBX_SIZE),
          Prios <- {LOW}, NewPrios <- {LOWEST, 150, 200}, MbxSizes <- {9, 128},
          MsgLens <- {3}, RxInIrq <- TRUE, MemMayFail <- FALSE, CheckedTids <- FALSE

kernel == <<boot, is_kcd_init, gp_current_task, state, prio, priv, capacity, mail,
            receiving, queue, U_TID_Q, U_TID_head, U_TID_tail, g_num_active_tasks,
            irq, rx>>
vars == <<kernel, test, pc, v, content>>

Unprinted == -1

Init ==
  /\ test \in Tests
  /\ \E t \in Tests : t = test /\ K(t)!Init
  /\ pc = [p \in 0..MAX_TASKS |-> IF p = 0 THEN "yield" ELSE "none"]
  /\ v = [utid1 |-> 0, utid2 |-> 0, tid |-> 0, turn |-> 1, eflag |-> 0, sflag |-> 0,
          i1 |-> 0, j1 |-> 0, i2 |-> 0, j2 |-> 0,
          what_to_expect |-> 0, what_to_send |-> 0, tsk1_mbx_cap |-> 0,
          length |-> 0, cmd_reg_map |-> [x \in Commands |-> 0], line |-> c,
          prompts |-> 0, typed |-> 0, noMem |-> FALSE, verdict |-> Unprinted]
  /\ content = [p \in 0..MAX_TASKS |-> <<>>]

-----------------------------------------------------------------------------
At(l) == pc[gp_current_task] = l
Go(l) == pc' = [pc EXCEPT ![gp_current_task] = l]

\* A step that is no kernel call, or a call that changes nothing.
NoCall(t) == K(t)!Running /\ UNCHANGED <<kernel, content>>

\* The content follows the mailboxes: m is what a step adds to one.
Carried(m) ==
  content' = [p \in 0..MAX_TASKS |->
                IF mail'[p] = <<>> THEN <<>>
                ELSE IF Len(mail'[p]) < Len(mail[p]) THEN Tail(content[p])
                ELSE IF Len(mail'[p]) > Len(mail[p]) THEN Append(content[p], m)
                ELSE content[p]]

Message(type_, length_, data_) == [type |-> type_, length |-> length_, data |-> data_]
Nothing == Message(DEFAULT, 0, 0)

Accepted(t, to, m) == K(t)!Accepts(K(t)!GetTcb(to), Words(m.length))
send_msg(t, to, m) == IF Accepted(t, to, m)
                      THEN K(t)!Send(to, Words(m.length)) /\ Carried(m)
                      ELSE NoCall(t)

Live(t, id) == state[K(t)!GetTcb(id)] # "DORMANT"
tsk_set_prio(t, id, p) == IF Live(t, id)
                          THEN K(t)!SetPrio(id, p) /\ UNCHANGED content
                          ELSE NoCall(t)

mbx_create(t, bytes, ok) == IF ok THEN K(t)!MbxCreate(Words(bytes)) /\ UNCHANGED content
                            ELSE NoCall(t)
MemResults == IF MemMayFail THEN BOOLEAN ELSE {TRUE}

\* recv_msg, when it returns: the message and its sender.
recv_msg(t) == (K(t)!Recv \/ K(t)!RecvResumes) /\ Carried(Nothing)
Received == Head(content[gp_current_task])
Sender == Head(mail[gp_current_task]).from
InBuffer(bytes) == Received.length <= bytes

-----------------------------------------------------------------------------
\* ktask1, utask2 and utask3 of TEST 0 and 2, and task_null.
YieldForEver(t) == /\ At("yield")
                   /\ K(t)!Yield
                   /\ UNCHANGED <<pc, v, content>>

\* ktask2 before its loop.
Ktask2Creates(t) ==
  /\ At("create")
  /\ K(t)!Create(LOW)
  /\ pc' = [pc EXCEPT ![gp_current_task] = "lower", ![U_TID_Q[U_TID_head]] = "utask1"]
  /\ v' = [v EXCEPT !.tid = U_TID_Q[U_TID_head]]
  /\ UNCHANGED content
Ktask2Lowers(t) == /\ At("lower")
                   /\ tsk_set_prio(t, v.tid, LOWEST)
                   /\ Go("yield")
                   /\ UNCHANGED v

\* TEST 1: k_tsk_get_info fails for a dormant task.
LooksForKcd(t) == /\ At("info")
                  /\ NoCall(t)
                  /\ v' = [v EXCEPT !.verdict = IF Live(t, TID_KCD) THEN 0 ELSE 1]
                  /\ Go("exit")

Exits(t) == /\ At("exit")
            /\ K(t)!Exit
            /\ Carried(Nothing)
            /\ UNCHANGED <<pc, v>>

\* Any program, in a recv_msg that finds nothing.
Receives == {"u1 command", "u1 result", "u2 command", "kcd recv", "u1 dequeue"}
Blocks(t) == /\ pc[gp_current_task] \in Receives
             /\ K(t)!RecvBlocks
             /\ UNCHANGED <<pc, v, content>>

-----------------------------------------------------------------------------
\* TEST 2, utask1.
U1Mailbox2(t) ==
  /\ t = 2 /\ At("u1 mailbox")
  /\ \E ok \in MemResults :
       /\ mbx_create(t, 2 * (HDR + 4 + 5), ok)
       /\ v' = [v EXCEPT !.utid1 = gp_current_task, !.noMem = ~ok,
                         !.eflag = IF ok THEN 0 ELSE 11]
       /\ Go(IF ok THEN "u1 buffer" ELSE "u1 print")

U1Buffer2(t) ==
  /\ t = 2 /\ At("u1 buffer")
  /\ NoCall(t)
  /\ \E ok \in MemResults :
       /\ v' = [v EXCEPT !.noMem = ~ok, !.eflag = IF ok THEN 0 ELSE 11]
       /\ Go(IF ok THEN "u1 register" ELSE "u1 print")

\* Once it has registered it calls recv_msg, and so does the operator type; if
\* it could not, utask2's turn comes at once.
U1Registers(t) ==
  LET m == Message(KCD_REG, HDR + 1, c)
  IN /\ At("u1 register")
     /\ send_msg(t, TID_KCD, m)
     /\ IF Accepted(t, TID_KCD, m)
        THEN Go("u1 command") /\ v' = [v EXCEPT !.prompts = @ + 1]
        ELSE Go("u1 result") /\ v' = [v EXCEPT !.eflag = 3, !.turn = 2]

\* The sender and the message that a task awaits.
RightCommand(cmd) == /\ InBuffer(HDR + 4)
                     /\ Sender = TID_KCD
                     /\ Received.length = HDR + 4
                     /\ Received.data = cmd

U1Command(t) ==
  /\ At("u1 command")
  /\ recv_msg(t)
  /\ LET wrong == IF RightCommand(c) THEN 0 ELSE 1
     IN IF v.i1 < 1
        THEN /\ v' = [v EXCEPT !.eflag = @ + wrong, !.i1 = @ + 1, !.prompts = @ + 1]
             /\ UNCHANGED pc
        ELSE /\ v' = [v EXCEPT !.eflag = @ + wrong, !.turn = 2]
             /\ Go("u1 result")

U1Result(t) ==
  /\ At("u1 result")
  /\ recv_msg(t)
  /\ v' = [v EXCEPT !.eflag =
             @ + IF ~InBuffer(HDR + 4) \/ Sender # v.utid2 THEN 8
                 ELSE IF Received.data < 10 THEN 7 - Received.data ELSE 7]
  /\ Go("u1 print")

Prints(t) ==
  /\ At("u1 print")
  /\ NoCall(t)
  /\ v' = [v EXCEPT !.verdict = IF t = 2 THEN 11 - v.eflag ELSE v.sflag]
  /\ Go("exit")

-----------------------------------------------------------------------------
\* TEST 2, utask2: it spins until utask1 gives it its turn.
U2Waits(t) ==
  /\ At("u2 wait")
  /\ NoCall(t)
  /\ v' = [v EXCEPT !.utid2 = gp_current_task]
  /\ Go(IF v.turn = 1 THEN "u2 wait" ELSE "u2 mailbox")

U2Mailbox(t) ==
  /\ At("u2 mailbox")
  /\ \E ok \in MemResults :
       /\ mbx_create(t, 2 * (HDR + 4 + 5), ok)
       /\ v' = [v EXCEPT !.noMem = ~ok]
       /\ Go(IF ok THEN "u2 buffer" ELSE "exit")

U2Buffer(t) ==
  /\ At("u2 buffer")
  /\ NoCall(t)
  /\ \E ok \in MemResults :
       /\ v' = [v EXCEPT !.noMem = ~ok, !.length = HDR + 1]
       /\ Go(IF ~ok THEN "exit" ELSE IF t = 2 THEN "u2 register" ELSE "u2 fill")

\* c, then d.
U2Registers(t) ==
  LET m == Message(KCD_REG, v.length, IF v.i2 = 0 THEN c ELSE d)
  IN /\ At("u2 register")
     /\ send_msg(t, TID_KCD, m)
     /\ IF ~Accepted(t, TID_KCD, m)
        THEN Go("u2 lower") /\ UNCHANGED v
        ELSE IF v.i2 = 0
        THEN UNCHANGED pc /\ v' = [v EXCEPT !.sflag = @ + 1, !.i2 = 1]
        ELSE /\ Go("u2 command")
             /\ v' = [v EXCEPT !.sflag = @ + 1, !.i2 = 0, !.prompts = @ + 1]

U2Command(t) ==
  /\ At("u2 command")
  /\ recv_msg(t)
  /\ LET message == IF v.i2 % 2 = 0 THEN message1 ELSE message2
         last == v.i2 = 3
     IN /\ v' = [v EXCEPT !.sflag = @ + IF RightCommand(message) THEN 1 ELSE 0,
                          !.length = IF InBuffer(HDR + 4) THEN Received.length ELSE @,
                          !.i2 = @ + 1,
                          !.prompts = IF last THEN @ ELSE @ + 1]
        /\ Go(IF last THEN "u2 lower" ELSE "u2 command")

U2Lowers(t) ==
  /\ At("u2 lower")
  /\ IF v.utid1 # 0 THEN tsk_set_prio(t, v.utid1, 200) ELSE NoCall(t)
  /\ IF v.utid1 # 0 /\ Live(t, v.utid1)
     THEN Go("u2 report") /\ v' = [v EXCEPT !.sflag = @ + 1]
     ELSE Go("exit") /\ UNCHANGED v

\* The length is still that of the last message received.
U2Reports(t) ==
  /\ At("u2 report")
  /\ send_msg(t, v.utid1, Message(DEFAULT, v.length, v.sflag))
  /\ Go("exit")
  /\ UNCHANGED v

-----------------------------------------------------------------------------
\* TEST 2, kcd_task, its lines read.
KcdMailbox(t) == /\ At("kcd mailbox")
                 /\ mbx_create(t, KCD_MBX_SIZE, TRUE)
                 /\ Go("kcd recv")
                 /\ UNCHANGED v

KcdReceives(t) ==
  /\ At("kcd recv")
  /\ recv_msg(t)
  /\ IF ~InBuffer(HDR + 1) THEN UNCHANGED <<pc, v>>
     ELSE IF Received.type = KCD_REG
     THEN UNCHANGED pc /\ v' = [v EXCEPT !.cmd_reg_map[Received.data] = Sender]
     ELSE IF Received.type = KEY_IN /\ Sender = K(t)!TID_UART_IRQ
     THEN Go("kcd send") /\ v' = [v EXCEPT !.line = Received.data]
     ELSE UNCHANGED <<pc, v>>

KcdSends(t) ==
  /\ At("kcd send")
  /\ LET receiver_tid == v.cmd_reg_map[v.line]
     IN IF receiver_tid # 0 /\ state[receiver_tid] # "DORMANT"
        THEN send_msg(t, receiver_tid, Message(KCD_CMD, HDR + 4, v.line))
        ELSE NoCall(t)
  /\ Go("kcd recv")
  /\ UNCHANGED v

-----------------------------------------------------------------------------
\* TEST 3.
num_iterations == 8
num_dequeues == 8

U1Mailbox3(t) ==
  /\ t = 3 /\ At("u1 mailbox")
  /\ \E ok \in MemResults :
       /\ mbx_create(t, 511, ok)
       /\ v' = [v EXCEPT !.utid1 = gp_current_task, !.noMem = ~ok]
       /\ Go(IF ok THEN "u1 buffer" ELSE "u1 print")

U1Buffer3(t) ==
  /\ t = 3 /\ At("u1 buffer")
  /\ NoCall(t)
  /\ \E ok \in MemResults :
       /\ v' = [v EXCEPT !.noMem = ~ok]
       /\ Go(IF ok THEN "u1 dequeue" ELSE "u1 print")

\* In the even rounds the buffer is too small: the message is discarded, which
\* counts as received.
U1Dequeues(t) ==
  LET even == v.i1 % 2 = 0
      is_sequential == IF InBuffer(HDR + IF even THEN 1 ELSE 4)
                       THEN Received.data = v.what_to_expect ELSE even
      last == v.j1 = num_dequeues - 1
  IN /\ At("u1 dequeue")
     /\ recv_msg(t)
     /\ IF ~is_sequential THEN Go("u1 print") /\ UNCHANGED v
        ELSE /\ v' = [v EXCEPT !.what_to_expect = @ + 1,
                               !.j1 = IF last THEN 0 ELSE @ + 1,
                               !.sflag = IF last THEN @ + 1 ELSE @]
             /\ Go(IF last THEN "u1 lower" ELSE "u1 dequeue")

U1Lowers(t) ==
  /\ At("u1 lower")
  /\ tsk_set_prio(t, v.utid1, 200)
  /\ v' = [v EXCEPT !.i1 = @ + 1]
  /\ Go(IF Live(t, v.utid1) /\ v.i1 + 1 < num_iterations THEN "u1 dequeue" ELSE "u1 print")

U2Finds(t) ==
  /\ At("u2 find")
  /\ IF v.utid1 # 0 THEN tsk_set_prio(t, v.utid1, 200) ELSE NoCall(t)
  /\ Go(IF v.utid1 # 0 /\ Live(t, v.utid1) THEN "u2 buffer" ELSE "exit")
  /\ UNCHANGED v

Numbered == Message(DEFAULT, HDR + 4, v.what_to_send)

U2Fills(t) ==
  /\ At("u2 fill")
  /\ send_msg(t, v.utid1, Numbered)
  /\ IF Accepted(t, v.utid1, Numbered)
     THEN UNCHANGED pc /\ v' = [v EXCEPT !.tsk1_mbx_cap = @ + 1, !.what_to_send = @ + 1]
     ELSE IF v.tsk1_mbx_cap > num_dequeues
     THEN Go("u2 raise") /\ v' = [v EXCEPT !.sflag = @ + 1]
     ELSE Go("exit") /\ UNCHANGED v

U2Raises(t) ==
  /\ At("u2 raise")
  /\ tsk_set_prio(t, v.utid1, 150)
  /\ Go(IF Live(t, v.utid1) THEN "u2 refill" ELSE "exit")
  /\ v' = [v EXCEPT !.j2 = 0]

U2Refills(t) ==
  LET taken == Accepted(t, v.utid1, Numbered)
  IN /\ At("u2 refill")
     /\ send_msg(t, v.utid1, Numbered)
     /\ v' = IF taken THEN [v EXCEPT !.what_to_send = @ + 1, !.j2 = @ + 1] ELSE v
     /\ Go(IF ~taken THEN "exit"
           ELSE IF v.j2 + 1 < num_dequeues THEN "u2 refill" ELSE "u2 refilled")

U2Refilled(t) ==
  /\ At("u2 refilled")
  /\ NoCall(t)
  /\ v' = [v EXCEPT !.sflag = @ + 1, !.i2 = @ + 1]
  /\ Go(IF v.i2 + 1 < num_iterations THEN "u2 raise" ELSE "exit")

-----------------------------------------------------------------------------
\* The operator: in TEST 2 a command of the script once a task has asked for
\* it, elsewhere anything at any time.  TEST 0 has privileged tasks, whose calls
\* an interrupt may cut in two; Interrupts.tla has those.
Types(t) ==
  /\ t # 0
  /\ t = 2 => v.typed < v.prompts
  /\ K(t)!UartRx
  /\ v' = IF t = 2 THEN [v EXCEPT !.typed = @ + 1] ELSE v
  /\ UNCHANGED <<pc, content>>

Typed(t) == IF t = 2 THEN Script[v.typed - rx + 1] ELSE c

IrqEnters(t) == K(t)!IrqEnter /\ UNCHANGED <<pc, v, content>>
IrqReads(t) == /\ K(t)!IrqChar
               /\ Carried(Message(KEY_IN, HDR + 1, Typed(t)))
               /\ UNCHANGED <<pc, v>>
IrqReturns(t) == K(t)!IrqExit /\ UNCHANGED <<pc, v, content>>

Boots(t) ==
  \/ /\ K(t)!BootTask
     /\ pc' = [pc EXCEPT ![K(t)!BootTcb(boot)] = ptask(t)[boot]]
     /\ UNCHANGED <<v, content>>
  \/ K(t)!Start /\ UNCHANGED <<pc, v, content>>

TaskStep(t) ==
  \/ YieldForEver(t) \/ Ktask2Creates(t) \/ Ktask2Lowers(t) \/ LooksForKcd(t)
  \/ Exits(t) \/ Blocks(t) \/ Prints(t)
  \/ U1Mailbox2(t) \/ U1Buffer2(t) \/ U1Registers(t) \/ U1Command(t) \/ U1Result(t)
  \/ U2Waits(t) \/ U2Mailbox(t) \/ U2Buffer(t) \/ U2Registers(t) \/ U2Command(t)
  \/ U2Lowers(t) \/ U2Reports(t)
  \/ KcdMailbox(t) \/ KcdReceives(t) \/ KcdSends(t)
  \/ U1Mailbox3(t) \/ U1Buffer3(t) \/ U1Dequeues(t) \/ U1Lowers(t)
  \/ U2Finds(t) \/ U2Fills(t) \/ U2Raises(t) \/ U2Refills(t) \/ U2Refilled(t)

OfTest(A(_)) == \E t \in Tests : t = test /\ A(t) /\ UNCHANGED test

Next == \/ OfTest(Boots) \/ OfTest(TaskStep) \/ OfTest(Types)
        \/ OfTest(IrqEnters) \/ OfTest(IrqReads) \/ OfTest(IrqReturns)

Spec == Init /\ [][Next]_vars

\* The processor executes the kernel and the programs (strong for those, since
\* interrupts come between), takes interrupts and returns from them, as in
\* KernelLiveness, and the operator types what the test asks for.
FairSpec == /\ Spec
            /\ WF_vars(OfTest(Boots)) /\ SF_vars(OfTest(TaskStep))
            /\ SF_vars(OfTest(IrqEnters)) /\ WF_vars(OfTest(IrqReads))
            /\ SF_vars(OfTest(IrqReturns))
            /\ WF_vars(test = 2 /\ OfTest(Types))

-----------------------------------------------------------------------------
\* "[T_02] %d out of 11 tests passed!", "[T_03] %d out of 17": when a test
\* prints its verdict it is full, whatever is typed and whenever, except when
\* memory has run out, and then it is not full.
Full(t) == CASE t = 1 -> 1 [] t = 2 -> 11 [] t = 3 -> 17 [] OTHER -> 0
VerdictRight ==
  v.verdict # Unprinted => (v.verdict = Full(test) <=> ~v.noMem)

\* "KCD task should be created only if it is passed to tsk_init!"
\* (ae_usr_tasks.c:101): TEST 1 passes.
T01Passes == test = 1 /\ v.verdict # Unprinted => v.verdict = Full(1)

\* TEST 2 and TEST 3 come to their verdict: no one waits for a message or a
\* turn that never comes, unless memory has run out.
TestEnds == <>(test \in {2, 3} => v.noMem \/ v.verdict # Unprinted)

\* TEST 0: ktask1, ktask2 and utask2 take turns for ever, each yield giving the
\* processor to the next; utask1, which ktask2 creates less urgent, never runs.
Turn == [p \in {0, 1, 2, 4} |-> CASE p = 0 -> 1 [] p = 1 -> 2 [] p = 2 -> 4 [] p = 4 -> 1]
TakeTurns ==
  [][test = 0 /\ queue' # queue /\ OfTest(YieldForEver) =>
       gp_current_task' = Turn[gp_current_task]]_vars
=============================================================================
