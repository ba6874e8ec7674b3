------------------------------ MODULE Console -------------------------------
(***************************************************************************)
(* What the keyboard command decoder promises: it collects the characters  *)
(* of a line, and at its end sends the line, without its %, to the task    *)
(* that last registered the identifier it begins with.  KCD.tla implements *)
(* this.  Characters are ASCII codes.                                      *)
(***************************************************************************)
EXTENDS Integers, Sequences

CONSTANTS Chars, Tids, MAX_CMD_LEN, None

VARIABLES line,        \* what was typed since the last enter
          tooLong,     \* and whether there was more
          registrant,  \* of each command identifier, or None
          out          \* what became of the last line

vars == <<line, tooLong, registrant, out>>

INVALID == [result |-> "INVALID"]
UNPROCESSED == [result |-> "UNPROCESSED"]
Command(t) == [result |-> "SENT", to |-> t, body |-> Tail(line)]
PERCENT == 37
Enters == {10, 13}
Ids == Chars \cap (48..57 \cup 65..90 \cup 97..122)   \* 0-9, A-Z, a-z

Init == line = <<>> /\ tooLong = FALSE /\ registrant = [c \in Ids |-> None] /\ out = None

Register(c, t) == /\ registrant' = [registrant EXCEPT ![c] = t]
                  /\ UNCHANGED <<line, tooLong, out>>

Key(c) == /\ IF Len(line) < MAX_CMD_LEN
             THEN line' = Append(line, c) /\ UNCHANGED tooLong
             ELSE tooLong' = TRUE /\ UNCHANGED line
          /\ UNCHANGED <<registrant, out>>

WellFormed == /\ ~tooLong
              /\ Len(line) >= 2
              /\ line[1] = PERCENT

\* A line that is no command is reported; one for an identifier nobody has
\* registered, or whose task does not take it, cannot be processed.  Nothing is
\* promised of a command that begins with anything else.
Enter ==
  /\ \/ ~WellFormed /\ out' = INVALID
     \/ WellFormed /\ out' = UNPROCESSED
     \/ /\ WellFormed
        /\ \E t \in Tids : /\ line[2] \in Ids => registrant[line[2]] = t
                           /\ out' = Command(t)
  /\ line' = <<>> /\ tooLong' = FALSE
  /\ UNCHANGED registrant

Next == \/ \E c \in Ids, t \in Tids : Register(c, t)
        \/ \E c \in Chars \ Enters : Key(c)
        \/ Enter

Spec == Init /\ [][Next]_vars
=============================================================================
