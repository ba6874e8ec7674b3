----------------------------- MODULE MCMailbox ------------------------------
(***************************************************************************)
(* A small instance of Mailbox for TLC.                                    *)
(***************************************************************************)
EXTENDS Mailbox

CONSTANTS a, b

\* Two messages of one length, to be told apart, one shorter than a word, and
\* one with padding.
FourMsgs == {[id |-> a, len |-> 8], [id |-> b, len |-> 8],
             [id |-> a, len |-> 1], [id |-> a, len |-> 9]}
=============================================================================
