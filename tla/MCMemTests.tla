----------------------------- MODULE MCMemTests -----------------------------
(***************************************************************************)
(* MemTests for TLC: any calls on nine units; the coalescing test with 16  *)
(* units to spare, with none and with one too few; the leakage test with   *)
(* just enough units and with one too few.                                 *)
(***************************************************************************)
EXTENDS MemTests

MCScenarios == [h \in Heads |-> CASE h = 1792 -> "none"
                                  [] h \in {1740, 1756, 1757} -> "coalescing"
                                  [] h \in {31, 32} -> "leakage"]
=============================================================================
