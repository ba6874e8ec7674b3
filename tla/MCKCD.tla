------------------------------- MODULE MCKCD --------------------------------
(***************************************************************************)
(* Small instances of KCD for TLC.  The characters are % 9 A and the enter *)
(* key: a digit and a letter, whose slots are neighbours in the table.     *)
(***************************************************************************)
EXTENDS KCD, TLC

CONSTANTS a, b

\* Nothing is said of one task id that is not said of the other.
Symmetric == Permutations({a, b})

\* What later steps can read: not the history variables, nor the last output,
\* nor the buffer beyond its index, whose cells are written before they are
\* read.  BIRTHS is never reached.
Live == <<{t \in Tids : born[t] # 0},
          [i \in 1..Len(inbox) |-> [inbox[i] EXCEPT !.born = 0]],
          recv_buf, cmd_reg_map, cmd_reg_bitmap, cmd_str_idx,
          [i \in DOMAIN cmd_str |-> IF i < cmd_str_idx THEN cmd_str[i] ELSE 0],
          cmd_too_long_err_flag>>
=============================================================================
