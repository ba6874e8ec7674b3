------------------------------ MODULE MCKernel ------------------------------
(***************************************************************************)
(* Small instances of Kernel for TLC: the boot tables of app/ae.c, with    *)
(* their hundreds of priorities reduced to a few.                          *)
(***************************************************************************)
EXTENDS KernelLiveness

Entry(prio_, priv_, kcd_) == [prio |-> prio_, priv |-> priv_, kcd |-> kcd_]

\* TEST 2 of app/ae.c: user tasks around an urgent KCD task.
KcdTable == <<Entry(2, FALSE, FALSE), Entry(1, FALSE, TRUE)>>

\* TEST 0: privileged and user tasks, no KCD entry.
PrivTable == <<Entry(1, TRUE, FALSE), Entry(1, FALSE, FALSE)>>

\* Two equal user tasks and an urgent KCD task.
EqualTable == <<Entry(2, FALSE, FALSE), Entry(2, FALSE, FALSE), Entry(1, FALSE, TRUE)>>
=============================================================================
