------------------------------ MODULE MCSched -------------------------------
(* Model-checking instances of Sched.                                       *)
EXTENDS Sched

\* Pids from 2: the priorities 10, 1, 10, ...
Pids == [p \in Proc |-> p + 2]
=============================================================================
