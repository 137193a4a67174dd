------------------------------- MODULE MCFuncs -------------------------------
(* An instance of Funcs for TLC: functions that are set again.                *)
EXTENDS Funcs

CONSTANTS g1, o1, k1

Types == [f \in Fn |-> "int_"]
=============================================================================
