------------------------------- MODULE MCValues -------------------------------
(* Instances of Values for TLC: a value and the name of its second element, and texts *)
(* of several types, some of them equal to another by conversion only.                *)
EXTENDS Values

Nums == {1, 2}
InA == [f \in Item |-> "a"]
Second == [f \in Item |-> 1]
TextVals == {TextOf("abc"), TextOf("1"), Number("bool_", 10), Number("double_", 15)}
TextNumbers == [s \in {"", "abc", "1"} |-> IF s = "1" THEN 10 ELSE 0]
===============================================================================
