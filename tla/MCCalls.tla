------------------------------ MODULE MCCalls ------------------------------
(* Instances of Calls for TLC.                                             *)
EXTENDS Calls

CONSTANTS connA1, connB1, connB2, connA2

Names == [p \in Client |-> IF p = "A" THEN "a" ELSE "b"]

\* Each client may connect twice.
Owners == [c \in Conn |-> IF c \in {connA1, connA2} THEN "A" ELSE "B"]

\* A calls once, and B only answers.
OneCall == [p \in Client |-> IF p = "A" THEN 1 ELSE 0]

\* Bound: of the two connections of a client, which are alike, the one is the first.
InTurn == (member_id[connA2] # 0 => member_id[connA1] # 0) /\ (member_id[connB2] # 0 => member_id[connB1] # 0)

\* Bound: what follows the loss of the last connection of the caller is left out.
CallerStays == (\A c \in Conn : owner[c] = "A" => member_id[c] # 0) => conn_of["A"] \in clients
============================================================================
