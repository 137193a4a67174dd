----------------------------- MODULE MCMembers -----------------------------
(* Instances of Members for TLC.                                           *)
EXTENDS Members, TLC

CONSTANTS c1, c2, c3

Names == [p \in Client |-> IF p = "A" THEN "a" ELSE "b"]

\* A connects once, and the other client twice.
Owners == [c \in Conn |-> IF c = c1 THEN "A" ELSE "B"]

\* Bound: of the two connections of B, which are alike, c2 is the first.  Instead of
\* a symmetry set, which TLC must not use with liveness.
FirstC2 == member_id[c3] # 0 => member_id[c2] # 0
============================================================================
