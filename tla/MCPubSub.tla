----------------------------- MODULE MCPubSub ------------------------------
(* Instances of PubSub for TLC.                                            *)
EXTENDS PubSub

CONSTANTS c1, c2, c3, c4

Names == [p \in Client |-> IF p = "A" THEN "a" ELSE "b"]

\* A connects twice; B does if c4 is there.
Owners == [c \in Conn |-> IF c \in {c1, c2} THEN "A" ELSE "B"]

\* A field, one below it, and a hidden one.
x == <<1>>
xy == <<1, 2>>
hidden == <<0, 1>>
Fields == {x, xy, hidden}

\* A has data, and B requests it.
TogetherOfA == [p \in Client |-> IF p = "A" THEN {Field} ELSE {}]
OneOfB == [p \in Client |-> IF p = "B" THEN {<<"a", x>>} ELSE {}]

TwiceA == [p \in Client |-> IF p = "A" THEN 2 ELSE 0]
OnceB == [p \in Client |-> IF p = "B" THEN 1 ELSE 0]

\* Bound: the last connection of each client lasts.
LastConnectionLasts ==
    \A p \in Client : (\A c \in Conn : owner[c] = p => member_id[c] # 0) =>
        conn_of[p] \in clients
Reconnects == Permutations({c1, c2})
============================================================================
