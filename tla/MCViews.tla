------------------------------ MODULE MCViews ------------------------------
(* Instances of Views for TLC.                                             *)
EXTENDS Views

CONSTANTS c1, c2, c3

Names == [p \in Client |-> IF p = "A" THEN "a" ELSE "b"]

\* A connects twice.
Owners == [c \in Conn |-> IF c = c3 THEN "B" ELSE "A"]

\* Components with and without an id: <<"x">> keeps its id wherever it is, the
\* others have the place among their type as their id.
x(text) == [id |-> <<"x">>, type |-> 0, text |-> text]
y == [id |-> NoId, type |-> 0, text |-> "y"]
z == [id |-> NoId, type |-> 1, text |-> "z"]
Draw(components) == [size |-> NoSize, components |-> components]
Draw2D(size, components) == [size |-> size, components |-> components]

\* Drawings that differ by a text, by the order and by the length, and that have
\* another component at an index or under an id.
Drawings == {Draw(<<x("1"), y>>), Draw(<<y, x("2")>>), Draw(<<z>>),
             Draw2D(1, <<x("1"), y>>), Draw2D(2, <<x("1"), z>>)}

\* Bounds: what is drawn is taken before more is drawn; B, which influences nobody
\* by what it receives, receives it before there is more.
OneAtATime == Len(data_send) <= 1 /\ Len(recv_queue["B"]) <= 1

\* Which of its connections A uses first makes no difference.  Bound: B connects
\* when A has, which the server need not have noticed.
AFirst == /\ member_id[c2] # 0 => member_id[c1] # 0
          /\ conn_of["B"] # NoConn => member_id[c1] # 0

\* Bound: the last connection of each client lasts.
LastConnectionLasts ==
    \A p \in Client : (\A c \in Conn : owner[c] = p => member_id[c] # 0) =>
        conn_of[p] \in clients

Kinds == {<<"view", {}>>, <<"canvas3d", {"B"}>>, <<"canvas2d", {"A"}>>}
============================================================================
