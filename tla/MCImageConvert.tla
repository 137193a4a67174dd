--------------------------- MODULE MCImageConvert ---------------------------
(* Instances of ImageConvert for TLC.                                      *)
EXTENDS ImageConvert

CONSTANTS c1, c2, c3

\* An image that can be converted and one that cannot.
Good == [width |-> 4, height |-> 2, known |-> TRUE, empty |-> FALSE]
Unknown == [Good EXCEPT !.known = FALSE]
Images == {Good, Unknown}

\* A jpeg of half the height, and an image one pixel wide, which leaves no row.
Jpeg == [NoReq EXCEPT !.cmp = "jpeg", !.rows = 1, !.quality = 100]
OneWide == [NoReq EXCEPT !.cols = 1]
Reqs == {Jpeg, OneWide}

TwoImages == [c \in Conn |-> IF c = c1 THEN 2 ELSE IF c = c2 THEN 1 ELSE 0]
TwoReqs == [c \in Conn |-> IF c = c3 THEN 2 ELSE 0]

\* Bound: c1 and c2 are connections of the source, c3 is another client.
NamesFixed ==
    \A c \in Conn : sync_init[c] => name[c] = IF c = c3 THEN "b" ELSE Source
\* Bound: the requester is there first, then the source as c1, and as c2 once it has
\* sent an image.
InTurn == /\ member_id[c1] # 0 => sync_init[c3]
          /\ member_id[c2] # 0 => image_changed[c1] > 0
          /\ NamesFixed
=============================================================================
