----------------------------- MODULE ViewMirror -----------------------------
(***************************************************************************)
(* What a view or canvas promises: a follower sees nothing, or a picture   *)
(* that its owner has shown, whole, and never goes back to one that is     *)
(* older than what it has already seen since it last saw nothing.          *)
(*                                                                         *)
(* The promise is given up (trusted) once data that was sent on an earlier *)
(* connection of the owner gets in between.  Views implements this.        *)
(***************************************************************************)
EXTENDS Naturals, Sequences

CONSTANTS Follower,     \* those who look at the picture
          Pictures,     \* what can be shown
          Nothing       \* what a follower sees at first

VARIABLES shown,        \* the pictures shown so far
          seen,         \* Follower -> the picture that it sees, or Nothing
          at,           \* Follower -> the place of that in shown, or 0
          trusted       \* no data of an earlier connection got in between

mirrorVars == <<shown, seen, at, trusted>>

MirrorInit ==
    /\ shown = <<>> /\ trusted \in BOOLEAN
    /\ seen = [p \in Follower |-> Nothing] /\ at = [p \in Follower |-> 0]

\* The owner shows another picture.
Show == /\ Len(shown') = Len(shown) + 1 /\ shown' \in Seq(Pictures)
        /\ SubSeq(shown', 1, Len(shown)) = shown
        /\ UNCHANGED <<seen, at, trusted>>

\* A follower is brought up to date, as far as that goes.
See(p) ==
    /\ trusted' \in {trusted, FALSE} /\ UNCHANGED shown
    /\ \E k \in at[p]..Len(shown) :
          /\ seen' = [seen EXCEPT ![p] = IF k = 0 THEN Nothing ELSE shown[k]]
          /\ at' = [at EXCEPT ![p] = k]

\* The owner has come back on a new connection: what was seen before is dropped.
Drop(p) ==
    /\ seen' = [seen EXCEPT ![p] = Nothing] /\ at' = [at EXCEPT ![p] = 0]
    /\ UNCHANGED <<shown, trusted>>

\* Without trust there is no promise.
Distrusted == ~trusted'

MirrorNext == Distrusted \/ Show \/ \E p \in Follower : See(p) \/ Drop(p)

MirrorSpec == MirrorInit /\ [][MirrorNext]_mirrorVars
============================================================================
