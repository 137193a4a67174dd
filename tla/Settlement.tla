---------------------------- MODULE Settlement -----------------------------
(***************************************************************************)
(* What a call promises to those who look at its promise: it is started or *)
(* fails, it has one answer, which stays, and one callback is told of each *)
(* of both, once and not before it happens.                                *)
(*                                                                         *)
(* The promise is given up once two threads have been about to answer      *)
(* (raced).  Promises implements this.                                     *)
(***************************************************************************)
CONSTANTS Answers,      \* what a call can be answered with
          NotFound,     \* the answer of a call that could not be started
          NoAnswer      \* not answered yet

VARIABLES stage,        \* "calling", "started", "failed" or "answered"
          answer,       \* its answer
          told,         \* which events a callback has been told of
          raced         \* two threads have been about to answer it

settlementVars == <<stage, answer, told, raced>>

SettlementInit ==
    /\ stage = "calling" /\ answer = NoAnswer /\ told = {} /\ raced = FALSE

\* The events that have happened.
Happened(s) == CASE s = "calling" -> {}
                 [] s \in {"started", "failed"} -> {"reach"}
                 [] s = "answered" -> {"reach", "finish"}

\* With a step of the call a callback may be told of what has happened.
Tell == told \subseteq told' /\ told' \subseteq told \cup Happened(stage')

Start == /\ stage = "calling" /\ stage' \in {"started", "failed"}
         /\ UNCHANGED <<answer, raced>> /\ Tell
Fail == /\ stage \in {"calling", "failed"} /\ stage' = "answered"
        /\ answer' = NotFound /\ UNCHANGED raced /\ Tell
Answer == /\ stage = "started" /\ stage' = "answered"
          /\ answer' \in Answers /\ UNCHANGED raced /\ Tell
TellOnly == UNCHANGED <<stage, answer, raced>> /\ Tell

SettlementNext == raced' \/ Start \/ Fail \/ Answer \/ TellOnly

SettlementSpec == SettlementInit /\ [][SettlementNext]_settlementVars
============================================================================
