----------------------------- MODULE Promises ------------------------------
(***************************************************************************)
(* The result of one remote or local call: PromiseData with its two ends,  *)
(* Promise for those who wait for it and CallHandle for those who answer.  *)
(*                                                                         *)
(* Everything is under the mutex m, except that callbacks run without it:  *)
(* what is done before a callback, the callback and what is done after it  *)
(* are steps of their own, and whatever the callback itself does with the  *)
(* promise is done as if by another thread.                                *)
(***************************************************************************)
EXTENDS FiniteSets

CONSTANTS Thread,       \* the threads of the application and of the client
          Runner,       \* the one that calls the function or receives what came of it
          Callback,     \* what can be given to onReach and onFinish
          Answers,      \* what a call can be answered with
          NotFound,     \* the answer of a call that could not be started
          NoAnswer,     \* not answered
          NoCallback    \* no callback is set

ASSUME PromiseAssumption ==
    /\ Runner \in Thread
    /\ NoCallback \notin Callback
    /\ NoAnswer \notin Answers /\ NotFound \notin Answers /\ NotFound # NoAnswer

VARIABLES
    reached, found, finished,
    result,             \* is_error with response or rejection
    reach_event, finish_event,
    reach_event_done, finish_event_done,
    doing,                 \* where a thread is, see the steps
    awake,              \* those in wait() that are to look at its condition
    handed,             \* the function has been given its CallHandle
    raced,              \* history: two threads have been about to answer
    thrown              \* history: a callback has thrown an exception

callVars == <<reached, found, finished, result>>
eventVars == <<reach_event, finish_event, reach_event_done, finish_event_done>>
promiseVars == <<callVars, eventVars, doing, awake, handed, raced, thrown>>

\* Waiting for the reach or the end of the call, with a timeout or without.
WaitsReach == {"waitReach", "waitReachFor"}
WaitsFinish == {"waitFinish", "waitFinishFor"}
Waits == WaitsReach \cup WaitsFinish

\* In the callback of the reach of a call, inside of reach(true), reach(false) or
\* onReach, and in the one of its end, inside of what has ended it or onFinish.
InReach == {"reaching", "failing", "inOnReach"}
InFinish == {"finishing", "inOnFinish"}
Places == {"idle", "answering"} \cup Waits \cup InReach \cup InFinish

PromiseInit ==
    /\ reached = FALSE /\ found = FALSE /\ finished = FALSE /\ result = NoAnswer
    /\ reach_event = NoCallback /\ finish_event = NoCallback
    /\ reach_event_done = FALSE /\ finish_event_done = FALSE
    /\ doing = [t \in Thread |-> "idle"] /\ awake = {}
    /\ handed = FALSE /\ raced = FALSE /\ thrown = FALSE

----------------------------------------------------------------------------
Go(t, place) == doing' = [doing EXCEPT ![t] = place]
notify_all == awake' = {t \in Thread : doing[t] \in Waits}

\* callReachEvent: the callback that is set, if any, is called once; "there" is
\* where its thread is meanwhile, and it goes on with after if there is none.
callReachEvent(t, there, after) ==
    IF ~reach_event_done /\ reached' /\ reach_event' # NoCallback
    THEN reach_event_done' = TRUE /\ Go(t, there) /\ UNCHANGED awake
    ELSE UNCHANGED reach_event_done /\ after

callFinishEvent(t, there, after) ==
    IF ~finish_event_done /\ finished' /\ finish_event' # NoCallback
    THEN finish_event_done' = TRUE /\ Go(t, there) /\ UNCHANGED awake
    ELSE UNCHANGED finish_event_done /\ after

\* The end of reach, respond and reject.
Done(t) == Go(t, "idle") /\ notify_all
Stay == UNCHANGED <<doing, awake>>

----------------------------------------------------------------------------
(* CallHandle.                                                             *)

\* reach(true), after which the function gets the handle.
reachFound(t) ==
    /\ t = Runner /\ doing[t] = "idle" /\ ~reached
    /\ reached' = TRUE /\ found' = TRUE /\ UNCHANGED <<finished, result, reach_event>>
    /\ callReachEvent(t, "reaching", Done(t))
    /\ handed' = ~reach_event_done'
    /\ UNCHANGED <<finish_event, finish_event_done, raced, thrown>>

reachReturns(t) ==
    /\ doing[t] = "reaching"
    /\ Done(t) /\ handed' = TRUE
    /\ UNCHANGED <<callVars, eventVars, raced, thrown>>

\* What reach(false) does after the callback.
Fails(t) ==
    /\ finished' = TRUE /\ result' = NotFound /\ UNCHANGED finish_event
    /\ callFinishEvent(t, "finishing", Done(t))

reachNotFound(t) ==
    /\ t = Runner /\ doing[t] = "idle" /\ ~reached
    /\ reached' = TRUE /\ found' = FALSE /\ UNCHANGED reach_event
    /\ \/ /\ reach_event # NoCallback /\ ~reach_event_done
          /\ callReachEvent(t, "failing", FALSE)
          /\ UNCHANGED <<finished, result, finish_event, finish_event_done>>
       \/ /\ reach_event = NoCallback \/ reach_event_done
          /\ Fails(t) /\ UNCHANGED reach_event_done
    /\ UNCHANGED <<handed, raced, thrown>>

failReturns(t) ==
    /\ doing[t] = "failing"
    /\ Fails(t)
    /\ UNCHANGED <<reached, found, reach_event, reach_event_done, handed, raced, thrown>>

\* respond and reject: respondable() is looked at first, under the lock of its own.
respondable(t) ==
    /\ handed /\ doing[t] = "idle" /\ ~finished
    /\ Go(t, "answering")
    /\ raced' = (raced \/ \E s \in Thread : doing[s] = "answering")
    /\ UNCHANGED <<callVars, eventVars, awake, handed, thrown>>

\* A defect that the properties exclude: the waiting threads are only woken if there
\* is no callback.
respondSilently(t, v) ==
    /\ doing[t] = "answering"
    /\ finished' = TRUE /\ result' = v /\ UNCHANGED <<reached, found, finish_event>>
    /\ callFinishEvent(t, "inOnFinish", Done(t))
    /\ UNCHANGED <<reach_event, reach_event_done, handed, raced, thrown>>

\* A defect that the properties exclude: the callback is looked for before the end.
respondEarly(t, v) ==
    /\ doing[t] = "answering"
    /\ finished' = TRUE /\ result' = v /\ UNCHANGED <<reached, found, finish_event>>
    /\ IF ~finish_event_done /\ finished /\ finish_event # NoCallback
       THEN finish_event_done' = TRUE /\ Go(t, "finishing") /\ UNCHANGED awake
       ELSE UNCHANGED finish_event_done /\ Done(t)
    /\ UNCHANGED <<reach_event, reach_event_done, handed, raced, thrown>>

respond(t, v) ==
    /\ doing[t] = "answering"
    /\ finished' = TRUE /\ result' = v /\ UNCHANGED <<reached, found, finish_event>>
    /\ callFinishEvent(t, "finishing", Done(t))
    /\ UNCHANGED <<reach_event, reach_event_done, handed, raced, thrown>>

finishReturns(t) ==
    /\ doing[t] = "finishing"
    /\ Done(t)
    /\ UNCHANGED <<callVars, eventVars, handed, raced, thrown>>

----------------------------------------------------------------------------
(* Promise.                                                                *)

onReach(t, f) ==
    /\ doing[t] = "idle" /\ ~reach_event_done
    /\ reach_event' = f /\ UNCHANGED callVars
    /\ callReachEvent(t, "inOnReach", Stay)
    /\ UNCHANGED <<finish_event, finish_event_done, handed, raced, thrown>>

\* A defect that the properties exclude: a callback is called if it is given late,
\* even if there has been one.
onFinishAgain(t, f) ==
    /\ doing[t] = "idle"
    /\ finish_event' = f /\ UNCHANGED callVars
    /\ IF finished THEN /\ finish_event_done' = ~finish_event_done
                        /\ Go(t, "inOnFinish") /\ UNCHANGED awake
                   ELSE UNCHANGED finish_event_done /\ Stay
    /\ UNCHANGED <<reach_event, reach_event_done, handed, raced, thrown>>

onFinish(t, f) ==
    /\ doing[t] = "idle" /\ ~finish_event_done
    /\ finish_event' = f /\ UNCHANGED callVars
    /\ callFinishEvent(t, "inOnFinish", Stay)
    /\ UNCHANGED <<reach_event, reach_event_done, handed, raced, thrown>>

onReturns(t) ==
    /\ doing[t] \in {"inOnReach", "inOnFinish"}
    /\ Go(t, "idle")
    /\ UNCHANGED <<callVars, eventVars, awake, handed, raced, thrown>>

\* An exception of a callback leaves what has called it: there is no notify_all.
Throw(t) ==
    /\ doing[t] \in InReach \cup InFinish
    /\ Go(t, "idle") /\ thrown' = TRUE
    /\ UNCHANGED <<callVars, eventVars, awake, handed, raced>>

\* waitReachImpl and waitFinishImpl: the condition is looked at before waiting,
\* whenever woken, and may be at any other time.
startWait(t, place) ==
    /\ doing[t] = "idle"
    /\ Go(t, place) /\ awake' = awake \cup {t}
    /\ UNCHANGED <<callVars, eventVars, handed, raced, thrown>>

Met(t) == IF doing[t] \in WaitsReach THEN reached ELSE finished
Look(t) ==
    /\ doing[t] \in Waits
    /\ IF Met(t) THEN Go(t, "idle") ELSE UNCHANGED doing
    /\ awake' = awake \ {t}
    /\ UNCHANGED <<callVars, eventVars, handed, raced, thrown>>
Wake(t) == t \in awake /\ Look(t)
Spurious(t) == t \notin awake /\ Look(t)

TimeOut(t) ==
    /\ doing[t] \in {"waitReachFor", "waitFinishFor"}
    /\ Go(t, "idle") /\ awake' = awake \ {t}
    /\ UNCHANGED <<callVars, eventVars, handed, raced, thrown>>

----------------------------------------------------------------------------
Returns(t) == reachReturns(t) \/ failReturns(t) \/ finishReturns(t) \/ onReturns(t)

PromiseNext == \E t \in Thread :
    \/ reachFound(t) \/ reachNotFound(t) \/ respondable(t)
    \/ \E v \in Answers : respond(t, v)
    \/ \E f \in Callback : onReach(t, f) \/ onFinish(t, f)
    \/ Returns(t) \/ Throw(t)
    \/ \E place \in Waits : startWait(t, place)
    \/ Wake(t) \/ Spurious(t) \/ TimeOut(t)

\* Callbacks return, and who is woken from wait() gets the mutex.
PromiseFairness ==
    \A t \in Thread : WF_promiseVars(Returns(t)) /\ WF_promiseVars(Wake(t))

PromiseSpec == PromiseInit /\ [][PromiseNext]_promiseVars /\ PromiseFairness

----------------------------------------------------------------------------
(* Properties.                                                             *)

\* Types; what has ended has a result, the function has its handle only if it is
\* found, a call that has failed has ended but for the callback that is told of it
\* before, and who has been woken waits.
PromiseTypeOK ==
    /\ {reached, found, finished, reach_event_done, finish_event_done, handed, raced,
        thrown} \subseteq BOOLEAN
    /\ result \in Answers \cup {NotFound, NoAnswer}
    /\ {reach_event, finish_event} \subseteq Callback \cup {NoCallback}
    /\ doing \in [Thread -> Places]
    /\ \A t \in Thread : doing[t] \in {"reaching", "failing"} => t = Runner
    /\ finished <=> result # NoAnswer
    /\ handed => found /\ reached
    /\ reached /\ ~found /\ ~finished => thrown \/ doing[Runner] = "failing"
    /\ awake \subseteq {t \in Thread : doing[t] \in Waits}

\* A callback that is set is called if what it waits for has happened, whichever
\* thread came first (callReachEvent and callFinishEvent are called by both sides).
EventsDelivered ==
    /\ reached /\ reach_event # NoCallback => reach_event_done
    /\ finished /\ finish_event # NoCallback => finish_event_done

\* A thread that waits for what has happened is woken, or will be once a callback
\* returns: notify_all comes last in reach, respond and reject, after the mutex has
\* been given up in between.
NoLostWaiter ==
    \A t \in Thread : doing[t] \in Waits /\ Met(t) =>
        \/ t \in awake \/ thrown
        \/ \E s \in Thread : doing[s] \in {"reaching", "failing", "finishing"}

\* A promise implements what Settlement says of a call.
Stage == IF finished THEN "answered"
         ELSE IF ~reached THEN "calling" ELSE IF found THEN "started" ELSE "failed"
Told == (IF reach_event_done THEN {"reach"} ELSE {})
        \cup (IF finish_event_done THEN {"finish"} ELSE {})
Settles == INSTANCE Settlement WITH stage <- Stage, answer <- result, told <- Told
SettledOnce == Settles!SettlementSpec

\* Statements of the repository that the code does not satisfy.

\* Waiting for the end of a call includes the callback that is set for it (client/
\* include/webcface/func_result.h:160-162), also of one set in time.
WaitIncludesCallback ==
    [][\A t \in Thread : Look(t) /\ doing[t] = "waitFinish" /\ Met(t)
          => \A s \in Thread : doing[s] # "finishing"]_promiseVars
============================================================================
