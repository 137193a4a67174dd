------------------------------ MODULE MCThreads ------------------------------
(* Instances of ImageConvert, Promises and Server for TLC: where threads wait    *)
(* for each other.  The three share no state: a behaviour moves one of them,      *)
(* which is chosen in the initial state.                                          *)
EXTENDS MCImageConvert, Promises, Server

CONSTANTS t1, t2, t3, w1

VARIABLE part

threadsVars == <<part, imageVars, promiseVars, serverVars>>

\* No fair step of a part is enabled in its initial state, but for the constructor of
\* the server: where that is not what moves, it has ended.
ThreadsInit ==
    /\ part \in {"image", "promise", "server"}
    /\ ImageInit /\ PromiseInit
    /\ IF part = "server" THEN ServerInit
       ELSE /\ mtx_holder = NoThread /\ server_stop = TRUE /\ apps = {} /\ told = {} /\ early = {}
            /\ place = [t \in ServerThread |-> "ended"]
            /\ in_store = {} /\ used = {} /\ store_exists = FALSE
ThreadsNext ==
    \/ part = "image" /\ ImageNext /\ UNCHANGED <<part, promiseVars, serverVars>>
    \/ part = "promise" /\ PromiseNext /\ UNCHANGED <<part, imageVars, serverVars>>
    \/ part = "server" /\ ServerNext /\ UNCHANGED <<part, imageVars, promiseVars>>

ThreadsSpec == /\ ThreadsInit /\ [][ThreadsNext]_threadsVars
               /\ ImageFairness /\ PromiseFairness /\ ServerFairness
=============================================================================
