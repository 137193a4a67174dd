------------------------------- MODULE Server -------------------------------
(***************************************************************************)
(* The threads of the server (server-store/src/websock.cc): the one that    *)
(* owns the Server object, the one that pings, and one for each listener    *)
(* (a Crow application for TCP and one for every socket file), whose        *)
(* callbacks run under server_mtx.  It starts in the constructor and ends   *)
(* with stop(), which the owner and the TCP listener both call.             *)
(*                                                                         *)
(* Crow is external: run() fails at once or listens until it is told to     *)
(* stop or a signal comes; stop() reaches whoever listens.  What it does to *)
(* an application that does not listen yet is left open.                    *)
(***************************************************************************)
EXTENDS Naturals, FiniteSets

CONSTANTS Tcp,          \* the listener whose end stops the server
          Sockets,      \* the others, for socket files
          WsConn,         \* WebSocket connections, each made at most once
          NoThread      \* nobody holds server_mtx

ASSUME ServerAssumption == /\ Tcp \notin Sockets
                           /\ (Sockets \cup {Tcp}) \cap {"main", "ping"} = {}
                           /\ NoThread \notin {"main", "ping"}

App == Sockets \cup {Tcp}
ServerThread == App \cup {"main", "ping"}

VARIABLES
    mtx_holder,         \* who holds server_mtx for longer than a step
    server_stop,
    apps,               \* the listeners there are
    place,              \* where every thread is
    told,               \* listeners that have been told to stop while they listened
    early,              \* history: those that were told before they listened
    in_store,              \* the connections that have a MemberData
    used,               \* history: the connections there have been
    store_exists

appVars == <<apps, told, early>>
connVars == <<in_store, used, store_exists>>
serverVars == <<mtx_holder, server_stop, place, appVars, connVars>>

Free == mtx_holder = NoThread
At(t, p) == place[t] = p
GoTo(t, p) == place' = [place EXCEPT ![t] = p]

ServerInit ==
    /\ mtx_holder = NoThread /\ server_stop = FALSE
    /\ apps = {} /\ told = {} /\ early = {}
    /\ place = [t \in ServerThread |-> IF t \in App THEN "none" ELSE "new"]
    /\ in_store = {} /\ used = {} /\ store_exists = TRUE

----------------------------------------------------------------------------
(* The owner.                                                              *)

\* The constructor holds the mutex from before the first listener to after the last.
\* ping_thread, a member, has started before.
construct ==
    /\ At("main", "new") /\ Free
    /\ mtx_holder' = "main" /\ GoTo("main", "constructing")
    /\ UNCHANGED <<server_stop, appVars, connVars>>

\* TCP comes first; a thread that runs the listener starts with it.
constructApp(a) ==
    /\ At("main", "constructing") /\ a \notin apps
    /\ a # Tcp => Tcp \in apps
    /\ apps' = apps \cup {a} /\ GoTo(a, "started")
    /\ UNCHANGED <<mtx_holder, server_stop, told, early, connVars>>

constructed ==
    /\ At("main", "constructing") /\ apps = App
    /\ mtx_holder' = NoThread /\ GoTo("main", "serving")
    /\ UNCHANGED <<server_stop, appVars, connVars>>

\* What the program of the server does: join(), then the end of the object.  An
\* application that has a Server of its own may stop or destroy it at any time.
join ==
    /\ At("main", "serving") /\ GoTo("main", "joining")
    /\ UNCHANGED <<mtx_holder, server_stop, appVars, connVars>>
Ended(a) == At(a, "ended")
joinReturns ==
    /\ At("main", "joining") /\ \A a \in apps : Ended(a)
    /\ GoTo("main", "serving")
    /\ UNCHANGED <<mtx_holder, server_stop, appVars, connVars>>
destroy ==
    /\ At("main", "serving") /\ GoTo("main", "stop")
    /\ UNCHANGED <<mtx_holder, server_stop, appVars, connVars>>

joinPing ==
    /\ At("main", "joinPing") /\ At("ping", "ended")
    /\ GoTo("main", "joinApps")
    /\ UNCHANGED <<mtx_holder, server_stop, appVars, connVars>>

\* A defect that the properties exclude: the store goes before the listeners end.
joinAppsLate ==
    /\ At("main", "joinApps")
    /\ GoTo("main", "gone")
    /\ in_store' = {} /\ store_exists' = FALSE
    /\ UNCHANGED <<mtx_holder, server_stop, appVars, used>>

\* join(), then store.reset(): connections that have not been closed end with it.
joinApps ==
    /\ At("main", "joinApps") /\ \A a \in apps : Ended(a)
    /\ GoTo("main", "gone")
    /\ in_store' = {} /\ store_exists' = FALSE
    /\ UNCHANGED <<mtx_holder, server_stop, appVars, used>>

----------------------------------------------------------------------------
(* Server::stop, of the owner and of the TCP listener, perhaps of both at once. *)

\* A defect that the properties exclude: the flag is set without the mutex.
stopUnlocked(t) ==
    /\ At(t, "stop")
    /\ server_stop' = TRUE /\ GoTo(t, "notify")
    /\ UNCHANGED <<mtx_holder, appVars, connVars>>

stop(t) ==
    /\ At(t, "stop") /\ Free
    /\ server_stop' = TRUE /\ GoTo(t, "notify")
    /\ UNCHANGED <<mtx_holder, appVars, connVars>>

notify(t) ==
    /\ At(t, "notify")
    /\ place' = [place EXCEPT ![t] = "close",
                              !["ping"] = IF @ = "waiting" THEN "woken" ELSE @]
    /\ UNCHANGED <<mtx_holder, server_stop, appVars, connVars>>

\* Every connection is asked to close, without the mutex; Crow closes it later, or not at
\* all if its listener ends first.
closeConns(t) ==
    /\ At(t, "close") /\ GoTo(t, "stopApps")
    /\ UNCHANGED <<mtx_holder, server_stop, appVars, connVars>>

stopApps(t) ==
    /\ At(t, "stopApps")
    /\ told' = told \cup {a \in apps : At(a, "listening")}
    /\ early' = early \cup {a \in apps : At(a, "started")}
    /\ GoTo(t, IF t = "main" THEN "joinPing" ELSE "ended")
    /\ UNCHANGED <<mtx_holder, server_stop, apps, connVars>>

----------------------------------------------------------------------------
(* pingThreadMain: it holds the mutex except while it waits.                  *)

Holds(p) == mtx_holder' = "ping" /\ GoTo("ping", p)
Leaves(p) == mtx_holder' = NoThread /\ GoTo("ping", p)

pingLock ==
    /\ place["ping"] \in {"new", "woken"} /\ Free
    /\ Holds(IF At("ping", "new") THEN "while" ELSE "awake")
    /\ UNCHANGED <<server_stop, appVars, connVars>>
pingCheck ==
    /\ At("ping", "while")
    /\ IF server_stop THEN Leaves("ended") ELSE Holds("beforeWait")
    /\ UNCHANGED <<server_stop, appVars, connVars>>
pingWait ==
    /\ At("ping", "beforeWait") /\ Leaves("waiting")
    /\ UNCHANGED <<server_stop, appVars, connVars>>
\* After ping_interval, or for no reason.
pingTimeout ==
    /\ At("ping", "waiting") /\ GoTo("ping", "woken")
    /\ UNCHANGED <<mtx_holder, server_stop, appVars, connVars>>
\* A round of pings (Pings), unless the server has stopped.
pingAwake ==
    /\ At("ping", "awake")
    /\ IF server_stop THEN Leaves("ended") ELSE Holds("while")
    /\ UNCHANGED <<server_stop, appVars, connVars>>

----------------------------------------------------------------------------
(* A listener and its callbacks.                                            *)

listen(a) ==
    /\ At(a, "started") /\ GoTo(a, "listening")
    /\ UNCHANGED <<mtx_holder, server_stop, appVars, connVars>>

\* The end of run(): the TCP listener goes on to stop the server.
Ends(a) ==
    /\ GoTo(a, IF a = Tcp THEN "stop" ELSE "ended")
    /\ UNCHANGED <<mtx_holder, server_stop, appVars, connVars>>
runFails(a) == At(a, "started") /\ Ends(a)
runSignalled(a) == At(a, "listening") /\ Ends(a)
runStopped(a) == At(a, "listening") /\ a \in told /\ Ends(a)

open_callback(a, c) ==
    /\ At(a, "listening") /\ Free /\ c \notin used
    /\ in_store' = in_store \cup {c} /\ used' = used \cup {c}
    /\ UNCHANGED <<mtx_holder, server_stop, place, appVars, store_exists>>
close_callback(a, c) ==
    /\ At(a, "listening") /\ Free /\ c \in in_store
    /\ in_store' = in_store \ {c}
    /\ UNCHANGED <<mtx_holder, server_stop, place, appVars, used, store_exists>>

----------------------------------------------------------------------------
MainStep == construct \/ (\E a \in App : constructApp(a)) \/ constructed \/ joinReturns
            \/ joinPing \/ joinApps
StopStep(t) == stop(t) \/ notify(t) \/ closeConns(t) \/ stopApps(t)
PingStep == pingLock \/ pingCheck \/ pingWait \/ pingAwake

ServerNext ==
    \/ MainStep \/ join \/ destroy
    \/ \E t \in {"main", Tcp} : StopStep(t)
    \/ PingStep \/ pingTimeout
    \/ \E a \in App : \/ listen(a) \/ runFails(a) \/ runSignalled(a) \/ runStopped(a)
                      \/ \E c \in WsConn : open_callback(a, c) \/ close_callback(a, c)

\* Threads go on.  Nobody has to wait for the end of ping_interval.
ServerFairness ==
    /\ WF_serverVars(MainStep) /\ WF_serverVars(PingStep)
    /\ \A t \in {"main", Tcp} : WF_serverVars(StopStep(t))
    /\ \A a \in App : WF_serverVars(listen(a)) /\ WF_serverVars(runStopped(a))

ServerSpec == ServerInit /\ [][ServerNext]_serverVars /\ ServerFairness

----------------------------------------------------------------------------
(* Properties.                                                             *)

\* A listener, whose callbacks use the store, never outlives it (~Server joins the
\* threads before store.reset()).
StoreOutlivesListeners == ~store_exists => \A a \in App : Ended(a)

\* Once the server stops, all of its threads end, also if the TCP listener fails while
\* the constructor has not made the others yet, and although nobody waits for the next
\* ping; unless Crow was told to stop a listener before it listened.
Stops == server_stop ~> (early # {} \/ \A t \in App \cup {"ping"} : At(t, "ended"))

----------------------------------------------------------------------------
(* The inductive strengthening of StoreOutlivesListeners.                  *)

ServerPlace == {"none", "new", "constructing", "serving", "joining", "stop", "notify", "close",
           "stopApps", "joinPing", "joinApps", "gone", "while", "beforeWait", "waiting",
           "woken", "awake", "started", "listening", "ended"}
ServerTypeOK ==
    /\ mtx_holder \in {NoThread, "main", "ping"}
    /\ apps \subseteq App /\ told \subseteq apps /\ early \subseteq apps
    /\ place \in [ServerThread -> ServerPlace]

\* server_mtx is held where the code has locked it, all listeners are there once the
\* constructor has returned, and they have ended when the object has.
ServerInv ==
    /\ ServerTypeOK
    /\ mtx_holder = "main" <=> At("main", "constructing")
    /\ mtx_holder = "ping" <=> place["ping"] \in {"while", "beforeWait", "awake"}
    /\ \A a \in App : a \notin apps <=> At(a, "none")
    /\ place["main"] \notin {"new", "constructing"} => apps = App
    /\ At("main", "gone") => \A a \in App : Ended(a)
    /\ ~store_exists => At("main", "gone")
============================================================================
