----------------------------- MODULE ClientSync -----------------------------
(***************************************************************************)
(* How the data and the requests of a client get to the server: the data    *)
(* store (data_store2.cc), sync() on the application thread and the loop of  *)
(* the ws thread (client_threading.cc, client_msg_sync.cc), and the copy in  *)
(* the server, which starts empty with every connection.                    *)
(*                                                                         *)
(* One field of one kind of data stands for all of them, and one kind of    *)
(* request.  The two threads share ws_data and sync_data, each under its own *)
(* lock; a step here is one critical section, or a call of the websocket    *)
(* library between two of them.                                             *)
(***************************************************************************)
EXTENDS Naturals, Sequences

CONSTANTS Value,        \* values of the field
          NoValue,      \* not set
          Field,        \* fields of other members that may be requested
          PingStatus,   \* the ping status, which is requested differently
          NoFirst,      \* std::nullopt
          MaxSets,      \* bounds: calls of set(),
          MaxSyncs,     \*   calls of sync(),
          MaxLosses     \*   connections lost

Fields == Field \cup {PingStatus}

\* SyncDataFirst, also as the message it is packed into.  n is history: the
\* number of the snapshot; so is moved: that it is what std::move has left.
FirstData == [kind : {"first"}, val : Value \cup {NoValue}, req : SUBSET Fields,
              n : Nat, moved : BOOLEAN]

ASSUME SyncAssumption == /\ NoValue \notin Value
                         /\ PingStatus \notin Field
                         /\ NoFirst \notin FirstData
                         /\ MaxSets \in Nat /\ MaxSyncs \in Nat
                         /\ MaxLosses \in Nat

VARIABLES
    data_send,      \* SyncDataStore2::data_send of the field
    data_recv,      \* SyncDataStore2::data_recv of the client itself
    req,            \* SyncDataStore2::req, and PingStatus for ping_status_req
    sync_first,     \* SyncData::sync_first
    sync_queue,     \* WsData::sync_queue
    connected,      \* WsData::connected
    closing,        \* ClientData::closing
    curl,           \* current_curl_connected, and that the handle exists
    app,            \* where the application thread is, and its local variables
    ws,             \* where the ws thread is, and its local variables
    server,         \* the server's MemberData of the connection
    taken,          \* history: snapshots taken so far
    calls           \* set(), sync() and losses so far; only the bounds read it

store == <<data_send, data_recv, req, taken>>
network == <<curl, server>>
syncVars == <<store, sync_first, sync_queue, connected, closing, app, ws,
              network, calls>>

\* The other messages.
Snapshot(val, n) == [kind |-> "snapshot", val |-> val, n |-> n]
Req(f) == [kind |-> "req", field |-> f]

\* std::move leaves ping_status_req, which is a bool.
First(val, fields, n) ==
    [kind |-> "first", val |-> val, req |-> fields, n |-> n, moved |-> FALSE]
Moved(first) ==
    [first EXCEPT !.val = NoValue, !.req = @ \cap {PingStatus}, !.moved = TRUE]

\* seen, moved and the number n of the snapshot that val came with are history.
NewMemberData == [val |-> NoValue, req |-> {}, n |-> 0, seen |-> {}, moved |-> FALSE]

ClientInit ==
    /\ data_send = <<>> /\ data_recv = NoValue /\ req = {} /\ taken = 0
    /\ sync_first = NoFirst /\ sync_queue = <<>>
    /\ connected = FALSE /\ closing = FALSE /\ curl = FALSE
    /\ app = [pc |-> "idle"]
    /\ ws = [pc |-> "top"]
    /\ server = NewMemberData
    /\ calls = [set |-> 0, sync |-> 0, loss |-> 0, close |-> FALSE]

----------------------------------------------------------------------------
(* The data store.                                                         *)

\* transferSend goes through data_send and keeps each value that differs from
\* the one kept before (shouldSend), the last of them in the end.
Latest == IF data_send = <<>> THEN data_recv ELSE data_send[Len(data_send)]
Changed == IF \E i \in 1..Len(data_send) : data_send[i] # data_recv
           THEN Latest ELSE NoValue

transferSend ==
    /\ data_send' = <<>>
    /\ data_recv' = Latest
    /\ taken' = taken + 1
    /\ UNCHANGED req

\* syncDataFirst: all requests and all data.
syncDataFirst == First(Latest, req, taken + 1)

----------------------------------------------------------------------------
(* The application thread.                                                 *)

set(v) ==
    /\ app.pc = "idle" /\ ~closing
    /\ calls.set < MaxSets
    /\ data_send' = Append(data_send, v)
    /\ calls' = [calls EXCEPT !.set = @ + 1]
    /\ UNCHANGED <<data_recv, req, taken, sync_first, sync_queue, connected,
                   closing, app, ws, network>>

\* syncImpl looks at connected under one lock ...
Sync ==
    /\ app.pc = "idle" /\ ~closing
    /\ calls.sync < MaxSyncs
    /\ app' = [pc |-> "sync", connected2 |-> connected]
    /\ calls' = [calls EXCEPT !.sync = @ + 1]
    /\ UNCHANGED <<store, sync_first, sync_queue, connected, closing, ws, network>>

\* ... and under another fills sync_first or takes a snapshot, which Push queues.
TakeSnapshot ==
    /\ app.pc = "sync"
    /\ transferSend
    /\ IF ~app.connected2 /\ sync_first = NoFirst
       THEN /\ sync_first' = syncDataFirst
            /\ app' = [pc |-> "idle"]
       ELSE /\ app' = [pc |-> "push", m |-> Snapshot(Changed, taken + 1)]
            /\ UNCHANGED sync_first
    /\ UNCHANGED <<sync_queue, connected, closing, ws, network, calls>>

\* request: addReq ...
request(f) ==
    /\ app.pc = "idle" /\ ~closing
    /\ f \notin req
    /\ req' = req \cup {f}
    /\ app' = [pc |-> "request", field |-> f]
    /\ UNCHANGED <<data_send, data_recv, taken, sync_first, sync_queue, connected,
                   closing, ws, network, calls>>

\* ... while pingStatusReq sets ping_status_req last ...
pingStatusReq ==
    /\ app.pc = "idle" /\ ~closing
    /\ PingStatus \notin req
    /\ app' = [pc |-> "request", field |-> PingStatus]
    /\ UNCHANGED <<store, sync_first, sync_queue, connected, closing, ws, network,
                   calls>>
SetPingStatusReq ==
    /\ app.pc = "requested"
    /\ req' = req \cup {app.field}
    /\ app' = [pc |-> "idle"]
    /\ UNCHANGED <<data_send, data_recv, taken, sync_first, sync_queue, connected,
                   closing, ws, network, calls>>

Requested(f) == [pc |-> IF f = PingStatus THEN "requested" ELSE "idle", field |-> f]

\* A defect that RequestsArrive excludes: pushed only when connected.
messagePushReqOnline ==
    /\ app.pc = "request"
    /\ app' = IF connected THEN [pc |-> "push", m |-> Req(app.field)]
                           ELSE Requested(app.field)
    /\ UNCHANGED <<store, sync_first, sync_queue, connected, closing, ws, network,
                   calls>>

\* ... and messagePushReq, which leaves it to sync_first if that is still to come.
messagePushReq ==
    /\ app.pc = "request"
    /\ app' = IF sync_first # NoFirst THEN [pc |-> "push", m |-> Req(app.field)]
                                      ELSE Requested(app.field)
    /\ UNCHANGED <<store, sync_first, sync_queue, connected, closing, ws, network,
                   calls>>

\* The message is queued (messagePushReq, messagePushAlways).
Push ==
    /\ app.pc = "push"
    /\ sync_queue' = Append(sync_queue, app.m)
    /\ app' = IF app.m.kind = "req" THEN Requested(app.m.field) ELSE [pc |-> "idle"]
    /\ UNCHANGED <<store, sync_first, connected, closing, ws, network, calls>>

\* close(), the last thing the application does.
close ==
    /\ app.pc = "idle" /\ ~closing
    /\ closing' = TRUE
    /\ calls' = [calls EXCEPT !.close = connected]
    /\ UNCHANGED <<store, sync_first, sync_queue, connected, app, ws, network>>

----------------------------------------------------------------------------
(* The ws thread, wsThreadMain.                                            *)

\* WebSocket::init succeeds.
init ==
    /\ ws.pc = "top" /\ ~connected /\ ~closing
    /\ curl' = TRUE /\ connected' = TRUE
    /\ server' = NewMemberData
    /\ ws' = [pc |-> "first"]
    /\ UNCHANGED <<store, sync_first, sync_queue, closing, app, calls>>

\* A defect that ValueArrives excludes: sync_first is left empty.
moveFirstOut ==
    /\ ws.pc = "first"
    /\ IF sync_first = NoFirst
       THEN transferSend /\ ws' = [pc |-> "sendFirst", m |-> syncDataFirst]
       ELSE UNCHANGED store /\ ws' = [pc |-> "sendFirst", m |-> sync_first]
    /\ sync_first' = NoFirst
    /\ UNCHANGED <<sync_queue, connected, closing, app, network, calls>>

\* sync_first, or what it would be now, is moved out for sending.
moveFirst ==
    /\ ws.pc = "first"
    /\ IF sync_first = NoFirst
       THEN transferSend /\ ws' = [pc |-> "sendFirst", m |-> syncDataFirst]
       ELSE UNCHANGED store /\ ws' = [pc |-> "sendFirst", m |-> sync_first]
    /\ sync_first' = Moved(ws'.m)
    /\ UNCHANGED <<sync_queue, connected, closing, app, network, calls>>

\* WebSocket::send succeeds, or finds that the connection is lost.  The server
\* reads m as soon as it is sent: if it does so later, or never because the
\* connection is lost, the next connection has a new MemberData all the same.
Received(m) ==
    CASE m.kind = "first" ->
            [val |-> m.val, req |-> m.req, n |-> m.n, seen |-> {m.val} \ {NoValue},
             moved |-> m.moved]
      [] m.kind = "snapshot" ->
            IF m.val = NoValue THEN server
            ELSE [server EXCEPT !.val = m.val, !.n = m.n, !.seen = @ \cup {m.val}]
      [] m.kind = "req" -> [server EXCEPT !.req = @ \cup {m.field}]

send(m) == server' = Received(m) /\ UNCHANGED <<curl, calls>>
Lose == /\ calls.loss < MaxLosses
        /\ calls' = [calls EXCEPT !.loss = @ + 1]
        /\ curl' = FALSE /\ UNCHANGED server

sendFirst ==
    /\ ws.pc = "sendFirst"
    /\ send(ws.m) \/ Lose
    /\ connected' = curl'
    /\ ws' = [pc |-> "top"]
    /\ UNCHANGED <<store, sync_first, sync_queue, closing, app>>

startRecv ==
    /\ ws.pc = "top" /\ connected
    /\ ws' = [pc |-> "recv"]
    /\ UNCHANGED <<store, sync_first, sync_queue, connected, closing, app, network,
                   calls>>

\* WebSocket::recv is called until it returns false.  Receiving a message changes
\* nothing here; a call that has received some before it finds the connection
\* lost returns true, and is repeated.
recv ==
    /\ ws.pc = "recv"
    /\ \/ UNCHANGED <<network, calls>> /\ ws' = [pc |-> "swap"]
       \/ curl /\ Lose /\ \E again \in BOOLEAN :
                           ws' = [pc |-> IF again THEN "recv" ELSE "swap"]
    /\ UNCHANGED <<store, sync_first, sync_queue, connected, closing, app>>

\* A defect that CloseReturns excludes: closing is only looked at without a
\* connection.
ContinueOpen(out, c) ==
    IF ~c THEN [pc |-> "lost"]
    ELSE IF out # <<>> THEN [pc |-> "send", out |-> out]
    ELSE [pc |-> "top"]

\* Where the thread goes with the rest of the queue to send, under the lock
\* that it takes after each message.
Continue(out, c) ==
    IF ~c THEN [pc |-> "lost"]
    ELSE IF out # <<>> THEN [pc |-> "send", out |-> out]
    ELSE IF closing THEN [pc |-> "close"] ELSE [pc |-> "top"]

\* A defect that ConnectedHasFirst excludes: a connection lost in recv goes
\* unnoticed.
swapStale ==
    /\ ws.pc = "swap"
    /\ sync_queue' = <<>>
    /\ ws' = Continue(sync_queue, connected)
    /\ UNCHANGED <<store, sync_first, connected, closing, app, network, calls>>

\* connected is updated and the queue is taken out to be sent.
swap ==
    /\ ws.pc = "swap"
    /\ connected' = curl
    /\ sync_queue' = <<>>
    /\ ws' = Continue(sync_queue, curl)
    /\ UNCHANGED <<store, sync_first, closing, app, network, calls>>

sendNext ==
    /\ ws.pc = "send"
    /\ send(Head(ws.out)) \/ Lose
    /\ connected' = curl'
    /\ ws' = Continue(Tail(ws.out), curl')
    /\ UNCHANGED <<store, sync_first, sync_queue, closing, app>>

\* The connection was lost: the next one starts with a new sync_first.
resetFirst ==
    /\ ws.pc = "lost"
    /\ sync_first' = NoFirst
    /\ ws' = [pc |-> "top"]
    /\ UNCHANGED <<store, sync_queue, connected, closing, app, network, calls>>

\* The thread ends; WebSocket::close.
return ==
    /\ ws.pc = "close" \/ (ws.pc = "top" /\ ~connected /\ closing)
    /\ ws' = [pc |-> "done", closed |-> curl]
    /\ curl' = FALSE /\ connected' = FALSE
    /\ UNCHANGED <<store, sync_first, sync_queue, closing, app, server, calls>>

----------------------------------------------------------------------------
\* What the application decides to do, and how its thread goes on from there.
AppCalls == (\E v \in Value : set(v)) \/ Sync \/ (\E f \in Field : request(f))
            \/ pingStatusReq \/ close
AppRuns == TakeSnapshot \/ messagePushReq \/ Push \/ SetPingStatusReq

wsThreadMain == moveFirst \/ sendFirst \/ startRecv \/ recv \/ swap \/ sendNext
                \/ resetFirst \/ return

ClientNext == AppCalls \/ AppRuns \/ init \/ wsThreadMain

\* Threads that can go on do.  Nothing makes the application call anything, and
\* no connection attempt need succeed.
ClientFairness == WF_syncVars(AppRuns) /\ WF_syncVars(wsThreadMain)
ClientSpec == ClientInit /\ [][ClientNext]_syncVars /\ ClientFairness

----------------------------------------------------------------------------
(* Properties.                                                             *)

Queueable == [kind : {"snapshot"}, val : Value \cup {NoValue}, n : Nat]
             \cup [kind : {"req"}, field : Fields]
AppState == [pc : {"idle"}] \cup [pc : {"sync"}, connected2 : BOOLEAN]
            \cup [pc : {"idle", "request", "requested"}, field : Fields]
            \cup [pc : {"push"}, m : Queueable]
WsState == [pc : {"top", "first", "recv", "swap", "lost", "close"}]
           \cup [pc : {"sendFirst"}, m : FirstData]
           \cup [pc : {"send"}, out : Seq(Queueable) \ {<<>>}]
           \cup [pc : {"done"}, closed : BOOLEAN]
ServerData == [val : Value \cup {NoValue}, req : SUBSET Fields, n : Nat,
               seen : SUBSET Value, moved : BOOLEAN]
Counts == [set : Nat, sync : Nat, loss : Nat, close : BOOLEAN]

ClientSyncTypeOK ==
    /\ data_send \in Seq(Value) /\ data_recv \in Value \cup {NoValue}
    /\ req \subseteq Fields /\ taken \in Nat
    /\ sync_first \in FirstData \cup {NoFirst} /\ sync_queue \in Seq(Queueable)
    /\ connected \in BOOLEAN /\ closing \in BOOLEAN /\ curl \in BOOLEAN
    /\ app \in AppState /\ ws \in WsState /\ server \in ServerData
    /\ calls \in Counts

\* There is a connection and nothing is under way in either thread.
Settled ==
    /\ curl /\ connected /\ ws.pc \in {"top", "recv", "swap"}
    /\ sync_queue = <<>> /\ app.pc = "idle"

\* Every request reaches the server, in sync_first or by itself, however the
\* connection comes and goes while it is made (messagePushReq,
\* client_internal.h:236-259).
RequestsArrive == Settled /\ ~server.moved => req \ {PingStatus} \subseteq server.req

\* The last value that sync() has taken reaches the server, although a snapshot
\* has only what changed since the one before, which may be lost
\* (client_threading.cc:295-311, data_store2.cc:278-297).
ValueArrives ==
    Settled /\ ~server.moved /\ data_recv # NoValue => data_recv \in server.seen

\* While there is a connection, connected agrees with the handle wherever the
\* ws thread reads it, and sync_first is there, so that no sync() and no request
\* is left for the next connection (client_threading.cc:101, :147-149).
ConnectedHasFirst ==
    /\ ws.pc \in {"top", "first", "done"} => connected = curl
    /\ connected /\ ws.pc \notin {"first", "lost"} => sync_first # NoFirst

\* After close() the ws thread ends, wherever it is (client_threading.cc:247-255).
CloseReturns == closing ~> ws.pc = "done"

----------------------------------------------------------------------------
(* Statements of the documentation that the code does not satisfy.         *)

\* sync_first is followed by "all data of the syncs after syncDataFirst"
\* (client_internal.h:192-196): on one connection the server gets no snapshot
\* older than what it has, at least none with another value.  The code sends what
\* an earlier connection has left in the queue as well.
SnapshotsInOrder ==
    [][server'.n < server.n => server' = NewMemberData \/ server'.val = server.val]_syncVars

\* sync_first is emptied when the connection is lost (client_internal.h:197), so
\* that what is sent first is not what std::move has left of an earlier one.
FirstHasData == ws.pc = "sendFirst" => ~ws.m.moved
============================================================================
