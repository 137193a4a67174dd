------------------------------- MODULE Calls -------------------------------
(***************************************************************************)
(* Remote function calls: runAsync and the promises of the caller          *)
(* (func.cc, func_result.cc, FuncResultStore), the relay and its           *)
(* pending_calls in the server (member_data.cc), and the callee.           *)
(*                                                                         *)
(* A message to the server waits in sync_queue of its client until the ws  *)
(* thread sends it; the server then handles it in one step.  When the      *)
(* client loses the connection, the messages at the head of the queue have *)
(* either got onto the wire, where the server may still read them, or are  *)
(* lost with the local queue of the ws thread.                             *)
(***************************************************************************)
EXTENDS Links, SequencesExt

CONSTANT MaxCalls       \* Client -> Nat, a bound: calls made by each client

ASSUME MaxCallsAssumption == MaxCalls \in [Client -> Nat]

VARIABLES
    sync_queue,         \* WsData::sync_queue, the call messages in it
    wire,               \* sent on a connection that its client has lost
    pending_calls,      \* MemberData::pending_calls of the callee
    promise,            \* per client, caller_id + 1 -> PromiseData
    running             \* per client, the calls its functions work on

callVars == <<sync_queue, wire, pending_calls, promise, running>>
callsVars == <<storeVars, linkVars, callVars>>

(* Messages.  by is the process that made the call; together with the       *)
(* caller_id it identifies the call.  It is history: no guard looks at it.  *)
CallMsg(mid, cid, by, target) ==
    [kind |-> "call", mid |-> mid, cid |-> cid, by |-> by, target |-> target]
CallResponseMsg(mid, cid, by, started) ==
    [kind |-> "call_response", mid |-> mid, cid |-> cid, by |-> by,
     started |-> started]
CallResultMsg(mid, cid, by, error) ==
    [kind |-> "call_result", mid |-> mid, cid |-> cid, by |-> by,
     is_error |-> error]

CallsInit ==
    /\ LinkInit
    /\ sync_queue = [p \in Client |-> <<>>]
    /\ wire = [c \in Conn |-> <<>>]
    /\ pending_calls = [c \in Conn |-> <<>>]
    /\ promise = [p \in Client |-> <<>>]
    /\ running = [p \in Client |-> {}]

push(p, m) == sync_queue' = [sync_queue EXCEPT ![p] = Append(@, m)]

----------------------------------------------------------------------------
(* The caller.                                                             *)

\* getMemberIdFromName of another member: 0 as long as the client has not been
\* told, and then the id of that name, which never changes (IdIsForever).
MemberIdFromName(n) == {0} \cup SameName(n)

\* The promise of a new call, and what addResult, reach, respond or reject, and
\* removeResult make of it.  That reach and respond throw when the promise has
\* been reached or finished is up to their callers below.
addResult == [reached |-> FALSE, found |-> FALSE, finished |-> FALSE,
              is_error |-> FALSE, stored |-> TRUE]
reach(r, found) ==
    [r EXCEPT !.reached = TRUE, !.found = found,
              !.finished = @ \/ ~found, !.is_error = @ \/ ~found]
respond(r, error) == [r EXCEPT !.finished = TRUE, !.is_error = error]
removeResult(r) == [r EXCEPT !.stored = FALSE]

\* runAsync on a function of member n.  messagePushOnline refuses the message
\* when there is no connection, and the promise then ends at once; it stays in
\* the store.
runAsync(p, n) ==
    LET cid == Len(promise[p])
        online == conn_of[p] # NoConn
    IN
    /\ n # MemberName[p]
    /\ cid < MaxCalls[p]
    /\ promise' = [promise EXCEPT ![p] =
          Append(@, IF online THEN addResult ELSE reach(addResult, FALSE))]
    /\ IF online THEN \E id \in MemberIdFromName(n) : push(p, CallMsg(0, cid, p, id))
                 ELSE UNCHANGED sync_queue
    /\ UNCHANGED <<storeVars, linkVars, wire, pending_calls, running>>

\* getResult finds the promise.
Stored(p, cid) == cid < Len(promise[p]) /\ promise[p][cid + 1].stored

\* A promise that could not be started is taken out of the store.
Reached(r, started) == IF started THEN reach(r, TRUE)
                                  ELSE removeResult(reach(r, FALSE))

\* A defect that PromiseSettles excludes: reach() does not look at reached.
RecvCallResponseUnchecked(p) ==
    LET m == Head(recv_queue[p])
        k == m.cid + 1
    IN
    /\ Take(p, "call_response")
    /\ promise' =
         IF Stored(p, m.cid)
         THEN [promise EXCEPT ![p][k] = Reached(@, m.started)]
         ELSE promise
    /\ UNCHANGED <<sync_queue, wire, pending_calls, running>>

\* onRecv: call_response.  reach() throws when the promise has been reached
\* before, and removeResult is then not executed.
RecvCallResponse(p) ==
    LET m == Head(recv_queue[p])
        k == m.cid + 1
    IN
    /\ Take(p, "call_response")
    /\ promise' =
         IF Stored(p, m.cid) /\ ~promise[p][k].reached
         THEN [promise EXCEPT ![p][k] = Reached(@, m.started)]
         ELSE promise
    /\ UNCHANGED <<sync_queue, wire, pending_calls, running>>

\* onRecv: call_result.  respond() and reject() throw on a finished promise.
RecvCallResult(p) ==
    LET m == Head(recv_queue[p])
        k == m.cid + 1
    IN
    /\ Take(p, "call_result")
    /\ promise' =
         IF Stored(p, m.cid) /\ ~promise[p][k].finished
         THEN [promise EXCEPT ![p][k] = removeResult(respond(@, m.is_error))]
         ELSE promise
    /\ UNCHANGED <<sync_queue, wire, pending_calls, running>>

----------------------------------------------------------------------------
(* The callee.                                                             *)

\* onRecv: call.  Both messages are queued whether or not the client is still
\* connected (messagePushAlways).
RecvCall(p) ==
    LET m == Head(recv_queue[p]) IN
    /\ Take(p, "call")
    /\ \E found \in BOOLEAN :
         /\ push(p, CallResponseMsg(m.mid, m.cid, m.by, found))
         /\ running' = [running EXCEPT ![p] = IF found THEN @ \cup {m} ELSE @]
    /\ UNCHANGED <<wire, pending_calls, promise>>

\* The function responds or rejects, possibly on a thread of its own
\* (FuncInfo::run).
FinishCall(p) ==
    /\ \E m \in running[p], error \in BOOLEAN :
         /\ push(p, CallResultMsg(m.mid, m.cid, m.by, error))
         /\ running' = [running EXCEPT ![p] = @ \ {m}]
    /\ UNCHANGED <<storeVars, linkVars, wire, pending_calls, promise>>

----------------------------------------------------------------------------
(* The server.                                                             *)

\* What the server will read from connection c.
Held(c) == conn_of[owner[c]] = c
Uplink(c) == IF Held(c) THEN sync_queue[owner[c]] ELSE wire[c]

\* The server reads one message of the given kind from c.
Read(c, kind) ==
    /\ c \in clients
    /\ sync_init[c]
    /\ Uplink(c) # <<>>
    /\ Head(Uplink(c)).kind = kind
    /\ IF Held(c)
       THEN /\ sync_queue' = [sync_queue EXCEPT ![owner[c]] = Tail(@)]
            /\ UNCHANGED wire
       ELSE /\ wire' = [wire EXCEPT ![c] = Tail(@)]
            /\ UNCHANGED sync_queue

\* pack for connection d: nothing is sent to a member that has been closed.
SendTo(d, m) ==
    recv_queue' = [p \in Client |-> IF conn_of[p] = d /\ d \in clients
                                    THEN Append(recv_queue[p], m)
                                    ELSE recv_queue[p]]

\* findAndDo(id) and pack.
Forward(id, m) == IF Found(id) THEN SendTo(clients_by_id[id], m)
                               ELSE UNCHANGED recv_queue

SetPending(d, m, state) ==
    pending_calls' = [pending_calls EXCEPT ![d] =
        Overwrite(@, [key \in {<<m.mid, m.cid>>} |->
                         [state |-> state, by |-> m.by]])]

\* call: relayed to the target with the caller's id, or refused.
ServeCall(c) ==
    LET m == [Head(Uplink(c)) EXCEPT !.mid = member_id[c]] IN
    /\ Read(c, "call")
    /\ IF FoundConnected(m.target)
       THEN /\ SendTo(clients_by_id[m.target], m)
            /\ SetPending(clients_by_id[m.target], m, 2)
       ELSE /\ SendTo(c, CallResponseMsg(m.mid, m.cid, m.by, FALSE))
            /\ UNCHANGED pending_calls
    /\ UNCHANGED <<storeVars, conn_of, promise, running>>

\* call_response: pending becomes 1 whatever the answer is.
ServeCallResponse(c) ==
    LET m == Head(Uplink(c)) IN
    /\ Read(c, "call_response")
    /\ SetPending(c, m, 1)
    /\ Forward(m.mid, m)
    /\ UNCHANGED <<storeVars, conn_of, promise, running>>

\* call_result.
ServeCallResult(c) ==
    LET m == Head(Uplink(c)) IN
    /\ Read(c, "call_result")
    /\ SetPending(c, m, 0)
    /\ Forward(m.mid, m)
    /\ UNCHANGED <<storeVars, conn_of, promise, running>>

\* What onClose of c sends to connection d in place of the closed callee.
AbortMsg(c, key) ==
    LET e == pending_calls[c][key] IN
    IF e.state = 2 THEN CallResponseMsg(key[1], key[2], e.by, FALSE)
                   ELSE CallResultMsg(key[1], key[2], e.by, TRUE)

\* Defects that AnswerReachesItsCaller and CallFinishes exclude: everybody is
\* told, or only the callers whose call has not been answered at all.
AbortsToAll(c, d) ==
    SetToSeq({AbortMsg(c, key) : key \in
        {k \in DOMAIN pending_calls[c] : /\ pending_calls[c][k].state # 0
                                         /\ d \in ForEach \ {c}}})
AbortsUnreachedOnly(c, d) ==
    SetToSeq({AbortMsg(c, key) : key \in
        {k \in DOMAIN pending_calls[c] : /\ pending_calls[c][k].state = 2
                                         /\ FoundConnected(k[1])
                                         /\ clients_by_id[k[1]] = d
                                         /\ d # c}})

Aborts(c, d) ==
    SetToSeq({AbortMsg(c, key) : key \in
        {k \in DOMAIN pending_calls[c] : /\ pending_calls[c][k].state # 0
                                         /\ FoundConnected(k[1])
                                         /\ clients_by_id[k[1]] = d
                                         /\ d # c}})

Close(c) ==
    /\ onClose(c)
    /\ SendEach([d \in Conn |-> Aborts(c, d)])
    /\ wire' = [wire EXCEPT ![c] = <<>>]
    /\ UNCHANGED <<sync_queue, pending_calls, promise, running>>

\* The client loses its connection.  Of sync_queue, the first i messages are on
\* the wire, those up to j are lost, and the rest stays for the next connection.
Disconnect(p) ==
    /\ disconnect(p)
    /\ LET c == conn_of[p]
           q == sync_queue[p]
       IN \E i, j \in 0..Len(q) :
            /\ i <= j
            /\ c \notin clients => i = 0
            /\ wire' = [wire EXCEPT ![c] = SubSeq(q, 1, i)]
            /\ sync_queue' = [sync_queue EXCEPT ![p] = SubSeq(q, j + 1, Len(q))]
    /\ UNCHANGED <<pending_calls, promise, running>>

----------------------------------------------------------------------------
Connect(p, c) == connect(p, c) /\ UNCHANGED callVars

\* The server handles sync_init; nothing of what it announces concerns calls.
SyncInit(c) ==
    /\ \E id \in AssignableId(c, OwnName(c)) : syncInit(c, id)
    /\ UNCHANGED <<recv_queue, callVars>>

App(p) == RecvCall(p) \/ RecvCallResponse(p) \/ RecvCallResult(p)

Serve(c) == ServeCall(c) \/ ServeCallResponse(c) \/ ServeCallResult(c)

CallsNext ==
    \/ \E p \in Client, c \in Conn : Connect(p, c)
    \/ \E c \in Conn : SyncInit(c)
    \/ \E p \in Client : App(p)
    \/ \E p \in Client, n \in Name : runAsync(p, n)
    \/ \E p \in Client : FinishCall(p)
    \/ \E p \in Client : Disconnect(p)
    \/ \E c \in Conn : Serve(c)
    \/ \E c \in Conn : Close(c)

\* The server handles what it can read and finds out about the connections that
\* clients have lost; a client finds out about the ones that the server has
\* closed, keeps calling sync(), and its functions return.
CallsSpec ==
    /\ CallsInit
    /\ [][CallsNext]_callsVars
    /\ \A c \in Conn : /\ WF_callsVars(SyncInit(c))
                       /\ WF_callsVars(Serve(c))
                       /\ WF_callsVars(~Held(c) /\ Close(c))
    /\ \A p \in Client : /\ WF_callsVars(App(p))
                         /\ WF_callsVars(FinishCall(p))
                         /\ WF_callsVars(/\ conn_of[p] \notin clients
                                         /\ Disconnect(p))

----------------------------------------------------------------------------
Message ==
    [kind : {"call"}, mid : Nat, cid : Nat, by : Client, target : Nat]
    \cup [kind : {"call_response"}, mid : Nat, cid : Nat, by : Client,
          started : BOOLEAN]
    \cup [kind : {"call_result"}, mid : Nat, cid : Nat, by : Client,
          is_error : BOOLEAN]
PromiseData == [reached : BOOLEAN, found : BOOLEAN, finished : BOOLEAN,
                is_error : BOOLEAN, stored : BOOLEAN]

\* A connection is either held by its client, or what is left of the messages
\* on it is on the wire.
WireTypeOK ==
    /\ wire \in [Conn -> Seq(Message)]
    /\ \A c \in Conn : wire[c] # <<>> => c \in clients /\ ~Held(c)

PendingTypeOK ==
    /\ DOMAIN pending_calls = Conn
    /\ \A c \in Conn : /\ DOMAIN pending_calls[c] \subseteq Nat \X Nat
                       /\ IsFiniteSet(DOMAIN pending_calls[c])
                       /\ \A key \in DOMAIN pending_calls[c] :
                             pending_calls[c][key] \in [state : 0..2, by : Client]

CallsTypeOK ==
    /\ LinkTypeOK
    /\ recv_queue \in [Client -> Seq(Message)]
    /\ sync_queue \in [Client -> Seq(Message)]
    /\ WireTypeOK
    /\ PendingTypeOK
    /\ promise \in [Client -> Seq(PromiseData)]
    /\ running \in [Client -> SUBSET Message]

\* A promise changes forward only, and what it has settled on stays: late,
\* repeated and generated answers (onClose answers for a connection whose
\* client has already come back and answered itself) do not change it.
PromiseSettles ==
    [][\A p \in Client : \A k \in 1..Len(promise[p]) :
          LET old == promise[p][k]
              new == promise'[p][k]
          IN /\ old.reached => new.reached /\ new.found = old.found
             /\ old.finished => new.finished /\ new.is_error = old.is_error
      ]_callsVars

\* Every call finishes, with a value, an error or FuncNotFound, as long as the
\* caller keeps its connection, whatever happens to the callee.
CallFinishes ==
    \A p \in Client, c \in Conn : \A k \in 1..MaxCalls[p] :
        (conn_of[p] = c /\ k <= Len(promise[p]))
            ~> (\/ k <= Len(promise[p]) /\ promise[p][k].finished
                \/ conn_of[p] # c
                \/ c \notin clients)

\* No two client processes have the same non-empty name.
DistinctMemberNames ==
    \A p, q \in Client :
        (MemberName[p] = MemberName[q] /\ MemberName[p] # NoName) => p = q

\* An answer is only ever handed to the process whose call it answers: callers
\* are told apart by member id and caller_id alone, and members reconnect, are
\* forgotten and replaced while a call is under way.  It takes member names
\* that are distinct.
AnswerReachesItsCaller ==
    \A p \in Client : \A k \in 1..Len(recv_queue[p]) :
        recv_queue[p][k].kind \in {"call_response", "call_result"} =>
            recv_queue[p][k].by = p

----------------------------------------------------------------------------
(* The inductive strengthening of AnswerReachesItsCaller.                  *)

\* Member id i has been used by process p.
IdOf(i, p) == \E c \in Conn : owner[c] = p /\ sync_init[c] /\ member_id[c] = i

\* Until the server has seen it, a call comes from the connection it was made
\* on; from then on the call and its answers carry an id of the caller.
FromClient(p) ==
    {m \in Message : IF m.kind = "call" THEN m.by = p ELSE IdOf(m.mid, m.by)}
ToClient(p) ==
    {m \in Message : IF m.kind = "call" THEN IdOf(m.mid, m.by) ELSE m.by = p}

CallerKnown ==
    /\ \A c \in Conn : sync_init[c] => name[c] = OwnName(c)
    /\ \A p \in Client : /\ sync_queue[p] \in Seq(FromClient(p))
                         /\ recv_queue[p] \in Seq(ToClient(p))
                         /\ \A m \in running[p] : IdOf(m.mid, m.by)
    /\ \A c \in Conn : /\ wire[c] \in Seq(FromClient(owner[c]))
                       /\ \A key \in DOMAIN pending_calls[c] :
                             IdOf(key[1], pending_calls[c][key].by)

============================================================================
