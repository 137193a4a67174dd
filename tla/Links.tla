------------------------------- MODULE Links -------------------------------
(***************************************************************************)
(* The connections between client processes and the server.  The two ends  *)
(* learn of the loss of a connection independently: the client's ws thread *)
(* in recv or send (client_threading.cc), the server in its close callback *)
(* (websock.cc).  So the server can still hold the old connection of a     *)
(* client that has already come back on a new one, and the other way round.*)
(*                                                                         *)
(* Members, Calls and PubSub are protocols modelled on top of this; each   *)
(* keeps in recv_queue the messages of its own protocol.                   *)
(***************************************************************************)
EXTENDS ServerStore, Sequences

CONSTANTS Client,       \* client processes
          NoConn,       \* no connection
          MemberName,   \* Client -> MName: the name a client was built with
          owner         \* Conn -> Client: who opens the connection, if at all;
                        \* a bound on how often each client connects

ASSUME ClientAssumption == /\ NoConn \notin Conn
                           /\ MemberName \in [Client -> MName]
                           /\ owner \in [Conn -> Client]

VARIABLES
    conn_of,            \* the connection the ws thread of a client holds
    recv_queue          \* WsData::recv_queue

linkVars == <<conn_of, recv_queue>>

LinkTypeOK ==
    /\ StoreTypeOK
    /\ conn_of \in [Client -> Conn \cup {NoConn}]
    /\ \A p \in Client : conn_of[p] # NoConn => owner[conn_of[p]] = p

LinkInit ==
    /\ StoreInit
    /\ conn_of = [p \in Client |-> NoConn]
    /\ recv_queue = [p \in Client |-> <<>>]

\* A map from some of S to T.
IsMap(f, S, T) == DOMAIN f \subseteq S /\ f \in [DOMAIN f -> T]

\* A map with the entries of the map g written over it.
Overwrite(f, g) ==
    [x \in DOMAIN f \cup DOMAIN g |-> IF x \in DOMAIN g THEN g[x] ELSE f[x]]

\* WebSocket::init succeeds and the server's open callback runs.
connect(p, c) ==
    /\ conn_of[p] = NoConn
    /\ owner[c] = p
    /\ newClient(c)
    /\ conn_of' = [conn_of EXCEPT ![p] = c]
    /\ UNCHANGED recv_queue

\* A defect that CallsTypeOK excludes: the connection is not given up.
disconnectKept(p) ==
    /\ conn_of[p] # NoConn
    /\ UNCHANGED <<storeVars, recv_queue, conn_of>>

\* The ws thread finds that its connection is gone.
disconnect(p) ==
    /\ conn_of[p] # NoConn
    /\ conn_of' = [conn_of EXCEPT ![p] = NoConn]
    /\ UNCHANGED <<storeVars, recv_queue>>

\* MemberData::send of the messages msgs[d] to every connection d.  What is
\* written to a connection that its client has given up is lost.
SendEach(msgs) ==
    recv_queue' = [p \in Client |->
        IF conn_of[p] = NoConn THEN recv_queue[p]
                               ELSE recv_queue[p] \o msgs[conn_of[p]]]

\* The registry part of the handler of the sync_init that the ws thread of c's
\* owner sent first: c becomes member id.
OwnName(c) == MemberName[owner[c]]
syncInit(c, id) ==
    /\ id \in AssignableId(c, OwnName(c))
    /\ registerClient(c, OwnName(c), id)
    /\ UNCHANGED conn_of

\* The server finds that c is closed.
onClose(c) == removeClient(c) /\ UNCHANGED conn_of

\* The application takes one batch of the given kind from recv_queue.
Take(p, kind) ==
    /\ recv_queue[p] # <<>>
    /\ Head(recv_queue[p]).kind = kind
    /\ recv_queue' = [recv_queue EXCEPT ![p] = Tail(@)]
    /\ UNCHANGED <<storeVars, conn_of>>
============================================================================
