------------------------------- MODULE Views --------------------------------
(***************************************************************************)
(* Views and canvases on their way from the client that shows them, the    *)
(* publisher, to the clients that follow them.  They travel as differences *)
(* (packSyncData), which the server puts together to answer requests and   *)
(* passes on (the view and canvas cases of MemberData::onRecv), and which  *)
(* each follower puts together again (ClientData::onRecv).                 *)
(*                                                                         *)
(* The server also speaks the older protocol, in which components have an  *)
(* index in place of an id, with clients that do: publisher and followers  *)
(* may each be of that kind.  Views, 2D and 3D canvases are kept apart by   *)
(* the code everywhere, so a behaviour is about one field of one of them.   *)
(***************************************************************************)
EXTENDS Links, FiniteSets

CONSTANTS Publisher,    \* the client with the field; the others may follow it
          Drawing,      \* what its application may put into the field
          NoId,         \* no id: the empty string
          NoView,       \* nothing in the store
          NoFirst,      \* std::nullopt
          NoMsg,        \* no message about the field
          Unchanged,    \* std::nullopt in place of the ids
          Garbage,      \* what is read where there is nothing
          Protocols,    \* what a behaviour may be about, see kind and old
          MaxShows      \* bound: how often it draws

NoSize == 0

\* A drawing has a size, if it is one of a 2D canvas, and a sequence of components,
\* each of an id, a type and whatever else it shows.  The ids of the application are unique, as
\* docs/82_client_spec.md:34 requires, and so is the name of the publisher
\* (docs/41_client.md:25).
Component == UNION {{d.components[i] : i \in DOMAIN d.components} : d \in Drawing}
ASSUME ViewAssumption ==
    /\ Publisher \in Client /\ MemberName[Publisher] # NoName /\ MaxShows \in Nat
    /\ \A p \in Client \ {Publisher} : MemberName[p] # MemberName[Publisher]
    /\ Protocols \subseteq {"view", "canvas3d", "canvas2d"} \X SUBSET Client
    /\ \A d \in Drawing : d.components \in Seq(Component)
    /\ \A d \in Drawing : \A i, j \in DOMAIN d.components :
          i # j /\ d.components[i].id = d.components[j].id => d.components[i].id = NoId

\* What there can be of a view in a store and in a message.  Lists of the older kind have
\* places for ids.  Special values are none of it.
Size == {NoSize} \cup {d.size : d \in Drawing}
Place == UNION {DOMAIN d.components : d \in Drawing}
Id == {c.id : c \in Component} \cup {NoId} \cup {<<c.type, k - 1>> : c \in Component, k \in Place}
Look == {[type |-> c.type, text |-> c.text] : c \in Component}
Partial(S, T) == UNION {[D -> T] : D \in SUBSET S}
Lists(T) == UNION {[1..k -> T] : k \in {0} \cup Place}

View == [size : Size, components : Partial(Id, Look), data_ids : Lists(Id), n : Nat]
OldView == [size : Size, components : Partial(Place, Look \cup {Garbage}),
            data_ids : Lists(Place), n : Nat]
ViewMsg == [size : Size, diff : Partial(Id, Look), data_ids : Lists(Id) \cup {Unchanged}, n : Nat]
OldViewMsg == [size : Size, diff : Partial(Place, Look \cup {Garbage}),
               length : {0} \cup Place, n : Nat]
ASSUME DistinctAssumption ==
    /\ NoView \notin View \cup OldView /\ NoMsg \notin ViewMsg \cup OldViewMsg
    /\ Unchanged \notin Lists(Id)
    /\ NoFirst \notin [kind : {"first"}, req : BOOLEAN, msg : ViewMsg \cup OldViewMsg \cup {NoMsg}]

VARIABLES
    kind,           \* "view", "canvas3d" or "canvas2d"
    old,            \* the clients that speak the older protocol
    data_send,      \* SyncDataStore2::data_send of the field
    recv_self,      \* SyncDataStore2::data_recv of the client itself
    data_send_prev, \* SyncDataStore2::data_send_prev
    sync_first,     \* SyncData::sync_first
    sync_queue,     \* WsData::sync_queue of the publisher
    sent,           \* sent by the client on a connection, not read by the server
    data,           \* MemberData::view, canvas2d or canvas3d of a connection
    data_req,       \* connections with the field in view_req, view_old_req, ...
    req,            \* the clients that have requested the field
    data_recv,      \* SyncDataStore2::data_recv of the field at a follower
    entry,          \* the clients that have the entry of the field
    shown,          \* history: the pictures that sync() has taken
    leftover,       \* history: what sync_queue still has of earlier connections
    trusted         \* history: no data of an earlier connection was sent on another
                    \*   or read by the server after that

publisherVars == <<data_send, recv_self, data_send_prev, sync_first, sync_queue,
                   shown, leftover>>
followerVars == <<req, data_recv, entry>>
serverVars == <<data, data_req>>
protocol == <<kind, old>>
viewsVars == <<storeVars, linkVars, protocol, publisherVars, followerVars, sent,
               serverVars, trusted>>

NoMap == [x \in {} |-> 0]

\* message::ViewData, Canvas2DData, Canvas3DData.  n is history: the picture that
\* the last message was about.
ViewData(size, components, ids, n) ==
    [size |-> size, components |-> components, data_ids |-> ids, n |-> n]
Empty == ViewData(NoSize, NoMap, <<>>, 0)

\* Messages about the field, as the publisher sends them and the server passes them
\* on: data_ids may be Unchanged.  The older ones have a length in their place.
Msg(size, diff, ids, n) == [size |-> size, diff |-> diff, data_ids |-> ids, n |-> n]
OldMsg(size, diff, length, n) ==
    [size |-> size, diff |-> diff, length |-> length, n |-> n]

\* What a view shows.  tryGet looks an id up without asking whether it is there.
At(map, k) == IF k \in DOMAIN map THEN map[k] ELSE Garbage
Picture(v) == [i \in DOMAIN v.data_ids |-> At(v.components, v.data_ids[i])]

ViewsInit ==
    /\ LinkInit
    /\ \E pr \in Protocols : kind = pr[1] /\ old = pr[2]
    /\ data_send = <<>> /\ recv_self = NoView /\ data_send_prev = NoView
    /\ sync_first = NoFirst /\ sync_queue = <<>>
    /\ sent = [c \in Conn |-> <<>>]
    /\ data = [c \in Conn |-> NoView] /\ data_req = {}
    /\ req = {} /\ data_recv = [p \in Client |-> NoView] /\ entry = {}
    /\ shown = <<>> /\ leftover = 0 /\ trusted = TRUE

----------------------------------------------------------------------------
(* The publisher.                                                          *)

\* lockTmp: a component without an id gets one from its type and how many of that
\* type come before it, whether these have ids or not.
lockTmp(components, i) ==
    LET c == components[i] IN
    IF c.id # NoId THEN c.id
    ELSE <<c.type, Cardinality({j \in 1..(i - 1) : components[j].type = c.type})>>
Shows(c) == [type |-> c.type, text |-> c.text]

\* onSync: what is in the buffer becomes the data of the field.
onSync(components, size) ==
    LET ids == [i \in DOMAIN components |-> lockTmp(components, i)] IN
    ViewData(size,
             [k \in {ids[i] : i \in DOMAIN ids} |->
                 Shows(components[CHOOSE i \in DOMAIN ids : ids[i] = k])],
             ids, 0)
onSyncView(d) == onSync(d.components, NoSize)
onSyncCanvas3D(d) == onSync(d.components, NoSize)
onSyncCanvas2D(d) == onSync(d.components, d.size)

\* init(), << and sync() of the application on a View or Canvas.
draw(d) ==
    /\ Len(shown) + Len(data_send) < MaxShows
    /\ d.size # NoSize <=> kind = "canvas2d"
    /\ data_send' = Append(data_send, CASE kind = "view"     -> onSyncView(d)
                                        [] kind = "canvas3d" -> onSyncCanvas3D(d)
                                        [] kind = "canvas2d" -> onSyncCanvas2D(d))
    /\ UNCHANGED <<storeVars, linkVars, protocol, recv_self, data_send_prev,
                   sync_first, sync_queue, shown, leftover, followerVars, sent,
                   serverVars, trusted>>

\* transferSend and getSendPrev.
Changed == data_send # <<>>
Latest == IF Changed THEN data_send[Len(data_send)] ELSE recv_self
transferSend(is_first) ==
    /\ data_send' = <<>> /\ recv_self' = Latest
    /\ data_send_prev' = IF is_first \/ Changed THEN Latest ELSE NoView
    /\ shown' = IF Changed THEN Append(shown, Picture(Latest)) ELSE shown

\* packSyncData: the components that are new or differ, and the ids if they differ
\* from before; nothing if there are neither.
diff(prev, now, size, n) ==
    LET before == IF prev = NoView THEN NoMap ELSE prev.components
        differs(k) == k \in DOMAIN before => before[k] # now.components[k]
        v_diff == {k \in DOMAIN now.components : differs(k)}
        same == prev # NoView /\ prev.data_ids = now.data_ids
    IN IF v_diff = {} /\ same THEN NoMsg
       ELSE Msg(size, [k \in v_diff |-> now.components[k]],
                IF same THEN Unchanged ELSE now.data_ids, n)
diffView(prev, now, n) == diff(prev, now, NoSize, n)
diffCanvas3D(prev, now, n) == diff(prev, now, NoSize, n)
diffCanvas2D(prev, now, n) == diff(prev, now, now.size, n)

\* Clients of the older kind send what has another component at an index.
diffOld(prev, now, n) ==
    LET list == Picture(now)
        before == IF prev = NoView THEN <<>> ELSE Picture(prev)
        v_diff == {i \in DOMAIN list : i \in DOMAIN before => before[i] # list[i]}
    IN IF v_diff = {} /\ Len(before) = Len(list) THEN NoMsg
       ELSE OldMsg(now.size, [i \in v_diff |-> list[i]], Len(list), n)

Diff(prev, now, n) ==
    IF now = NoView THEN NoMsg
    ELSE CASE Publisher \in old -> diffOld(prev, now, n)
           [] Publisher \notin old /\ kind = "view" -> diffView(prev, now, n)
           [] Publisher \notin old /\ kind = "canvas3d" -> diffCanvas3D(prev, now, n)
           [] Publisher \notin old /\ kind = "canvas2d" -> diffCanvas2D(prev, now, n)

\* A defect that the properties exclude: the first message has only what has changed.
FirstMsg(p, msg) == [kind |-> "first", req |-> p \in req, msg |-> msg]
FirstDiff == FirstMsg(Publisher, Diff(data_send_prev, Latest, Len(shown')))

\* What sync() takes, as a message: the first one has all requests and all data, the
\* others what has been drawn since the last.
First == FirstMsg(Publisher, Diff(NoView, Latest, Len(shown')))
DataMsg(msg) == [kind |-> "data", msg |-> msg]
Snapshot == DataMsg(IF Changed THEN Diff(data_send_prev, Latest, Len(shown'))
                               ELSE NoMsg)
ReqMsg == [kind |-> "req"]

\* Client::sync: sync_first if there is no connection and it is not there yet, else
\* a snapshot.
sync ==
    /\ IF conn_of[Publisher] = NoConn /\ sync_first = NoFirst
       THEN /\ transferSend(TRUE)
            /\ sync_first' = First
            /\ leftover' = Len(sync_queue) /\ UNCHANGED sync_queue
       ELSE /\ transferSend(FALSE)
            /\ sync_queue' = IF Snapshot.msg = NoMsg THEN sync_queue
                             ELSE Append(sync_queue, Snapshot)
            /\ UNCHANGED <<sync_first, leftover>>
    /\ UNCHANGED <<storeVars, linkVars, protocol, followerVars, sent, serverVars,
                   trusted>>

\* The ws thread sends what is in sync_queue; ClientSync has the details.
sendQueue ==
    LET c == conn_of[Publisher] IN
    /\ c # NoConn /\ sync_queue # <<>>
    /\ sent' = [sent EXCEPT ![c] = @ \o sync_queue]
    /\ sync_queue' = <<>>
    /\ leftover' = 0 /\ trusted' = (trusted /\ leftover = 0)
    /\ UNCHANGED <<storeVars, linkVars, protocol, data_send, recv_self,
                   data_send_prev, sync_first, shown, followerVars, serverVars>>

----------------------------------------------------------------------------
(* Connections.                                                            *)

\* The connection is made, and sync_first, or what it would be now, sent on it.
Connect(p, c) ==
    /\ connect(p, c)
    /\ IF p = Publisher /\ sync_first = NoFirst
       THEN /\ transferSend(TRUE)
            /\ sync_first' = First
            /\ leftover' = Len(sync_queue) /\ UNCHANGED sync_queue
       ELSE UNCHANGED publisherVars
    /\ sent' = [sent EXCEPT ![c] =
                   <<IF p = Publisher THEN sync_first' ELSE FirstMsg(p, NoMsg)>>]
    /\ UNCHANGED <<protocol, followerVars, serverVars, trusted>>

\* The connection is lost, and with it some of the last messages.
Disconnect(p) ==
    /\ disconnect(p)
    /\ \E k \in 0..Len(sent[conn_of[p]]) :
          sent' = [sent EXCEPT ![conn_of[p]] = SubSeq(@, 1, k)]
    /\ sync_first' = IF p = Publisher THEN NoFirst ELSE sync_first
    /\ UNCHANGED <<protocol, data_send, recv_self, data_send_prev, sync_queue, shown,
                   leftover, followerVars, serverVars, trusted>>

----------------------------------------------------------------------------
(* The followers.                                                          *)

\* request() of the others: the field is added to the requests, and to the ones that
\* the server has if there is a connection.
request(p) ==
    /\ p # Publisher /\ p \notin req
    /\ req' = req \cup {p}
    /\ sent' = IF conn_of[p] = NoConn THEN sent
               ELSE [sent EXCEPT ![conn_of[p]] = Append(@, ReqMsg)]
    /\ UNCHANGED <<storeVars, linkVars, protocol, publisherVars, data_recv, entry,
                   serverVars, trusted>>

\* The data v with the message m written over it, in a client and in the server.
\* Components that are in no order any more are not erased.
Merge(v, m, size) ==
    ViewData(size, Overwrite(v.components, m.diff),
             IF m.data_ids = Unchanged THEN v.data_ids ELSE m.data_ids, m.n)

\* The res cases of onRecv.
resView(v, m) == Merge(v, m, NoSize)
resCanvas3D(v, m) == Merge(v, m, NoSize)
resCanvas2D(v, m) == Merge(v, m, m.size)

\* Clients of the older kind keep a list.
resOld(v, m) == ViewData(m.size, Overwrite(v.components, m.diff),
                         [i \in 1..m.length |-> i], m.n)

Received(p, v, m) ==
    LET prev == IF v = NoView THEN Empty ELSE v IN
    CASE p \in old -> resOld(prev, m)
      [] p \notin old /\ kind = "view" -> resView(prev, m)
      [] p \notin old /\ kind = "canvas3d" -> resCanvas3D(prev, m)
      [] p \notin old /\ kind = "canvas2d" -> resCanvas2D(prev, m)

\* What one callback of the server packs for one client arrives as one batch: that
\* the publisher is initialised, the entry of its field, and the data.
Batch(init, hasEntry, res) == [init |-> init, entry |-> hasEntry, res |-> res]
EmptyBatch == Batch(FALSE, FALSE, NoMsg)

\* onRecv of the client: sync_init (initMember), entry and res.
Recv(p) ==
    LET m == Head(recv_queue[p])
        v == IF m.init THEN NoView ELSE data_recv[p]
    IN
    /\ recv_queue[p] # <<>>
    /\ recv_queue' = [recv_queue EXCEPT ![p] = Tail(@)]
    /\ data_recv' = [data_recv EXCEPT ![p] =
                        IF m.res = NoMsg THEN v ELSE Received(p, v, m.res)]
    /\ entry' = IF m.entry THEN entry \cup {p}
                ELSE IF m.init THEN entry \ {p} ELSE entry
    /\ UNCHANGED <<storeVars, conn_of, protocol, publisherVars, req, sent, serverVars,
                   trusted>>

----------------------------------------------------------------------------
(* The server: what the data v of the publisher becomes with the message m, *)
(* and what those who follow it are sent for it, in both protocols.         *)

Served(now, res, oldRes) == [now |-> now, res |-> res, oldRes |-> oldRes]

\* A defect that the properties exclude: the order of the components is passed on
\* only once.
PutOrderOnce(v, m, size) ==
    LET now == Merge(v, m, size) IN
    Served(now, Msg(size, m.diff, IF v = Empty THEN m.data_ids ELSE Unchanged, m.n),
           OldMsg(size, Picture(now), Len(now.data_ids), m.n))

Put(v, m, size) ==
    LET now == Merge(v, m, size)
        moved(i) == m.data_ids # Unchanged
                    /\ (i \in DOMAIN v.data_ids => v.data_ids[i] # now.data_ids[i])
        old_diff == {i \in DOMAIN now.data_ids :
                        /\ now.data_ids[i] \in DOMAIN m.diff \/ moved(i)
                        /\ now.data_ids[i] \in DOMAIN now.components}
    IN Served(now, Msg(size, m.diff, m.data_ids, m.n),
              OldMsg(size, [i \in old_diff |-> now.components[now.data_ids[i]]],
                     Len(now.data_ids), m.n))
view(v, m) == Put(v, m, NoSize)
canvas3d(v, m) == Put(v, m, NoSize)
canvas2d(v, m) == Put(v, m, m.size)

\* The older messages: each component gets an id from its type and how many of that
\* type come before it in the message.  The length is not looked at.
PutOld(v, m, size) ==
    LET id(i) == <<m.diff[i].type,
                   Cardinality({j \in DOMAIN m.diff : j < i /\ m.diff[j].type
                                                              = m.diff[i].type})>>
        new_diff == [k \in {id(i) : i \in DOMAIN m.diff} |->
                        m.diff[CHOOSE i \in DOMAIN m.diff : id(i) = k]]
        last == CHOOSE n \in DOMAIN v.data_ids \cup DOMAIN m.diff \cup {0} :
                   \A i \in DOMAIN v.data_ids \cup DOMAIN m.diff : i <= n
        ids == [i \in 1..last |-> IF i \in DOMAIN m.diff THEN id(i)
                                  ELSE IF i \in DOMAIN v.data_ids THEN v.data_ids[i]
                                  ELSE NoId]
    IN Served(ViewData(size, Overwrite(v.components, new_diff), ids, m.n),
              Msg(size, new_diff, ids, m.n), OldMsg(size, m.diff, last, m.n))
view_old(v, m) == PutOld(v, m, NoSize)
canvas3d_old(v, m) == PutOld(v, m, NoSize)
canvas2d_old(v, m) == PutOld(v, m, m.size)

Serve(v, m) ==
    LET prev == IF v = NoView THEN Empty ELSE v IN
    IF Publisher \in old
    THEN CASE kind = "view" -> view_old(prev, m)
           [] kind = "canvas3d" -> canvas3d_old(prev, m)
           [] kind = "canvas2d" -> canvas2d_old(prev, m)
    ELSE CASE kind = "view" -> view(prev, m)
           [] kind = "canvas3d" -> canvas3d(prev, m)
           [] kind = "canvas2d" -> canvas2d(prev, m)

\* The answer to a request, from the data v.
Answer(v, size) == Msg(size, v.components, v.data_ids, v.n)
AnswerOld(v, size) == OldMsg(size, Picture(v), Len(v.data_ids), v.n)
reqView(v) == Answer(v, NoSize)
reqCanvas3D(v) == Answer(v, NoSize)
reqCanvas2D(v) == Answer(v, v.size)
reqViewOld(v) == AnswerOld(v, NoSize)
reqCanvas3DOld(v) == AnswerOld(v, NoSize)
reqCanvas2DOld(v) == AnswerOld(v, v.size)

\* findAndDo: the publisher's data, if it is initialised and has some.
PublisherName == MemberName[Publisher]
Known == FoundName(PublisherName) # {}
Current == IF Known THEN data[EntryOf(PublisherName)] ELSE NoView

Answered(p) ==
    IF Current = NoView THEN NoMsg
    ELSE IF p \in old
    THEN CASE kind = "view" -> reqViewOld(Current)
           [] kind = "canvas3d" -> reqCanvas3DOld(Current)
           [] kind = "canvas2d" -> reqCanvas2DOld(Current)
    ELSE CASE kind = "view" -> reqView(Current)
           [] kind = "canvas3d" -> reqCanvas3D(Current)
           [] kind = "canvas2d" -> reqCanvas2D(Current)

----------------------------------------------------------------------------
(* The server: callbacks.                                                  *)

Read(c, k) ==
    /\ c \in clients
    /\ sent[c] # <<>>
    /\ Head(sent[c]).kind = k
    /\ sent' = [sent EXCEPT ![c] = Tail(@)]

OneBatch(b) == IF b = EmptyBatch THEN <<>> ELSE <<b>>

\* What d is told of the message m of c.
News(c, d, m) ==
    LET s == Serve(data[c], m) IN
    Batch(FALSE, data[c] = NoView /\ owner[d] # Publisher,
          IF d \notin data_req THEN NoMsg
          ELSE IF owner[d] \in old THEN s.oldRes ELSE s.res)

ServeData(c) ==
    LET m == Head(sent[c]).msg IN
    /\ Read(c, "data") /\ sync_init[c]
    /\ data' = [data EXCEPT ![c] = Serve(@, m).now]
    /\ SendEach([d \in Conn |-> IF d \in ForEach THEN OneBatch(News(c, d, m)) ELSE <<>>])
    /\ trusted' = (trusted /\ clients_by_id[member_id[c]] = c)
    /\ UNCHANGED <<storeVars, conn_of, protocol, publisherVars, followerVars, data_req>>

ServeReq(c) ==
    /\ Read(c, "req") /\ sync_init[c]
    /\ data_req' = data_req \cup {c}
    /\ SendEach([d \in Conn |-> IF d # c THEN <<>>
                   ELSE OneBatch(Batch(FALSE, FALSE, Answered(owner[c])))])
    /\ UNCHANGED <<storeVars, conn_of, protocol, publisherVars, followerVars, data,
                   trusted>>

\* The publisher's connections are initialised in their order, as far as can be seen
\* from which one it holds.
InOrder(c) == \/ c = conn_of[Publisher]
              \/ \A d \in Conn \ {c} : owner[d] = Publisher => ~sync_init[d]

\* The first message: sync_init, which the others are told of and which is answered
\* with what there is, then the request, then the data.
SyncInit(c) ==
    LET m == Head(sent[c])
        known == Known
        hasData == Current # NoView
    IN
    /\ Read(c, "first")
    /\ \E id \in AssignableId(c, OwnName(c)) : syncInit(c, id)
    /\ data_req' = IF m.req THEN data_req \cup {c} ELSE data_req
    /\ data' = IF m.msg = NoMsg THEN data
               ELSE [data EXCEPT ![c] = Serve(@, m.msg).now]
    /\ SendEach([d \in Conn |->
          IF owner[c] # Publisher
          THEN IF d # c THEN <<>>
               ELSE OneBatch(Batch(known, hasData,
                                   IF m.req THEN Answered(owner[c]) ELSE NoMsg))
          ELSE IF d = c \/ d \notin ForEach \/ owner[d] = Publisher THEN <<>>
          ELSE <<[IF m.msg = NoMsg THEN EmptyBatch ELSE News(c, d, m.msg)
                     EXCEPT !.init = TRUE]>>])
    /\ trusted' = (trusted /\ (owner[c] = Publisher => InOrder(c)))
    /\ UNCHANGED <<protocol, publisherVars, followerVars>>

Close(c) ==
    /\ onClose(c)
    /\ UNCHANGED <<recv_queue, protocol, publisherVars, followerVars, sent,
                   serverVars, trusted>>

----------------------------------------------------------------------------
ViewsNext ==
    \/ \E d \in Drawing : draw(d)
    \/ sync \/ sendQueue
    \/ \E p \in Client : request(p) \/ Disconnect(p) \/ Recv(p)
    \/ \E p \in Client, c \in Conn : Connect(p, c)
    \/ \E c \in Conn : SyncInit(c) \/ ServeData(c) \/ ServeReq(c) \/ Close(c)

ViewsSpec == ViewsInit /\ [][ViewsNext]_viewsVars

----------------------------------------------------------------------------
(* Properties.                                                             *)

\* What the application has drawn, without the ids.
Pictures ==
    {[i \in DOMAIN d.components |-> Shows(d.components[i])] : d \in Drawing}

\* Types; no client has an entry of its own field, and what is left over of earlier
\* connections is part of the queue.
ViewDataOK(v) ==
    v # NoView => v.n \in 0..Len(shown) /\ DOMAIN v.data_ids = 1..Len(v.data_ids)
ViewsTypeOK ==
    /\ LinkTypeOK
    /\ <<kind, old>> \in Protocols
    /\ shown \in Seq(Pictures) /\ trusted \in BOOLEAN
    /\ leftover \in 0..Len(sync_queue)
    /\ sync_first = NoFirst => conn_of[Publisher] = NoConn
    /\ data_req \subseteq {c \in Conn : owner[c] # Publisher}
    /\ req \subseteq Client \ {Publisher} /\ entry \subseteq Client \ {Publisher}
    /\ ViewDataOK(recv_self) /\ ViewDataOK(data_send_prev)
    /\ \A c \in Conn : ViewDataOK(data[c])
    /\ \A p \in Client : ViewDataOK(data_recv[p])

\* What is shown of the data v, if there is any.
Seen(v) == IF v = NoView THEN NoView ELSE Picture(v)

\* The server has read what the client p sent and p has processed what the server
\* sent.
Settled(p) ==
    /\ conn_of[p] \in clients /\ sync_init[conn_of[p]]
    /\ sent[conn_of[p]] = <<>> /\ recv_queue[p] = <<>>

\* The server puts the differences together to what the publisher has last shown,
\* although the first message of a connection and those after it start from
\* different data (transferSend and getSendPrev, data_store2.cc:278-306).
Kept ==
    trusted /\ Publisher \notin old /\ Settled(Publisher) /\ sync_queue = <<>> =>
        Seen(data[conn_of[Publisher]]) = Seen(recv_self)

\* A follower shows what the server has, in either protocol, whichever of request
\* and data came first and whoever has reconnected, and has the entry of the field
\* (the view, canvas3d and canvas2d cases of member_data.cc and
\* client_msg_recv.cc).
Followed ==
    \A p \in Client \ {Publisher} :
        trusted /\ Settled(p) /\ (Publisher \in old => p \notin old) =>
            /\ p \in req => Seen(data_recv[p]) = Seen(Current)
            /\ p \in entry <=> Current # NoView

\* What is shown goes from the publisher to the server and on to the followers, as
\* differences in one protocol or the other: the two above.
ViewsAgree == Kept /\ Followed

\* A follower never shows anything but what the application has drawn, whole and in
\* order: no difference is put together with what it was not made from.
Mirror == INSTANCE ViewMirror WITH
    Follower <- Client \ {Publisher}, Pictures <- Pictures, Nothing <- NoView,
    seen <- [p \in Client \ {Publisher} |-> Seen(data_recv[p])],
    at <- [p \in Client \ {Publisher} |->
              IF data_recv[p] = NoView THEN 0 ELSE data_recv[p].n],
    trusted <- trusted /\ Publisher \notin old
Mirrors == Mirror!MirrorSpec

----------------------------------------------------------------------------
(* A statement of the repository that the code does not satisfy.           *)

\* Every id in the order has a component (message/view.h:52-56): tryGet and the
\* answer to a request of the older kind take it for granted.
IdsHaveComponents ==
    /\ \A c \in Conn : data[c] # NoView =>
          \A i \in DOMAIN data[c].data_ids :
             data[c].data_ids[i] \in DOMAIN data[c].components
    /\ \A p \in Client : data_recv[p] # NoView =>
          \A i \in DOMAIN data_recv[p].data_ids :
             data_recv[p].data_ids[i] \in DOMAIN data_recv[p].components
----------------------------------------------------------------------------
(* The inductive strengthening of ViewsAgree.                               *)

\* What the publisher has is whole: every id has a component.
WholeView == {v \in View : \A i \in DOMAIN v.data_ids : v.data_ids[i] \in DOMAIN v.components}
FromPublisher ==
    IF Publisher \in old THEN {m \in OldViewMsg : \A i \in DOMAIN m.diff : i <= m.length /\ m.diff[i] \in Look}
                         ELSE ViewMsg
PublisherMsg == [kind : {"first"}, req : {FALSE}, msg : FromPublisher \cup {NoMsg}]
                    \cup [kind : {"data"}, msg : FromPublisher]
FollowerMsg == [kind : {"first"}, req : BOOLEAN, msg : {NoMsg}] \cup [kind : {"req"}]
ResFor(p) == {NoMsg} \cup (IF p \in old THEN OldViewMsg ELSE ViewMsg)
BatchFor(p) == [init : BOOLEAN, entry : BOOLEAN, res : ResFor(p)]

ViewsTypes ==
    /\ LinkTypeOK /\ <<kind, old>> \in Protocols
    /\ data_send \in Seq(WholeView) /\ shown \in Seq(Lists(Look))
    /\ recv_self \in WholeView \cup {NoView} /\ data_send_prev \in {NoView, recv_self}
    /\ sync_first \in {NoFirst} \cup PublisherMsg /\ sync_queue \in Seq(PublisherMsg)
    /\ sync_first # NoFirst => sync_first.kind = "first"
    /\ conn_of[Publisher] # NoConn => sync_first # NoFirst
    /\ leftover \in 0 .. Len(sync_queue)
    /\ DOMAIN sent = Conn
    /\ \A c \in Conn : sent[c] \in Seq(IF owner[c] = Publisher THEN PublisherMsg ELSE FollowerMsg)
    /\ data \in [Conn -> View \cup {NoView}]
    /\ \A c \in Conn : kind # "canvas2d" /\ data[c] # NoView => data[c].size = NoSize
    /\ DOMAIN data_recv = Client /\ DOMAIN recv_queue = Client
    /\ \A p \in Client : /\ recv_queue[p] \in Seq(BatchFor(p))
                         /\ data_recv[p] \in {NoView} \cup (IF p \in old THEN OldView ELSE View)
    /\ data_req \subseteq Conn /\ req \subseteq Client \ {Publisher} /\ trusted \in BOOLEAN

\* A connection has its data and requests since its first message; until there has been one
\* of the publisher, nobody is told of anything.
Begun ==
    /\ \A c \in Conn : ~sync_init[c] => data[c] = NoView /\ c \notin data_req
    /\ \A c \in Conn : sync_init[c] => name[c] = OwnName(c)
    /\ \A c \in Conn : owner[c] # Publisher => data[c] = NoView
    /\ ~Known => \A p \in Client \ {Publisher} :
                     recv_queue[p] = <<>> /\ data_recv[p] = NoView /\ p \notin entry

\* What a follower has requested is requested on its connection, or will be.
Requested ==
    \A p \in req : conn_of[p] # NoConn =>
        \/ conn_of[p] \in data_req
        \/ \E i \in DOMAIN sent[conn_of[p]] :
              LET m == sent[conn_of[p]][i] IN m.kind = "req" \/ (m.kind = "first" /\ m.req)

\* What the server has of the publisher after a message, and the data s[i] that it has after
\* message i of q.
Puts(v, m) == IF m.msg = NoMsg THEN v ELSE Serve(v, m.msg).now
Becomes(v, q, s) == s[0] = v /\ \A i \in 1 .. Len(q) : s[i] = Puts(s[i - 1], q[i])

\* v has the components of w in their order, and maybe others that are not seen any more.
Carries(v, w) ==
    /\ v = NoView <=> w = NoView
    /\ w # NoView => /\ v.data_ids = w.data_ids
                     /\ \A k \in DOMAIN w.components :
                           k \in DOMAIN v.components /\ v.components[k] = w.components[k]

\* With the messages of q, the server has views that are whole, and in the end what the
\* publisher has.
Wholly(v, q, s) == Becomes(v, q, s) /\ \A i \in 0 .. Len(q) : s[i] \in WholeView \cup {NoView}
Brings(v, q) == \E s : Wholly(v, q, s) /\ Carries(s[Len(q)], recv_self)
Rest == SubSeq(sync_queue, leftover + 1, Len(sync_queue))
WillKeep ==
    trusted /\ Publisher \notin old =>
        /\ \A c \in Conn : owner[c] = Publisher => \E s : Wholly(data[c], sent[c], s)
        /\ conn_of[Publisher] # NoConn =>
              Brings(data[conn_of[Publisher]], sent[conn_of[Publisher]] \o Rest)
        /\ conn_of[Publisher] = NoConn /\ sync_first # NoFirst =>
              Brings(NoView, <<sync_first>> \o Rest)

\* The same of a follower and the batches on their way to it.
Has(p) == [view |-> data_recv[p], entry |-> p \in entry]
Reads(p, x, b) ==
    LET v == IF b.init THEN NoView ELSE x.view IN
    [view |-> IF b.res = NoMsg THEN v ELSE Received(p, v, b.res),
     entry |-> b.entry \/ (~b.init /\ x.entry)]
Follows(p, x, q, s) == s[0] = x /\ \A i \in 1 .. Len(q) : s[i] = Reads(p, s[i - 1], q[i])

\* What a follower has of w: in the older protocol, a list of its components.
Copies(p, u, w) ==
    IF p \notin old THEN u = w
    ELSE /\ u \in OldView \cup {NoView} /\ (u = NoView <=> w = NoView)
         /\ w # NoView => /\ u.data_ids = [i \in 1 .. Len(w.data_ids) |-> i]
                          /\ \A i \in DOMAIN w.data_ids :
                                /\ i \in DOMAIN u.components
                                /\ u.components[i] = At(w.components, w.data_ids[i])
UpToDate(p, x) ==
    /\ x.entry <=> Current # NoView
    /\ Copies(p, x.view, IF conn_of[p] \in data_req THEN Current ELSE NoView)
WillShow(p) ==
    \E s : /\ Follows(p, Has(p), recv_queue[p], s)
           /\ conn_of[p] \in ForEach /\ (Publisher \in old => p \notin old) =>
                 UpToDate(p, s[Len(recv_queue[p])])
WillFollow == trusted => \A p \in Client \ {Publisher} : WillShow(p)

ViewsInv == StoreInv /\ ViewsTypes /\ Begun /\ Requested /\ WillKeep /\ WillFollow
============================================================================
