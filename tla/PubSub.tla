------------------------------- MODULE PubSub -------------------------------
(***************************************************************************)
(* Data on its way from one client to another: what a client has set, what *)
(* others have requested of it, and the server, which keeps the last value *)
(* of every field and passes each new one on (the value, sync and request  *)
(* cases of MemberData::onRecv, findReqField, hasReq; the res and entry     *)
(* cases of ClientData::onRecv; SyncDataStore2).                           *)
(*                                                                         *)
(* One kind of data stands for values, texts and robot models, whose cases *)
(* are the same.  How messages get from a client to the server is reduced  *)
(* to what ClientSync shows of it: the first message of a connection has   *)
(* all data and all requests, and what changes later follows in order.     *)
(***************************************************************************)
EXTENDS Links, SequencesExt

CONSTANTS Field,        \* fields, as sequences of words: a.b is <<1, 2>>
          Published,    \* Client -> SUBSET SUBSET Field: what its application sets
                        \*   at a time
          Wanted,       \* Client -> SUBSET (Name \X Field): what it requests
          MaxWrites,    \* bounds: calls of sync() by each client,
          MaxFrees      \*   calls of free() by each client

\* The words of a field, in the order of their spelling; 0 is the empty word, with
\* which hidden fields begin.
Word == Nat

Suffix(f, g) == SubSeq(g, Len(f) + 1, Len(g))

\* Every name is one word or more (the empty one is <<0>>).
ASSUME FieldAssumption == Field \subseteq Seq(Word) \ {<<>>} /\ IsFiniteSet(Field)
ASSUME PubSubAssumption ==
    /\ Published \in [Client -> SUBSET SUBSET Field]
    /\ Wanted \in [Client -> SUBSET (Name \X Field)]
    /\ \A p \in Client : IsFiniteSet(Wanted[p]) /\ \A k \in Wanted[p] : k[1] # MemberName[p]
    /\ MaxWrites \in [Client -> Nat] /\ MaxFrees \in [Client -> Nat]

VARIABLES
    own,            \* SyncDataStore2::data_recv of the client's own fields
    req,            \* SyncDataStore2::req: <<member, field>> -> id
    data_recv,      \* SyncDataStore2::data_recv: <<member, field>> -> value
    entry,          \* SyncDataStore2::entry: {<<member, field>>}
    sync_time,      \* sync_time_store: member -> time
    sent,           \* sent by the client on a connection, not read by the server
    value,          \* MemberData::value: field -> value
    value_req,      \* MemberData::value_req: <<member, field>> -> id
    writes, frees,  \* calls of sync() and of free() so far
    given,          \* history: {<<id, <<member, field>>>>}, the ids of each field so far
    mixed           \* history: names whose data the server has also read from a
                    \*   connection other than the one their entry is about

clientVars == <<own, req, data_recv, entry, sync_time, writes, frees, given>>
serverVars == <<value, value_req, mixed>>
pubSubVars == <<storeVars, linkVars, clientVars, sent, serverVars>>

\* A value is known by the field it was set for and the sync() that sent it, whose
\* number is also its time.  0 is the time of no sync: last_sync_time of the server
\* is never assigned.
Val(f, n) == [field |-> f, n |-> n]
last_sync_time == 0

\* Messages to the server.
FirstMsg(reqs, data, time) ==
    [kind |-> "first", req |-> reqs, data |-> data, time |-> time]
SyncMsg(data, time) == [kind |-> "sync", data |-> data, time |-> time]
ReqMsg(k, id) == [kind |-> "req", key |-> k, id |-> id]

\* What one callback of the server packs for one client arrives as one batch.
Batch(inits, entries, syncs, res) ==
    [init |-> inits, entry |-> entries, sync |-> syncs, res |-> res]
EmptyBatch == Batch({}, {}, <<>>, {})
Res(id, sub, val) == [id |-> id, sub |-> sub, val |-> val]

NoMap == [x \in {} |-> 0]

PubSubInit ==
    /\ LinkInit
    /\ own = [p \in Client |-> NoMap] /\ req = [p \in Client |-> NoMap]
    /\ data_recv = [p \in Client |-> NoMap] /\ entry = [p \in Client |-> {}]
    /\ sync_time = [p \in Client |-> NoMap]
    /\ writes = [p \in Client |-> 0] /\ frees = [p \in Client |-> 0]
    /\ given = [p \in Client |-> {}]
    /\ sent = [c \in Conn |-> <<>>]
    /\ value = [c \in Conn |-> NoMap] /\ value_req = [c \in Conn |-> NoMap]
    /\ mixed = {}

\* The order of the maps whose keys are fields.
Before(f, g) ==
    \/ IsStrictPrefix(f, g)
    \/ \E i \in DOMAIN f \cap DOMAIN g :
          f[i] < g[i] /\ SubSeq(f, 1, i - 1) = SubSeq(g, 1, i - 1)
FirstOf(S) == CHOOSE f \in S : \A g \in S \ {f} : Before(f, g)
LastOf(S) == CHOOSE f \in S : \A g \in S \ {f} : Before(g, f)

Without(map, keys) == [k \in DOMAIN map \ keys |-> map[k]]

----------------------------------------------------------------------------
(* The client.                                                             *)

SendToServer(p, m) ==
    sent' = IF conn_of[p] = NoConn THEN sent
            ELSE [sent EXCEPT ![conn_of[p]] = Append(@, m)]

\* The fields F are set and sent with sync(); without a connection they are part
\* of the next first message.
sync(p, F) ==
    LET n == writes[p] + 1
        data == [f \in F |-> Val(f, n)]
    IN
    /\ n <= MaxWrites[p]
    /\ own' = [own EXCEPT ![p] = Overwrite(@, data)]
    /\ writes' = [writes EXCEPT ![p] = n]
    /\ SendToServer(p, SyncMsg(data, n))
    /\ UNCHANGED <<storeVars, linkVars, req, data_recv, entry, sync_time, frees,
                   given, serverVars>>

\* addReq gives an id above all that are in use ...
maxReq(p) == LET ids == {req[p][k] : k \in DOMAIN req[p]} IN
             IF ids = {} THEN 0 ELSE CHOOSE i \in ids : \A j \in ids : j <= i
addReq(p, k, id) ==
    /\ req' = [req EXCEPT ![p] = Overwrite(@, [x \in {k} |-> id])]
    /\ given' = [given EXCEPT ![p] = @ \cup {<<id, k>>}]

\* ... and request sends it, unless the field has been requested before.
request(p, k) ==
    LET id == maxReq(p) + 1 IN
    /\ k \in DOMAIN req[p] => req[p][k] = 0
    /\ addReq(p, k, id)
    /\ SendToServer(p, ReqMsg(k, id))
    /\ UNCHANGED <<storeVars, linkVars, own, data_recv, entry, sync_time, writes,
                   frees, serverVars>>

\* free: unsetRecv forgets the value and the request, of which the server is not
\* told.  For a field not requested req[from][name] > 0 leaves a request 0 behind.
free(p, k) ==
    /\ frees[p] < MaxFrees[p]
    /\ frees' = [frees EXCEPT ![p] = @ + 1]
    /\ data_recv' = [data_recv EXCEPT ![p] = Without(@, {k})]
    /\ IF k \in DOMAIN req[p] /\ req[p][k] > 0
       THEN req' = [req EXCEPT ![p] = Without(@, {k})] /\ UNCHANGED given
       ELSE addReq(p, k, 0)
    /\ UNCHANGED <<storeVars, linkVars, own, entry, sync_time, writes, sent, serverVars>>

\* The connection is made, and sync_first sent on it.
Connect(p, c) ==
    /\ connect(p, c)
    /\ sent' = [sent EXCEPT ![c] = <<FirstMsg(req[p], own[p], writes[p])>>]
    /\ UNCHANGED <<clientVars, serverVars>>

\* The connection is lost, and with it some of the last messages.
Disconnect(p) ==
    /\ disconnect(p)
    /\ \E k \in 0..Len(sent[conn_of[p]]) :
          sent' = [sent EXCEPT ![conn_of[p]] = SubSeq(@, 1, k)]
    /\ UNCHANGED <<clientVars, serverVars>>

\* getReq: the field that a result is for, or the empty one of no member.  Only
\* requests that are 0 can have the same id at a time.
getReq(p, r) ==
    LET ks == {k \in DOMAIN req[p] : req[p][k] = r.id}
        k == CHOOSE x \in ks : TRUE
    IN IF ks = {} THEN <<NoName, <<>>>> ELSE <<k[1], k[2] \o r.sub>>

\* onRecv of the client: sync_init (initMember), entry, sync and res.
Recv(p) ==
    LET m == Head(recv_queue[p])
        for(k) == {r \in m.res : getReq(p, r) = k}
        lastFor(k) == LET f == LastOf({r.val.field : r \in for(k)}) IN
                      (CHOOSE r \in for(k) : r.val.field = f).val
    IN
    /\ recv_queue[p] # <<>>
    /\ recv_queue' = [recv_queue EXCEPT ![p] = Tail(@)]
    /\ data_recv' = [data_recv EXCEPT ![p] =
          Overwrite(Without(@, m.init \X Seq(Word)),
                    [k \in {getReq(p, r) : r \in m.res} |-> lastFor(k)])]
    /\ entry' = [entry EXCEPT ![p] = {e \in @ : e[1] \notin m.init} \cup m.entry]
    /\ sync_time' = [sync_time EXCEPT ![p] = Overwrite(@, m.sync)]
    /\ UNCHANGED <<storeVars, conn_of, own, req, writes, frees, given, sent,
                   serverVars>>

----------------------------------------------------------------------------
(* The server.                                                             *)

\* A name that begins with a separator is hidden.
Visible(f) == f[1] # 0 \/ Len(f) = 1

\* hasReq(n) of a member with the requests reqs.
hasReq(reqs, n) == \E k \in DOMAIN reqs : k[1] = n /\ reqs[k] > 0

\* findReqField: the first request of n's that is f or that begins with f and a
\* separator, and what comes after that.
findReqField(reqs, n, f) ==
    LET fs == {k[2] : k \in {x \in DOMAIN reqs : x[1] = n /\ IsPrefix(f, x[2])}} IN
    IF fs = {} THEN [id |-> 0, sub |-> <<>>]
    ELSE [id |-> reqs[<<n, FirstOf(fs)>>], sub |-> Suffix(f, FirstOf(fs))]

\* What a member with the requests reqs is told when n has sent the given data at
\* the given time, of which the fields news are new.
NewData(n, d, reqs, news, data, time) ==
    Batch({},
          IF d = n THEN {} ELSE {<<n, f>> : f \in {g \in news : Visible(g)}},
          IF hasReq(reqs, n) THEN [x \in {n} |-> time] ELSE <<>>,
          {Res(findReqField(reqs, n, f).id, findReqField(reqs, n, f).sub, data[f]) :
              f \in {g \in DOMAIN data : findReqField(reqs, n, g).id > 0}})

\* The answer to the request k: the fields of that name and below it.
Answers(k, id) ==
    IF FoundName(k[1]) = {} THEN {}
    ELSE LET now == value[EntryOf(k[1])] IN
         {Res(id, Suffix(k[2], f), now[f]) : f \in {g \in DOMAIN now : IsPrefix(k[2], g)}}
SyncsFor(ks) ==
    [n \in {k[1] : k \in ks} \cap {m \in Name : FoundName(m) # {}} |-> last_sync_time]

OneBatch(b) == IF b = EmptyBatch THEN <<>> ELSE <<b>>

\* The server reads a message of the given kind from c.
Read(c, kind) ==
    /\ c \in clients
    /\ sent[c] # <<>>
    /\ Head(sent[c]).kind = kind
    /\ sent' = [sent EXCEPT ![c] = Tail(@)]

\* sync, and the value messages that come with it.
ServeSync(c) ==
    LET m == Head(sent[c])
        news == DOMAIN m.data \ DOMAIN value[c]
    IN
    /\ Read(c, "sync") /\ sync_init[c]
    /\ value' = [value EXCEPT ![c] = Overwrite(@, m.data)]
    /\ SendEach([d \in Conn |-> IF d \notin ForEach THEN <<>> ELSE
          OneBatch(NewData(name[c], name[d], value_req[d], news, m.data, m.time))])
    /\ mixed' = IF clients_by_id[member_id[c]] = c THEN mixed
                                                   ELSE mixed \cup {name[c]}
    /\ UNCHANGED <<storeVars, conn_of, clientVars, value_req>>

\* A defect that Relayed excludes: the request is answered once, and not kept.
ServeReqOnce(c) ==
    LET m == Head(sent[c]) IN
    /\ Read(c, "req") /\ sync_init[c]
    /\ SendEach([d \in Conn |-> IF d # c THEN <<>> ELSE
          OneBatch(Batch({}, {}, SyncsFor({m.key}), Answers(m.key, m.id)))])
    /\ UNCHANGED <<storeVars, conn_of, clientVars, serverVars>>

\* A request.  The first one to a member is also answered with a sync.
ServeReq(c) ==
    LET m == Head(sent[c]) IN
    /\ Read(c, "req") /\ sync_init[c]
    /\ value_req' = [value_req EXCEPT ![c] =
                        Overwrite(@, [x \in {m.key} |-> m.id])]
    /\ SendEach([d \in Conn |-> IF d # c THEN <<>> ELSE
          OneBatch(Batch({}, {},
                         IF hasReq(value_req[c], m.key[1]) THEN <<>>
                                                           ELSE SyncsFor({m.key}),
                         Answers(m.key, m.id)))])
    /\ UNCHANGED <<storeVars, conn_of, clientVars, value, mixed>>

\* The entries of the other named members, closed ones included.
Listing(id) ==
    LET others == {i \in ForEachWithName : member_id[clients_by_id[i]] # id} IN
    Batch({name[clients_by_id[i]] : i \in others},
          UNION {{<<name[clients_by_id[i]], f>> :
                     f \in {g \in DOMAIN value[clients_by_id[i]] : Visible(g)}} :
                 i \in others},
          <<>>, {})

\* The first message of c: sync_init, the requests, and the data as in ServeSync.
SyncInit(c) ==
    LET m == Head(sent[c])
        n == OwnName(c)
    IN
    /\ Read(c, "first")
    /\ value' = [value EXCEPT ![c] = m.data]
    /\ value_req' = [value_req EXCEPT ![c] = m.req]
    /\ \E id \in AssignableId(c, n) :
         /\ syncInit(c, id)
         /\ SendEach([d \in Conn |->
              LET new == NewData(n, IF d = c THEN n ELSE name[d], value_req'[d],
                                 DOMAIN m.data, m.data, m.time)
                  told == IF n # NoName /\ d \in ForEach /\ member_id[d] # id
                          THEN {n} ELSE {}
              IN IF d = c
                 THEN <<[Listing(id) EXCEPT
                           !.sync = Overwrite(SyncsFor(DOMAIN m.req), new.sync),
                           !.res = UNION {Answers(k, m.req[k]) : k \in DOMAIN m.req}
                                   \cup new.res]>>
                 ELSE IF d \in ForEach THEN OneBatch([new EXCEPT !.init = told])
                 ELSE <<>>])
    /\ UNCHANGED <<clientVars, mixed>>

\* The server finds that c is closed; that others are told is in Members.
Close(c) ==
    /\ onClose(c)
    /\ UNCHANGED <<recv_queue, clientVars, sent, serverVars>>

----------------------------------------------------------------------------
PubSubNext ==
    \/ \E p \in Client :
          \/ \E F \in Published[p] : sync(p, F)
          \/ \E k \in Wanted[p] : request(p, k) \/ free(p, k)
          \/ \E c \in Conn : Connect(p, c)
          \/ Disconnect(p)
          \/ Recv(p)
    \/ \E c \in Conn : SyncInit(c) \/ ServeSync(c) \/ ServeReq(c) \/ Close(c)

PubSubSpec == PubSubInit /\ [][PubSubNext]_pubSubVars

----------------------------------------------------------------------------
(* Properties.                                                             *)

IsData(d) == /\ IsMap(d, Field, [field : Field, n : Nat])
             /\ \A f \in DOMAIN d : d[f].field = f

\* What client p sends, and what it is sent.
IsReq(p, r) == IsMap(r, Wanted[p], Nat)
ToServer(p, m) ==
    \/ m.kind = "first" /\ IsReq(p, m.req) /\ IsData(m.data) /\ m.time \in Nat
    \/ m.kind = "sync" /\ IsData(m.data) /\ m.time \in Nat
    \/ m.kind = "req" /\ m.key \in Wanted[p] /\ m.id \in Nat
ToClient(p, b) ==
    /\ b.init \subseteq Name /\ b.entry \subseteq (MName \ {MemberName[p]}) \X Field
    /\ IsMap(b.sync, MName, Nat)
    /\ b.res \subseteq [id : Nat, sub : Seq(Word), val : [field : Field, n : Nat]]

\* A sequence of such messages.
IsSequence(q) == Len(q) \in Nat /\ q = [i \in 1 .. Len(q) |-> q[i]]

\* Types; and a client lists no fields of its own as those of another.
PubSubTypeOK ==
    /\ LinkTypeOK
    /\ {DOMAIN own, DOMAIN req, DOMAIN data_recv, DOMAIN entry, DOMAIN sync_time, DOMAIN given,
        DOMAIN recv_queue} = {Client}
    /\ \A p \in Client :
          /\ IsData(own[p]) /\ IsReq(p, req[p])
          /\ DOMAIN data_recv[p] \subseteq MName \X Seq(Word)
          /\ entry[p] \subseteq (MName \ {MemberName[p]}) \X Field
          /\ IsMap(sync_time[p], MName, Nat)
          /\ given[p] \subseteq Nat \X Wanted[p]
          /\ IsSequence(recv_queue[p])
          /\ \A i \in DOMAIN recv_queue[p] : ToClient(p, recv_queue[p][i])
    /\ {DOMAIN value, DOMAIN value_req, DOMAIN sent} = {Conn}
    /\ \A c \in Conn :
          /\ IsData(value[c]) /\ IsReq(owner[c], value_req[c])
          /\ IsSequence(sent[c]) /\ \A i \in DOMAIN sent[c] : ToServer(owner[c], sent[c][i])
          /\ sync_init[c] => name[c] = OwnName(c)
    /\ writes \in [Client -> Nat] /\ frees \in [Client -> Nat]
    /\ mixed \subseteq MName

\* Client p is initialised, the server has read what it sent and p has processed
\* what the server sent.
Settled(p) ==
    /\ conn_of[p] \in clients /\ sync_init[conn_of[p]]
    /\ sent[conn_of[p]] = <<>> /\ recv_queue[p] = <<>>

\* No id has ever been that of two fields, 0 included.
IdsDiffer(p) == \A x, y \in given[p] : x[1] = y[1] => x = y

\* The value of field f that the server has for n.
HasValue(n, f) == FoundName(n) # {} /\ f \in DOMAIN value[EntryOf(n)]
ValueOf(n, f) == value[EntryOf(n)][f]

\* findReqField takes data of a field for a request of one below it, and the client appends
\* once more what that one has in addition: with a request for a.b, the data of a is stored
\* as that of a.b.b.
TakenFor(p, k) ==
    \E q \in Wanted[p], g \in Field :
        q[1] = k[1] /\ IsStrictPrefix(g, q[2]) /\ k[2] = q[2] \o Suffix(g, q[2])

\* A client has the last value of every field it has requested, and of no field
\* that the member does not have any more, whatever connections came and went and
\* whichever came first, data or request (value and req in member_data.cc; res and
\* sync_init in client_msg_recv.cc).  Not of a field that others are taken for, if an id
\* has stood for two fields, or if the server reads old connections of the member after new.
Relayed ==
    \A p \in Client : Settled(p) /\ IdsDiffer(p) =>
        \A k \in DOMAIN req[p] : req[p][k] > 0 /\ k[1] \notin mixed /\ ~TakenFor(p, k) =>
            IF HasValue(k[1], k[2])
            THEN k \in DOMAIN data_recv[p] /\ data_recv[p][k] = ValueOf(k[1], k[2])
            ELSE k \notin DOMAIN data_recv[p]

\* A client knows every field of every other named member except the hidden ones,
\* and no others (docs/43_field.md, Entry).
EntriesKnown ==
    \A p \in Client : Settled(p) =>
        \A n \in Name \ (mixed \cup {MemberName[p]}) : FoundName(n) # {} =>
            {e \in entry[p] : e[1] = n} =
                {<<n, f>> : f \in {g \in DOMAIN value[EntryOf(n)] : Visible(g)}}

\* What a client sees of the others once the messages are delivered: what it has
\* asked for and what there is to ask for, whichever connection either came over
\* and however often the request was freed and made again.
FieldsRelayed == Relayed /\ EntriesKnown

----------------------------------------------------------------------------
(* The inductive strengthening of FieldsRelayed: what a client will know when it has  *)
(* handled the batches q that wait for it.                                            *)

Initialised(p) == conn_of[p] \in clients /\ sync_init[conn_of[p]]

\* What is known of n when the batch j has come stays until the end of q.
Kept(q, n, j) == \A i \in DOMAIN q : i > j => n \notin q[i].init
\* A result is about the field k, as the ids G have been given.
About(G, r, k) == k[2] = r.val.field /\ \E x \in G : x[1] = r.id /\ x[2][1] = k[1]

\* The entry e will be listed, by a client that lists E now; k will have a value, if D
\* have one now; k, requested with the given id, will have the value v.
WillList(q, E, e) ==
    \/ e \in E /\ Kept(q, e[1], 0)
    \/ \E j \in DOMAIN q : e \in q[j].entry /\ Kept(q, e[1], j)
WillHave(q, G, D, k) ==
    \/ k \in D /\ Kept(q, k[1], 0)
    \/ \E j \in DOMAIN q : (\E r \in q[j].res : About(G, r, k)) /\ Kept(q, k[1], j)
WillRead(q, G, recv, k, id, v) ==
    \E j \in {0} \cup DOMAIN q :
        /\ IF j = 0 THEN k \in DOMAIN recv /\ recv[k] = v
           ELSE \E r \in q[j].res : r.id = id /\ r.sub = <<>> /\ r.val = v
        /\ Kept(q, k[1], j)
        /\ \A i \in DOMAIN q : i >= j => \A r \in q[i].res : About(G, r, k) => r.val = v

\* Every id in use is the one of a field, and every result is for a field that has been
\* requested: the value of this or of one below it, or of one above it.
GivenTo(G, map) == \A k \in DOMAIN map : <<map[k], k>> \in G
IdsGiven ==
    /\ \A p \in Client : GivenTo(given[p], req[p])
    /\ \A c \in Conn :
          /\ GivenTo(given[owner[c]], value_req[c])
          /\ \A i \in DOMAIN sent[c] : LET m == sent[c][i] IN
                /\ m.kind = "first" => GivenTo(given[owner[c]], m.req)
                /\ m.kind = "req" => <<m.id, m.key>> \in given[owner[c]]
IsResult(G, r) ==
    \E x \in G : LET f == x[2][2] IN
        /\ x[1] = r.id
        /\ FoundName(x[2][1]) # {}
        /\ \/ IsPrefix(f, r.val.field) /\ r.sub = Suffix(f, r.val.field)
           \/ IsPrefix(r.val.field, f) /\ r.sub = Suffix(r.val.field, f)
ResultsRequested(p) ==
    \A j \in DOMAIN recv_queue[p] : \A r \in recv_queue[p][j].res : IsResult(given[p], r)

\* The last message of a client that is about the request k asks for it with the id that
\* the client has for it; without one the server has got it.
Asking(q, k) == {i \in DOMAIN q : q[i].kind = "first" \/ (q[i].kind = "req" /\ q[i].key = k)}
IdIn(map, k, id) == k \in DOMAIN map /\ map[k] = id
RequestsUnderWay(p) ==
    conn_of[p] # NoConn => LET c == conn_of[p] IN
        \A k \in DOMAIN req[p] : req[p][k] > 0 =>
            \E i \in {0} \cup Asking(sent[c], k) :
                /\ \A j \in Asking(sent[c], k) : j <= i
                /\ IF i = 0 THEN IdIn(value_req[c], k, req[p][k])
                   ELSE IF sent[c][i].kind = "first" THEN IdIn(sent[c][i].req, k, req[p][k])
                   ELSE sent[c][i].id = req[p][k]

\* The three parts of what an initialised client will know.  What one that is not has is at
\* least of members that there are.
WillListAll(p) ==
    Initialised(p) =>
        \A n \in Name \ (mixed \cup {MemberName[p]}) : FoundName(n) # {} =>
            \A f \in Field : WillList(recv_queue[p], entry[p], <<n, f>>)
                                <=> HasValue(n, f) /\ Visible(f)
OnlyOfFound(p) ==
    IdsDiffer(p) => \A k \in DOMAIN data_recv[p] : k \in Name \X Field => FoundName(k[1]) # {}
NothingOld(p) ==
    Initialised(p) /\ IdsDiffer(p) =>
        \A n \in Name \ (mixed \cup {MemberName[p]}), f \in Field :
            WillHave(recv_queue[p], given[p], DOMAIN data_recv[p], <<n, f>>) /\ ~TakenFor(p, <<n, f>>)
                => HasValue(n, f)
WillReadAll(p) ==
    Initialised(p) /\ IdsDiffer(p) =>
        \A k \in DOMAIN req[p] :
            (/\ req[p][k] > 0 /\ k[1] \notin mixed /\ ~TakenFor(p, k)
             /\ Asking(sent[conn_of[p]], k) = {} /\ HasValue(k[1], k[2])) =>
                WillRead(recv_queue[p], given[p], data_recv[p], k, req[p][k], ValueOf(k[1], k[2]))

ClientInv(p) ==
    /\ ResultsRequested(p) /\ RequestsUnderWay(p)
    /\ WillListAll(p) /\ OnlyOfFound(p) /\ NothingOld(p) /\ WillReadAll(p)
PubSubInv == StoreInv /\ PubSubTypeOK /\ IdsGiven /\ \A p \in Client : ClientInv(p)

----------------------------------------------------------------------------
(* Statements of the documentation that the code does not satisfy.          *)

\* A request for foo, when there is foo.bar instead, is answered with foo.bar at
\* once and whenever it changes (docs/82_client_spec.md:54, :60).
SubfieldsRelayed ==
    \A p \in Client : Settled(p) /\ IdsDiffer(p) =>
        \A k \in DOMAIN req[p] :
            req[p][k] > 0 /\ k[1] \notin mixed /\ ~HasValue(k[1], k[2]) =>
                \A f \in Field : IsStrictPrefix(k[2], f) /\ HasValue(k[1], f) =>
                    <<k[1], f>> \in DOMAIN data_recv[p]

\* The request id stands for the name of the data (docs/82_client_spec.md:58).
StoredUnderItsName ==
    \A p \in Client : \A k \in DOMAIN data_recv[p] :
        k[1] # NoName => data_recv[p][k].field = k[2]

\* Data comes with a sync that has the time of the data
\* (docs/82_client_spec.md:54-55).
SyncTimeKnown ==
    \A p \in Client : Settled(p) =>
        \A k \in DOMAIN data_recv[p] : k[1] \in Name \ mixed =>
            k[1] \in DOMAIN sync_time[p] /\ sync_time[p][k[1]] >= data_recv[p][k].n
=============================================================================
