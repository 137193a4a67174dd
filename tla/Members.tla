------------------------------ MODULE Members ------------------------------
(***************************************************************************)
(* Who is connected, as the server announces it and as clients believe it. *)
(*                                                                         *)
(* The server side is the sync_init handler and onClose (member_data.cc)   *)
(* on top of the registry.  A client process keeps its state while its     *)
(* connections come and go: the ws thread queues what it receives, and the *)
(* application thread takes the queue to onRecv inside sync()              *)
(* (client_threading.cc, client_msg_recv.cc).                              *)
(***************************************************************************)
EXTENDS Links

VARIABLES
    did_disconnect,     \* WsData::did_disconnect
    sync_init_end,      \* WsData::sync_init_end
    member_entry,       \* ClientData::member_entry: name -> connected?
    member_ids,         \* ClientData::member_ids: name -> id
    self_member_id      \* ClientData::self_member_id, 0 for nullopt

memberVars == <<did_disconnect, sync_init_end, member_entry, member_ids,
                self_member_id>>
membersVars == <<storeVars, linkVars, memberVars>>

\* Everything packed for one client by one handler arrives as one batch: the
\* sync_init messages of a set of members, followed by sync_init_end when end
\* is not 0.
SyncInitMsg(members, end) ==
    [kind |-> "sync_init", members |-> members, end |-> end]
ClosedMsg(id) == [kind |-> "closed", id |-> id]

\* The entries that c's own registration has just changed are the ones with its
\* id; the listing of the other members, closed ones included, skips them.
OtherMembers(id) ==
    {<<name[clients_by_id[i]], i>> :
        i \in {j \in ForEachWithName : member_id[clients_by_id[j]] # id}}

\* The initialised connections that a new member of name n is announced to.
ToldOf(n, id) == IF n = NoName THEN {} ELSE {d \in ForEach : member_id[d] # id}

\* Defects that the properties exclude: the announcement still carries the id
\* that the constructor drew; sync_init_end is packed in the loop over the others.
SyncInitToConstructorId(c, n, id, d) ==
    IF d = c THEN <<SyncInitMsg(OtherMembers(id), id)>>
    ELSE IF d \in ToldOf(n, id) THEN <<SyncInitMsg({<<n, member_id[c]>>}, 0)>>
    ELSE <<>>
SyncInitToEndInLoop(c, n, id, d) ==
    IF d = c THEN IF OtherMembers(id) = {} THEN <<>>
                  ELSE <<SyncInitMsg(OtherMembers(id), id)>>
    ELSE IF d \in ToldOf(n, id) THEN <<SyncInitMsg({<<n, id>>}, 0)>>
    ELSE <<>>

\* What connection d is sent when connection c has become member id of name n:
\* c itself the other members, and the others the new one.
SyncInitTo(c, n, id, d) ==
    IF d = c THEN <<SyncInitMsg(OtherMembers(id), id)>>
    ELSE IF d \in ToldOf(n, id) THEN <<SyncInitMsg({<<n, id>>}, 0)>>
    ELSE <<>>

\* What onClose of c sends to connection d.
ClosedTo(c, d) == IF d \in ForEach \ {c} THEN <<ClosedMsg(member_id[c])>> ELSE <<>>

MembersInit ==
    /\ LinkInit
    /\ did_disconnect = [p \in Client |-> FALSE]
    /\ sync_init_end = [p \in Client |-> FALSE]
    /\ member_entry = [p \in Client |-> <<>>]
    /\ member_ids = [p \in Client |-> <<>>]
    /\ self_member_id = [p \in Client |-> 0]

----------------------------------------------------------------------------
(* The connection.                                                         *)

Connect(p, c) ==
    /\ connect(p, c)
    /\ did_disconnect' = [did_disconnect EXCEPT ![p] = FALSE]
    /\ UNCHANGED <<sync_init_end, member_entry, member_ids, self_member_id>>

Disconnect(p) ==
    /\ disconnect(p)
    /\ self_member_id' = [self_member_id EXCEPT ![p] = 0]
    /\ sync_init_end' = [sync_init_end EXCEPT ![p] = FALSE]
    /\ did_disconnect' = [did_disconnect EXCEPT ![p] = TRUE]
    /\ UNCHANGED <<member_entry, member_ids>>

SyncInit(c) ==
    /\ \E id \in AssignableId(c, OwnName(c)) :
          /\ syncInit(c, id)
          /\ SendEach([d \in Conn |-> SyncInitTo(c, OwnName(c), id, d)])
    /\ UNCHANGED memberVars

Close(c) ==
    /\ onClose(c)
    /\ SendEach([d \in Conn |-> ClosedTo(c, d)])
    /\ UNCHANGED memberVars

----------------------------------------------------------------------------
(* The application thread: sync() with auto_reconnect.  syncImpl looks at   *)
(* did_disconnect and then takes batches until recv_queue is empty, without *)
(* the lock while a batch is processed.  Since batches can arrive and the   *)
(* connection can be lost at any point of that loop, the two parts are      *)
(* separate steps that occur in either order.                               *)

\* The loss of the connection is reported and every member marked as closed.
ReportDisconnect(p) ==
    /\ did_disconnect[p]
    /\ member_entry' = [member_entry EXCEPT ![p] =
                           [n \in DOMAIN member_entry[p] |-> FALSE]]
    /\ did_disconnect' = [did_disconnect EXCEPT ![p] = FALSE]
    /\ UNCHANGED <<storeVars, linkVars, sync_init_end, member_ids,
                   self_member_id>>

\* getMemberNameFromId: the own name, else a name with that id, else empty.
MemberNamesFromId(p, id) ==
    LET named == {n \in DOMAIN member_ids[p] : member_ids[p][n] = id} IN
    IF self_member_id[p] = id THEN {MemberName[p]}
    ELSE IF named = {} THEN {NoName} ELSE named

\* onRecv: sync_init and sync_init_end.
RecvSyncInit(p) ==
    LET m == Head(recv_queue[p])
        names == {x[1] : x \in m.members}
    IN
    /\ Take(p, "sync_init")
    /\ member_entry' = [member_entry EXCEPT ![p] =
                           Overwrite(@, [n \in names |-> TRUE])]
    /\ member_ids' = [member_ids EXCEPT ![p] =
                         Overwrite(@, [n \in names |->
                             (CHOOSE x \in m.members : x[1] = n)[2]])]
    /\ self_member_id' = [self_member_id EXCEPT ![p] =
                           IF m.end # 0 THEN m.end ELSE @]
    /\ sync_init_end' = [sync_init_end EXCEPT ![p] = @ \/ m.end # 0]
    /\ UNCHANGED did_disconnect

\* onRecv: closed.
RecvClosed(p) ==
    /\ Take(p, "closed")
    /\ \E n \in MemberNamesFromId(p, Head(recv_queue[p]).id) :
         member_entry' = [member_entry EXCEPT ![p] =
                             Overwrite(@, [x \in {n} |-> FALSE])]
    /\ UNCHANGED <<did_disconnect, sync_init_end, member_ids, self_member_id>>

----------------------------------------------------------------------------
App(p) == ReportDisconnect(p) \/ RecvSyncInit(p) \/ RecvClosed(p)

MembersNext ==
    \/ \E p \in Client, c \in Conn : Connect(p, c)
    \/ \E p \in Client : Disconnect(p)
    \/ \E c \in Conn : SyncInit(c)
    \/ \E c \in Conn : Close(c)
    \/ \E p \in Client : App(p)

\* The server handles what a connection that stays open has sent, and the
\* application keeps calling sync().
MembersSpec ==
    /\ MembersInit
    /\ [][MembersNext]_membersVars
    /\ \A c \in Conn : WF_membersVars(SyncInit(c))
    /\ \A p \in Client : WF_membersVars(App(p))

----------------------------------------------------------------------------
Message == [kind : {"sync_init"}, members : SUBSET (Name \X Nat), end : Nat]
             \cup [kind : {"closed"}, id : Nat \ {0}]

MembersTypeOK ==
    /\ LinkTypeOK
    /\ recv_queue \in [Client -> Seq(Message)]
    /\ did_disconnect \in [Client -> BOOLEAN]
    /\ sync_init_end \in [Client -> BOOLEAN]
    /\ \A p \in Client : /\ IsMap(member_entry[p], MName, BOOLEAN)
                         /\ IsMap(member_ids[p], Name, Nat)
    /\ DOMAIN member_entry = Client /\ DOMAIN member_ids = Client
    /\ self_member_id \in [Client -> Nat]

\* Client p is initialised on its connection and has processed all that the
\* server sent it.
Initialised(p) == conn_of[p] \in clients /\ sync_init[conn_of[p]]
UpToDate(p) == Initialised(p) /\ recv_queue[p] = <<>>

\* A client that is up to date knows the id of every other named member, so a
\* request or a call that it addresses by name reaches the right one.
KnowsMembers ==
    \A p \in Client : UpToDate(p) =>
        /\ self_member_id[p] = member_id[conn_of[p]]
        /\ \A i \in ForEachWithName \ {self_member_id[p]} :
              /\ name[clients_by_id[i]] \in DOMAIN member_ids[p]
              /\ member_ids[p][name[clients_by_id[i]]] = i

\* waitConnection() returns once a connection lasts: the server answers the
\* client's sync_init and sync_init_end is set for good.
waitConnectionReturns ==
    \A p \in Client :
        <>[](conn_of[p] \in clients) => <>[](sync_init_end[p])

----------------------------------------------------------------------------
(* The inductive strengthening of KnowsMembers.                            *)

\* The positions in recv_queue of the lists of members, and of the lists that end
\* with sync_init_end.
Lists(p) == {k \in DOMAIN recv_queue[p] : recv_queue[p][k].kind = "sync_init"}
Ends(p) == {k \in Lists(p) : recv_queue[p][k].end # 0}

\* What a client believes of names and ids, or will, is so in the registry.
IsEntry(n, i) == i \in ForEachWithName /\ name[clients_by_id[i]] = n
BeliefsTrue ==
    \A p \in Client :
        /\ \A n \in DOMAIN member_ids[p] : IsEntry(n, member_ids[p][n])
        /\ \A k \in Lists(p) : \A x \in recv_queue[p][k].members : IsEntry(x[1], x[2])

\* An initialised client knows or will learn of every other entry ...
Knows(p, n, i) == n \in DOMAIN member_ids[p] /\ member_ids[p][n] = i
WillLearn(p, n, i) == \E k \in Lists(p) : <<n, i>> \in recv_queue[p][k].members
AllTold ==
    \A p \in Client : Initialised(p) =>
        \A i \in ForEachWithName \ {member_id[conn_of[p]]} :
            LET n == name[clients_by_id[i]] IN Knows(p, n, i) \/ WillLearn(p, n, i)

\* ... and, of all the ids it has been given on its connections, of its own last.
LastEnd(p, k) == k \in Ends(p) /\ \A j \in Ends(p) : j <= k
SelfTold ==
    \A p \in Client : Initialised(p) =>
        IF Ends(p) = {} THEN self_member_id[p] = member_id[conn_of[p]]
        ELSE \E k \in Ends(p) : /\ LastEnd(p, k)
                                /\ recv_queue[p][k].end = member_id[conn_of[p]]

MembersInv ==
    StoreInv /\ MembersTypeOK /\ BeliefsTrue /\ AllTold /\ SelfTold

----------------------------------------------------------------------------
(* A statement of the documentation that the code does not satisfy.        *)

Open(n) == \E c \in ForEach : name[c] = n

\* Member::connected() is true for a member that is connected
\* (docs/42_member.md:126).
OpenMeansConnected ==
    \A p \in Client : UpToDate(p) =>
        \A n \in DOMAIN member_entry[p] \ {MemberName[p]} :
            Open(n) => member_entry[p][n]
============================================================================
