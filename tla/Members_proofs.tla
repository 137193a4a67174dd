--------------------------- MODULE Members_proofs ---------------------------
(***************************************************************************)
(* Proofs about the announcement of members, and about what a client lists *)
(* of them.                                                                *)
(***************************************************************************)
EXTENDS Members, Entries, ServerStore_proofs, FiniteSetTheorems

LEMMA MembersStoreStep == [MembersNext]_membersVars => [StoreNext]_storeVars
<1> SUFFICES ASSUME [MembersNext]_membersVars PROVE [StoreNext]_storeVars
  OBVIOUS
<1>1. CASE UNCHANGED membersVars
  BY <1>1 DEF membersVars
<1>2. ASSUME NEW p \in Client, NEW c \in Conn, Connect(p, c) PROVE StoreNext
  BY <1>2 DEF Connect, connect, StoreNext
<1>3. ASSUME NEW p \in Client, Disconnect(p) PROVE UNCHANGED storeVars
  BY <1>3 DEF Disconnect, disconnect
<1>4. ASSUME NEW c \in Conn, SyncInit(c) PROVE StoreNext
  BY <1>4, ClientAssumption DEF SyncInit, syncInit, OwnName, StoreNext
<1>5. ASSUME NEW c \in Conn, Close(c) PROVE StoreNext
  BY <1>5 DEF Close, onClose, StoreNext
<1>6. ASSUME NEW p \in Client, App(p) PROVE UNCHANGED storeVars
  BY <1>6 DEF App, ReportDisconnect, RecvSyncInit, RecvClosed, Take
<1>. QED  BY <1>1, <1>2, <1>3, <1>4, <1>5, <1>6 DEF MembersNext

\* The server, as its clients drive it, implements the registry (StoreSpec), and
\* with it keeps every property proved of the registry.
THEOREM MembersImplementStore == MembersSpec => StoreSpec
<1>1. MembersInit => StoreInit
  BY DEF MembersInit, LinkInit
<1>. QED  BY <1>1, MembersStoreStep, PTL DEF MembersSpec, StoreSpec

----------------------------------------------------------------------------
(* The queue of a client: where the lists of members are in it.            *)

LEMMA ListsAppend ==
    ASSUME NEW p \in Client, recv_queue[p] \in Seq(Message), NEW m \in Message,
           recv_queue'[p] = Append(recv_queue[p], m)
    PROVE  LET last == Len(recv_queue[p]) + 1 IN
           /\ recv_queue'[p] \in Seq(Message)
           /\ recv_queue'[p][last] = m
           /\ \A k \in Lists(p) : recv_queue'[p][k] = recv_queue[p][k] /\ k < last
           /\ Lists(p)' = IF m.kind = "sync_init" THEN Lists(p) \cup {last} ELSE Lists(p)
           /\ Ends(p)' = IF m.kind = "sync_init" /\ m.end # 0 THEN Ends(p) \cup {last}
                                                              ELSE Ends(p)
<1> DEFINE q == recv_queue[p]
<1>1. /\ DOMAIN recv_queue'[p] = 1..Len(q) + 1 /\ DOMAIN q = 1..Len(q) /\ Len(q) \in Nat
      /\ recv_queue'[p][Len(q) + 1] = m
      /\ \A k \in 1..Len(q) : recv_queue'[p][k] = q[k]
  OBVIOUS
<1>2. recv_queue'[p] \in Seq(Message)
  OBVIOUS
<1>. QED  BY <1>1, <1>2 DEF Lists, Ends

LEMMA ListsTail ==
    ASSUME NEW p \in Client, recv_queue[p] \in Seq(Message), recv_queue[p] # <<>>,
           recv_queue'[p] = Tail(recv_queue[p])
    PROVE  /\ recv_queue'[p] \in Seq(Message)
           /\ Head(recv_queue[p]) = recv_queue[p][1] /\ recv_queue[p][1] \in Message
           /\ Lists(p) \subseteq Nat \ {0} /\ Lists(p)' \subseteq Nat \ {0}
           /\ \A k \in Nat \ {0} : /\ k \in Lists(p)' <=> k + 1 \in Lists(p)
                                   /\ k \in Ends(p)' <=> k + 1 \in Ends(p)
                                   /\ k \in Lists(p)' =>
                                         recv_queue'[p][k] = recv_queue[p][k + 1]
<1> DEFINE q == recv_queue[p]
<1>1. /\ DOMAIN q = 1..Len(q) /\ Len(q) \in Nat \ {0}
      /\ DOMAIN recv_queue'[p] = 1..Len(q) - 1
      /\ \A k \in 1..Len(q) - 1 : recv_queue'[p][k] = q[k + 1]
      /\ Head(q) = q[1]
  OBVIOUS
<1>2. recv_queue'[p] \in Seq(Message) /\ q[1] \in Message
  BY <1>1
<1>. QED  BY <1>1, <1>2 DEF Lists, Ends

\* A map that is overwritten with a map of the same kind is a map of that kind.
LEMMA OverwriteIsMap ==
    ASSUME NEW S, NEW T, NEW f, NEW g, IsMap(f, S, T), IsMap(g, S, T)
    PROVE  IsMap(Overwrite(f, g), S, T)
BY DEF IsMap, Overwrite

----------------------------------------------------------------------------
(* What a client knows of the others: MembersInv is inductive.             *)

LEMMA EntriesKept ==
    ASSUME StoreInv, StoreInv', [StoreNext]_storeVars, NEW n, NEW i, IsEntry(n, i)
    PROVE  IsEntry(n, i)'
<1>1. /\ i \in DOMAIN clients_by_id'
      /\ name'[clients_by_id'[i]] = n /\ n # NoName
  BY NamedEntryKept DEF IsEntry, ForEachWithName
<1>2. sync_init'[clients_by_id'[i]]
  BY <1>1 DEF StoreInv, Filed
<1>. QED  BY <1>1, <1>2 DEF IsEntry, ForEachWithName

\* No two members have the same name, and every entry has a name and an id.
LEMMA EntriesUnique ==
    ASSUME StoreInv, NEW n, NEW i, IsEntry(n, i)
    PROVE  /\ n \in Name /\ i \in Nat
           /\ \A j : IsEntry(n, j) => i = j
BY DEF IsEntry, ForEachWithName, StoreInv, StoreTypeOK, EntryUnderOwnId, MName

LEMMA MembersInitInv == MembersInit => MembersInv
<1> SUFFICES ASSUME MembersInit PROVE MembersInv
  OBVIOUS
<1>1. StoreInv
  BY InitStoreInv DEF MembersInit, LinkInit
<1>2. MembersTypeOK
  BY <1>1, NoNameAssumption DEF MembersInit, LinkInit, MembersTypeOK, LinkTypeOK, StoreInv, IsMap
<1>3. \A p \in Client : Lists(p) = {} /\ DOMAIN member_ids[p] = {} /\ ~Initialised(p)
  BY ClientAssumption DEF MembersInit, LinkInit, StoreInit, Lists, Initialised
<1>. QED  BY <1>1, <1>2, <1>3 DEF MembersInv, BeliefsTrue, AllTold, SelfTold

\* A step that changes neither the queues nor what clients know, keeps the rest.
LEMMA SameQueues ==
    ASSUME MembersInv, StoreInv', MembersTypeOK', [StoreNext]_storeVars,
           UNCHANGED <<recv_queue, member_ids>>,
           \A p \in Client : Initialised(p)' =>
              /\ Initialised(p) /\ member_id'[conn_of'[p]] = member_id[conn_of[p]]
              /\ self_member_id'[p] = self_member_id[p],
           \A i \in ForEachWithName' : i \in ForEachWithName
    PROVE  MembersInv'
<1>1. \A p \in Client : Lists(p)' = Lists(p) /\ Ends(p)' = Ends(p)
  BY DEF Lists, Ends
<1>2. BeliefsTrue'
  BY <1>1, EntriesKept DEF MembersInv, BeliefsTrue
<1>3. \A i \in ForEachWithName' : name'[clients_by_id'[i]] = name[clients_by_id[i]]
  BY EntriesKept DEF MembersInv, IsEntry
<1>4. AllTold'
  BY <1>1, <1>3 DEF MembersInv, AllTold, Knows, WillLearn
<1>5. SelfTold'
  BY <1>1 DEF MembersInv, SelfTold, LastEnd
<1>. QED  BY <1>2, <1>4, <1>5 DEF MembersInv

LEMMA ConnectInv ==
    ASSUME MembersInv, StoreInv', NEW p \in Client, NEW c \in Conn, Connect(p, c)
    PROVE  MembersInv'
<1> USE DEF Connect, connect
<1>1. StoreNext
  BY DEF StoreNext
<1>2. MembersTypeOK'
  BY DEF MembersInv, MembersTypeOK, LinkTypeOK, StoreInv
<1>3. ~sync_init'[c] /\ \A q \in Client \ {p} : conn_of'[q] = conn_of[q] /\ conn_of[q] # c
  BY ClientAssumption
  DEF MembersInv, MembersTypeOK, LinkTypeOK, StoreInv, StoreTypeOK, newClient, IdsBelowLast
<1>4. \A q \in Client : Initialised(q)' =>
         Initialised(q) /\ member_id'[conn_of'[q]] = member_id[conn_of[q]]
  <2>1. ASSUME NEW q \in Client, Initialised(q)' PROVE q # p
    BY <1>3, <2>1 DEF Initialised, MembersInv, MembersTypeOK, LinkTypeOK
  <2>. QED  BY <1>3, <2>1 DEF Initialised, newClient, MemberData, MembersInv, StoreInv, StoreTypeOK
<1>5. ForEachWithName' = ForEachWithName
  BY DEF ForEachWithName, newClient
<1>. QED  BY <1>1, <1>2, <1>4, <1>5, SameQueues

LEMMA DisconnectInv ==
    ASSUME MembersInv, StoreInv', NEW p \in Client, Disconnect(p)
    PROVE  MembersInv'
<1> USE DEF Disconnect, disconnect, storeVars
<1>1. MembersTypeOK'
  BY ClientAssumption DEF MembersInv, MembersTypeOK, LinkTypeOK, StoreTypeOK
<1>2. \A q \in Client : Initialised(q)' => q # p
  BY ClientAssumption
  DEF Initialised, MembersInv, MembersTypeOK, LinkTypeOK, StoreInv, StoreTypeOK
<1>3. \A q \in Client : Initialised(q)' =>
         /\ Initialised(q) /\ member_id'[conn_of'[q]] = member_id[conn_of[q]]
         /\ self_member_id'[q] = self_member_id[q]
  BY <1>2 DEF Initialised, MembersInv, MembersTypeOK, LinkTypeOK
<1>4. ForEachWithName' = ForEachWithName
  BY DEF ForEachWithName
<1>. QED  BY <1>1, <1>3, <1>4, SameQueues

LEMMA ReportDisconnectInv ==
    ASSUME MembersInv, StoreInv', NEW p \in Client, ReportDisconnect(p)
    PROVE  MembersInv'
<1> USE DEF ReportDisconnect, storeVars, linkVars
<1>1. MembersTypeOK'
  BY DEF MembersInv, MembersTypeOK, LinkTypeOK, StoreTypeOK, IsMap
<1>2. \A q \in Client : Initialised(q)' = Initialised(q)
  BY DEF Initialised
<1>3. ForEachWithName' = ForEachWithName
  BY DEF ForEachWithName
<1>. QED  BY <1>1, <1>2, <1>3, SameQueues

\* Each queue is left alone or gets one message.
LEMMA SendEachOne ==
    ASSUME recv_queue \in [Client -> Seq(Message)],
           NEW msgs, \A d \in Conn : msgs[d] = <<>> \/ \E m \in Message : msgs[d] = <<m>>,
           conn_of \in [Client -> Conn \cup {NoConn}],
           SendEach(msgs)
    PROVE  /\ recv_queue' \in [Client -> Seq(Message)]
           /\ \A p \in Client : \A m \in Message :
                 (conn_of[p] \in Conn /\ msgs[conn_of[p]] = <<m>>) =>
                     recv_queue'[p] = Append(recv_queue[p], m)
           /\ \A p \in Client :
                 \/ recv_queue'[p] = recv_queue[p]
                 \/ \E m \in Message : /\ conn_of[p] \in Conn /\ msgs[conn_of[p]] = <<m>>
                                       /\ recv_queue'[p] = Append(recv_queue[p], m)
<1>1. ASSUME NEW p \in Client, conn_of[p] \in Conn, NEW m \in Message,
             msgs[conn_of[p]] = <<m>>
      PROVE recv_queue'[p] = Append(recv_queue[p], m)
  <2>1. recv_queue'[p] = recv_queue[p] \o <<m>>
    BY <1>1, ClientAssumption DEF SendEach
  <2>2. recv_queue[p] \in Seq(Message)
    OBVIOUS
  <2>. QED  BY <2>1, <2>2
<1>2. ASSUME NEW p \in Client, conn_of[p] = NoConn \/ msgs[conn_of[p]] = <<>>
      PROVE recv_queue'[p] = recv_queue[p]
  <2>1. recv_queue[p] \in Seq(Message) /\ recv_queue[p] \o <<>> = recv_queue[p]
    OBVIOUS
  <2>2. CASE conn_of[p] = NoConn
    BY <2>2 DEF SendEach
  <2>3. CASE conn_of[p] # NoConn /\ msgs[conn_of[p]] = <<>>
    <3>1. recv_queue'[p] = recv_queue[p] \o msgs[conn_of[p]]
      BY <2>3 DEF SendEach
    <3>. QED  BY <2>1, <2>3, <3>1
  <2>. QED  BY <1>2, <2>2, <2>3
<1>3. \A p \in Client :
         \/ recv_queue'[p] = recv_queue[p]
         \/ \E m \in Message : /\ conn_of[p] \in Conn /\ msgs[conn_of[p]] = <<m>>
                               /\ recv_queue'[p] = Append(recv_queue[p], m)
  <2>1. ASSUME NEW p \in Client, conn_of[p] \in Conn, msgs[conn_of[p]] # <<>>
        PROVE \E m \in Message : /\ conn_of[p] \in Conn /\ msgs[conn_of[p]] = <<m>>
                                 /\ recv_queue'[p] = Append(recv_queue[p], m)
    <3>1. PICK m \in Message : msgs[conn_of[p]] = <<m>>
      BY <2>1
    <3>. QED  BY <1>1, <2>1, <3>1
  <2>. QED  BY <1>2, <2>1
<1>4. recv_queue' \in [Client -> Seq(Message)]
  <2>1. DOMAIN recv_queue' = Client /\ recv_queue' = [p \in Client |-> recv_queue'[p]]
    BY DEF SendEach
  <2>2. \A p \in Client : recv_queue'[p] \in Seq(Message)
    <3>1. \A p \in Client : recv_queue[p] \in Seq(Message)
      OBVIOUS
    <3>2. \A p \in Client, m \in Message : Append(recv_queue[p], m) \in Seq(Message)
      BY <3>1
    <3>. QED  BY <1>3, <3>1, <3>2
  <2>. QED  BY <2>1, <2>2
<1>. QED  BY <1>1, <1>3, <1>4

LEMMA CloseInv ==
    ASSUME MembersInv, StoreInv', NEW c \in Conn, Close(c)
    PROVE  MembersInv'
<1> DEFINE msgs == [d \in Conn |-> ClosedTo(c, d)]
<1> USE DEF Close, onClose
<1>1. StoreNext
  BY DEF StoreNext
<1>t. /\ LinkTypeOK /\ StoreTypeOK /\ recv_queue \in [Client -> Seq(Message)]
      /\ conn_of \in [Client -> Conn \cup {NoConn}] /\ clients \subseteq Conn
  BY DEF MembersInv, MembersTypeOK, LinkTypeOK, StoreTypeOK
<1>2. /\ member_id[c] \in Nat \ {0}
      /\ ClosedMsg(member_id[c]) \in Message /\ ClosedMsg(member_id[c]).kind = "closed"
  BY <1>t DEF removeClient, MembersInv, StoreInv, IdsBelowLast, StoreTypeOK, ClosedMsg, Message
<1>3. \A d \in Conn : msgs[d] = <<>> \/ msgs[d] = <<ClosedMsg(member_id[c])>>
  BY DEF ClosedTo
<1>4. /\ recv_queue' \in [Client -> Seq(Message)]
      /\ \A p \in Client :
            \/ recv_queue'[p] = recv_queue[p]
            \/ recv_queue'[p] = Append(recv_queue[p], ClosedMsg(member_id[c]))
  <2>1. \A d \in Conn : msgs[d] = <<>> \/ \E m \in Message : msgs[d] = <<m>>
    BY <1>2, <1>3
  <2>2. \A d \in Conn, m \in Message : msgs[d] = <<m>> => m = ClosedMsg(member_id[c])
    BY <1>3
  <2>. HIDE DEF msgs
  <2>3. SendEach(msgs)
    BY DEF msgs
  <2>4. /\ recv_queue' \in [Client -> Seq(Message)]
        /\ \A p \in Client :
              \/ recv_queue'[p] = recv_queue[p]
              \/ \E m \in Message : /\ conn_of[p] \in Conn /\ msgs[conn_of[p]] = <<m>>
                                    /\ recv_queue'[p] = Append(recv_queue[p], m)
    BY <1>t, <2>1, <2>3, SendEachOne
  <2>. QED  BY <2>2, <2>4
<1>5. \A p \in Client : /\ Lists(p)' = Lists(p) /\ Ends(p)' = Ends(p)
                        /\ \A k \in Lists(p) : recv_queue'[p][k] = recv_queue[p][k]
  <2>1. ASSUME NEW p \in Client, recv_queue'[p] = recv_queue[p]
        PROVE  /\ Lists(p)' = Lists(p) /\ Ends(p)' = Ends(p)
               /\ \A k \in Lists(p) : recv_queue'[p][k] = recv_queue[p][k]
    BY <2>1 DEF Lists, Ends
  <2>2. ASSUME NEW p \in Client,
               recv_queue'[p] = Append(recv_queue[p], ClosedMsg(member_id[c]))
        PROVE  /\ Lists(p)' = Lists(p) /\ Ends(p)' = Ends(p)
               /\ \A k \in Lists(p) : recv_queue'[p][k] = recv_queue[p][k]
    <3>1. recv_queue[p] \in Seq(Message)
      BY <1>t
    <3>. QED  BY <1>2, <2>2, <3>1, ListsAppend
  <2>. QED  BY <1>4, <2>1, <2>2
<1>6. MembersTypeOK'
  BY <1>4 DEF MembersInv, MembersTypeOK, LinkTypeOK, StoreInv, memberVars
<1>7. \A p \in Client : Initialised(p)' =>
         /\ Initialised(p) /\ member_id'[conn_of'[p]] = member_id[conn_of[p]]
         /\ self_member_id'[p] = self_member_id[p]
  BY DEF Initialised, removeClient, memberVars
<1>8. ForEachWithName' \subseteq ForEachWithName
  BY DEF ForEachWithName, removeClient
<1>9. UNCHANGED member_ids
  BY DEF memberVars
<1>10. BeliefsTrue'
  BY <1>1, <1>5, <1>9, EntriesKept DEF MembersInv, BeliefsTrue
<1>11. \A i \in ForEachWithName' : name'[clients_by_id'[i]] = name[clients_by_id[i]]
  BY <1>1, <1>8, EntriesKept DEF MembersInv, IsEntry
<1>12. AllTold'
  BY <1>5, <1>7, <1>8, <1>9, <1>11 DEF MembersInv, AllTold, Knows, WillLearn
<1>13. SelfTold'
  BY <1>5, <1>7 DEF MembersInv, SelfTold, LastEnd, Ends
<1>. QED  BY <1>6, <1>10, <1>12, <1>13 DEF MembersInv

LEMMA SyncInitInv ==
    ASSUME MembersInv, StoreInv', NEW c \in Conn, NEW id \in AssignableId(c, OwnName(c)),
           syncInit(c, id), UNCHANGED memberVars,
           SendEach([d \in Conn |-> SyncInitTo(c, OwnName(c), id, d)])
    PROVE  MembersInv'
<1> DEFINE n == OwnName(c)
           msgs == [d \in Conn |-> SyncInitTo(c, n, id, d)]
           own == SyncInitMsg(OtherMembers(id), id)
           others == SyncInitMsg({<<n, id>>}, 0)
<1>t. /\ StoreInv /\ recv_queue \in [Client -> Seq(Message)]
      /\ conn_of \in [Client -> Conn \cup {NoConn}] /\ NoConn \notin Conn
      /\ clients \subseteq Conn /\ member_id \in [Conn -> Nat] /\ name \in [Conn -> MName]
      /\ sync_init \in [Conn -> BOOLEAN]
  BY ClientAssumption DEF MembersInv, MembersTypeOK, LinkTypeOK, StoreTypeOK
<1>1. StoreNext /\ n \in MName
  BY ClientAssumption DEF syncInit, OwnName, StoreNext
<1>2. /\ c \in clients /\ ~sync_init[c] /\ conn_of' = conn_of /\ clients' = clients
      /\ member_id'[c] = id /\ name'[c] = n /\ sync_init'[c]
      /\ \A d \in Conn \ {c} : /\ member_id'[d] = member_id[d] /\ name'[d] = name[d]
                               /\ sync_init'[d] = sync_init[d]
      /\ DOMAIN clients_by_id' = DOMAIN clients_by_id \cup {id}
      /\ clients_by_id'[id] = c
      /\ \A i \in DOMAIN clients_by_id \ {id} : clients_by_id'[i] = clients_by_id[i]
  BY <1>t DEF syncInit, registerClient, initClientId
<1>3. id \in Nat \ {0}
  BY <1>2 DEF StoreInv, IdsBelowLast, StoreTypeOK
<1>4. \A x \in OtherMembers(id) : IsEntry(x[1], x[2]) /\ x = <<x[1], x[2]>>
  BY DEF OtherMembers, IsEntry
<1>5. own \in Message /\ (n # NoName => others \in Message)
  <2>1. OtherMembers(id) \subseteq Name \X Nat
    BY <1>t, <1>4, EntriesUnique
  <2>. QED  BY <1>1, <1>3, <2>1 DEF Message, SyncInitMsg, MName
<1>6. \A d \in Conn : \/ d = c /\ msgs[d] = <<own>>
                      \/ d # c /\ d \in ToldOf(n, id) /\ n # NoName /\ msgs[d] = <<others>>
                      \/ d # c /\ d \notin ToldOf(n, id) /\ msgs[d] = <<>>
  BY DEF SyncInitTo, ToldOf
<1>7. /\ recv_queue' \in [Client -> Seq(Message)]
      /\ \A p \in Client : \A m \in Message :
            (conn_of[p] \in Conn /\ msgs[conn_of[p]] = <<m>>) =>
                recv_queue'[p] = Append(recv_queue[p], m)
      /\ \A p \in Client :
            \/ recv_queue'[p] = recv_queue[p]
            \/ \E m \in Message : /\ conn_of[p] \in Conn /\ msgs[conn_of[p]] = <<m>>
                                  /\ recv_queue'[p] = Append(recv_queue[p], m)
  <2>1. \A d \in Conn : msgs[d] = <<>> \/ \E m \in Message : msgs[d] = <<m>>
    BY <1>5, <1>6
  <2>. HIDE DEF msgs
  <2>2. SendEach(msgs)
    BY DEF msgs
  <2>. QED  BY <1>t, <2>1, <2>2, SendEachOne
<1> HIDE DEF msgs, own, others
<1>8. MembersTypeOK'
  BY <1>7 DEF MembersInv, MembersTypeOK, LinkTypeOK, StoreInv, memberVars, syncInit
\* c's own client gets the list that ends with its id, the others at most its entry
<1>9. ASSUME NEW p \in Client, conn_of[p] = c
      PROVE  recv_queue'[p] = Append(recv_queue[p], own)
  BY <1>5, <1>6, <1>7, <1>9
<1>10. ASSUME NEW p \in Client, conn_of[p] # c
       PROVE  \/ recv_queue'[p] = recv_queue[p] /\ (conn_of[p] \in Conn => conn_of[p] \notin ToldOf(n, id))
              \/ n # NoName /\ recv_queue'[p] = Append(recv_queue[p], others)
  <2>1. CASE conn_of[p] \notin Conn
    BY <1>7, <2>1
  <2>2. CASE conn_of[p] \in ToldOf(n, id)
    <3>1. conn_of[p] \in Conn
      BY <1>t, <2>2 DEF ToldOf, ForEach
    <3>. QED  BY <1>5, <1>6, <1>7, <1>10, <2>2, <3>1
  <2>3. CASE conn_of[p] \in Conn /\ conn_of[p] \notin ToldOf(n, id)
    <3>1. msgs[conn_of[p]] = <<>>
      BY <1>6, <1>10, <2>3
    <3>2. \A m \in Message : <<m>> # <<>>
      OBVIOUS
    <3>. QED  BY <1>7, <2>3, <3>1, <3>2
  <2>. QED  BY <2>1, <2>2, <2>3
\* what that does to the positions of the lists
<1>11. ASSUME NEW p \in Client
       PROVE  /\ \A k \in Lists(p) : k \in Lists(p)' /\ recv_queue'[p][k] = recv_queue[p][k]
              /\ \A k \in Lists(p)' \ Lists(p) :
                    \/ conn_of[p] = c /\ recv_queue'[p][k] = own
                    \/ n # NoName /\ recv_queue'[p][k] = others
              /\ conn_of[p] = c => \E k \in Nat : LastEnd(p, k)' /\ recv_queue'[p][k] = own
              /\ conn_of[p] # c => Ends(p)' = Ends(p)
              /\ (conn_of[p] # c /\ conn_of[p] \in ToldOf(n, id)) =>
                    \E k \in Lists(p)' : recv_queue'[p][k] = others
  <2>1. recv_queue[p] \in Seq(Message)
    BY <1>t
  <2>2. /\ own.kind = "sync_init" /\ own.end = id
        /\ others.kind = "sync_init" /\ others.end = 0
    BY DEF own, others, SyncInitMsg
  <2>n. PICK last \in Nat : last = Len(recv_queue[p]) + 1
    BY <2>1
  <2>3. CASE conn_of[p] = c
    <3>1. /\ Lists(p)' = Lists(p) \cup {last} /\ Ends(p)' = Ends(p) \cup {last}
          /\ recv_queue'[p][last] = own
          /\ \A k \in Lists(p) : recv_queue'[p][k] = recv_queue[p][k] /\ k < last
      BY <1>3, <1>5, <1>9, <2>1, <2>2, <2>n, <2>3, ListsAppend
    <3>2. LastEnd(p, last)'
      <4>1. \A k \in Ends(p) : k <= last
        BY <2>1, <3>1 DEF Ends, Lists
      <4>. QED  BY <3>1, <4>1 DEF LastEnd
    <3>. QED  BY <2>3, <3>1, <3>2
  <2>4. CASE recv_queue'[p] = recv_queue[p] /\ conn_of[p] # c /\ conn_of[p] \notin ToldOf(n, id)
    BY <2>4 DEF Lists, Ends
  <2>5. CASE conn_of[p] # c /\ n # NoName /\ recv_queue'[p] = Append(recv_queue[p], others)
    <3>1. /\ Lists(p)' = Lists(p) \cup {last} /\ Ends(p)' = Ends(p)
          /\ recv_queue'[p][last] = others
          /\ \A k \in Lists(p) : recv_queue'[p][k] = recv_queue[p][k] /\ k < last
      BY <1>5, <2>1, <2>2, <2>n, <2>5, ListsAppend
    <3>. QED  BY <2>5, <3>1
  <2>6. conn_of[p] \notin Conn => conn_of[p] \notin ToldOf(n, id) /\ conn_of[p] # c
    BY <1>t DEF ToldOf, ForEach
  <2>. QED  BY <1>10, <2>3, <2>4, <2>5, <2>6
<1>12. n # NoName => IsEntry(n, id)'
  BY <1>2 DEF IsEntry, ForEachWithName
<1>13. UNCHANGED <<member_ids, self_member_id>>
  BY DEF memberVars
<1>14. BeliefsTrue'
  <2>1. SUFFICES ASSUME NEW p \in Client
                 PROVE /\ \A m, i : (m \in DOMAIN member_ids'[p] /\ i = member_ids'[p][m])
                                       => IsEntry(m, i)'
                       /\ \A k \in Lists(p)' : \A x \in recv_queue'[p][k].members :
                             IsEntry(x[1], x[2])'
    BY DEF BeliefsTrue
  <2>2. \A m, i : (m \in DOMAIN member_ids'[p] /\ i = member_ids'[p][m])
                      => IsEntry(m, i)'
    BY <1>1, <1>13, EntriesKept DEF MembersInv, BeliefsTrue
  <2>3. \A x \in own.members : IsEntry(x[1], x[2])'
    BY <1>1, <1>4, EntriesKept DEF own, SyncInitMsg, MembersInv
  <2>4. n # NoName => \A x \in others.members : IsEntry(x[1], x[2])'
    BY <1>12 DEF others, SyncInitMsg
  <2>5. \A k \in Lists(p) : \A x \in recv_queue[p][k].members : IsEntry(x[1], x[2])'
    BY <1>1, EntriesKept DEF MembersInv, BeliefsTrue
  <2>. QED  BY <1>11, <2>2, <2>3, <2>4, <2>5
<1>15. \A i \in ForEachWithName' \ {id} :
          /\ i \in ForEachWithName /\ name'[clients_by_id'[i]] = name[clients_by_id[i]]
          /\ <<name[clients_by_id[i]], i>> \in OtherMembers(id)
  <2>1. ASSUME NEW i \in ForEachWithName' \ {id}
        PROVE  /\ i \in ForEachWithName /\ name'[clients_by_id'[i]] = name[clients_by_id[i]]
    <3>1. i \in DOMAIN clients_by_id /\ clients_by_id'[i] = clients_by_id[i]
      BY <1>2, <2>1 DEF ForEachWithName
    <3>2. clients_by_id[i] \in Conn /\ clients_by_id[i] # c
      BY <1>2, <3>1 DEF MembersInv, StoreInv, StoreTypeOK, Filed
    <3>. QED  BY <1>2, <2>1, <3>1, <3>2 DEF ForEachWithName
  <2>2. \A i \in ForEachWithName \ {id} : member_id[clients_by_id[i]] # id
    BY DEF ForEachWithName, MembersInv, StoreInv, EntryUnderOwnId
  <2>. QED  BY <2>1, <2>2 DEF OtherMembers
<1>16. \A p \in Client : (Initialised(p)' /\ conn_of[p] # c) =>
          /\ Initialised(p) /\ conn_of'[p] = conn_of[p] /\ conn_of[p] \in Conn
          /\ member_id'[conn_of[p]] = member_id[conn_of[p]]
  BY <1>2, <1>t DEF Initialised
<1>17. AllTold'
  <2>1. SUFFICES ASSUME NEW p \in Client, Initialised(p)',
                        NEW i \in ForEachWithName' \ {member_id'[conn_of'[p]]}
                 PROVE  LET m == name'[clients_by_id'[i]] IN
                        \/ m \in DOMAIN member_ids'[p] /\ member_ids'[p][m] = i
                        \/ \E k \in Lists(p)' : <<m, i>> \in recv_queue'[p][k].members
    BY DEF AllTold, Knows, WillLearn
  <2>2. CASE conn_of[p] = c
    <3>1. i # id
      BY <1>2, <2>1, <2>2
    <3>2. PICK k \in Lists(p)' : recv_queue'[p][k] = own
      BY <1>11, <2>2 DEF LastEnd, Ends
    <3>3. own.members = OtherMembers(id)
      BY DEF own, SyncInitMsg
    <3>4. <<name'[clients_by_id'[i]], i>> \in OtherMembers(id)
      BY <1>15, <2>1, <3>1
    <3>. QED  BY <3>2, <3>3, <3>4
  <2>3. CASE conn_of[p] # c /\ i # id
    <3>1. LET m == name[clients_by_id[i]] IN Knows(p, m, i) \/ WillLearn(p, m, i)
      BY <1>15, <1>16, <2>1, <2>3 DEF MembersInv, AllTold
    <3>. QED  BY <1>11, <1>13, <1>15, <2>1, <2>3, <3>1 DEF Knows, WillLearn
  <2>4. CASE conn_of[p] # c /\ i = id
    <3>1. name'[clients_by_id'[i]] = n /\ n # NoName
      BY <1>2, <2>1, <2>4 DEF ForEachWithName
    <3>2. conn_of[p] \in ToldOf(n, id)
      BY <1>16, <2>1, <2>4, <3>1 DEF ToldOf, ForEach, Initialised
    <3>3. PICK k \in Lists(p)' : recv_queue'[p][k] = others
      BY <1>11, <2>4, <3>2
    <3>. QED  BY <2>4, <3>1, <3>3 DEF others, SyncInitMsg
  <2>. QED  BY <2>2, <2>3, <2>4
<1>18. SelfTold'
  <2>1. SUFFICES ASSUME NEW p \in Client, Initialised(p)'
                 PROVE  IF Ends(p)' = {} THEN self_member_id'[p] = member_id'[conn_of'[p]]
                        ELSE \E k \in Ends(p)' :
                                /\ LastEnd(p, k)'
                                /\ recv_queue'[p][k].end = member_id'[conn_of'[p]]
    BY DEF SelfTold
  <2>2. CASE conn_of[p] = c
    BY <1>2, <1>11, <2>2 DEF LastEnd, own, SyncInitMsg
  <2>3. CASE conn_of[p] # c
    <3>1. Ends(p)' = Ends(p) /\ \A k : LastEnd(p, k)' = LastEnd(p, k)
      BY <1>11, <2>3 DEF LastEnd
    <3>2. \A k \in Ends(p) : recv_queue'[p][k] = recv_queue[p][k]
      BY <1>11 DEF Ends
    <3>. QED  BY <1>13, <1>16, <2>1, <2>3, <3>1, <3>2 DEF MembersInv, SelfTold
  <2>. QED  BY <2>2, <2>3
<1>. QED  BY <1>8, <1>14, <1>17, <1>18 DEF MembersInv

\* Taking the first message off the queue of p does not affect what others know.
LEMMA TakeInv ==
    ASSUME MembersInv, NEW p \in Client, NEW kind, Take(p, kind)
    PROVE  /\ UNCHANGED storeVars
           /\ recv_queue[p] \in Seq(Message) /\ recv_queue[p] # <<>>
           /\ recv_queue'[p] = Tail(recv_queue[p])
           /\ recv_queue' \in [Client -> Seq(Message)]
           /\ \A n, i : IsEntry(n, i)' = IsEntry(n, i)
           /\ ForEachWithName' = ForEachWithName
           /\ \A q \in Client : /\ Initialised(q)' = Initialised(q)
                                /\ conn_of'[q] = conn_of[q]
           /\ \A q \in Client \ {p} :
                 recv_queue'[q] = recv_queue[q] /\ Lists(q)' = Lists(q) /\ Ends(q)' = Ends(q)
<1>1. UNCHANGED <<storeVars, conn_of>> /\ recv_queue \in [Client -> Seq(Message)]
  BY DEF Take, MembersInv, MembersTypeOK
<1>2. /\ recv_queue[p] \in Seq(Message) /\ recv_queue[p] # <<>>
      /\ recv_queue'[p] = Tail(recv_queue[p]) /\ Tail(recv_queue[p]) \in Seq(Message)
      /\ \A q \in Client \ {p} : recv_queue'[q] = recv_queue[q]
  BY <1>1 DEF Take
<1>3. recv_queue' \in [Client -> Seq(Message)]
  BY <1>1, <1>2 DEF Take
<1>4. \A n, i : IsEntry(n, i)' = IsEntry(n, i)
  BY <1>1 DEF IsEntry, ForEachWithName, storeVars
<1>5. ForEachWithName' = ForEachWithName
  BY <1>1 DEF ForEachWithName, storeVars
<1>6. \A q \in Client : Initialised(q)' = Initialised(q)
  BY <1>1 DEF Initialised, storeVars
<1>. QED  BY <1>1, <1>2, <1>3, <1>4, <1>5, <1>6 DEF Lists, Ends

LEMMA RecvSyncInitInv ==
    ASSUME MembersInv, StoreInv', NEW p \in Client, RecvSyncInit(p)
    PROVE  MembersInv'
<1> DEFINE m == recv_queue[p][1]
           names == {x[1] : x \in m.members}
           entries == [n \in names |-> TRUE]
           ids == [n \in names |-> (CHOOSE x \in m.members : x[1] = n)[2]]
<1>1. Take(p, "sync_init")
  BY DEF RecvSyncInit
<1>2. /\ Head(recv_queue[p]) = m /\ m \in Message
      /\ m.kind = "sync_init" /\ 1 \in Lists(p)
  <2>1. recv_queue[p] \in Seq(Message) /\ recv_queue[p] # <<>>
    BY <1>1, TakeInv
  <2>2. Head(recv_queue[p]) = m /\ m \in Message /\ 1 \in DOMAIN recv_queue[p]
    BY <2>1
  <2>. QED  BY <1>1, <2>2 DEF Take, Lists
<1>t. /\ \A q \in Client : \A n, i : IsEntry(n, i)' = IsEntry(n, i)
      /\ ForEachWithName' = ForEachWithName /\ UNCHANGED storeVars
      /\ \A q \in Client : Initialised(q)' = Initialised(q) /\ conn_of'[q] = conn_of[q]
      /\ \A q \in Client \ {p} :
            recv_queue'[q] = recv_queue[q] /\ Lists(q)' = Lists(q) /\ Ends(q)' = Ends(q)
  BY <1>1, TakeInv
<1>3. /\ m.members \subseteq Name \X Nat /\ m.end \in Nat
      /\ \A x \in m.members : IsEntry(x[1], x[2])
  BY <1>2 DEF Message, MembersInv, BeliefsTrue
<1>4. /\ member_entry' = [member_entry EXCEPT ![p] = Overwrite(@, entries)]
      /\ member_ids' = [member_ids EXCEPT ![p] = Overwrite(@, ids)]
      /\ self_member_id' = [self_member_id EXCEPT ![p] = IF m.end # 0 THEN m.end ELSE @]
      /\ sync_init_end' = [sync_init_end EXCEPT ![p] = @ \/ m.end # 0]
      /\ did_disconnect' = did_disconnect
  BY <1>2 DEF RecvSyncInit
<1>5. /\ names \subseteq Name
      /\ \A n \in names : <<n, ids[n]>> \in m.members /\ IsEntry(n, ids[n])
      /\ \A x \in m.members : x[1] \in names /\ x = <<x[1], x[2]>>
  <2>1. ASSUME NEW n \in names PROVE <<n, ids[n]>> \in m.members
    <3>1. PICK x \in m.members : x[1] = n
      OBVIOUS
    <3>2. (CHOOSE y \in m.members : y[1] = n) \in m.members
          /\ (CHOOSE y \in m.members : y[1] = n)[1] = n
      BY <3>1
    <3>. QED  BY <1>3, <3>2
  <2>. QED  BY <1>3, <2>1
<1>6. IsMap(ids, Name, Nat) /\ IsMap(entries, MName, BOOLEAN)
  BY <1>3, <1>5 DEF IsMap, MName
<1> HIDE DEF m, names, entries, ids
<1> USE DEF MembersInv
<1>7. MembersTypeOK'
  <2>1. IsMap(member_entry[p], MName, BOOLEAN) /\ IsMap(member_ids[p], Name, Nat)
    BY DEF MembersTypeOK
  <2>2. /\ IsMap(Overwrite(member_entry[p], entries), MName, BOOLEAN)
        /\ IsMap(Overwrite(member_ids[p], ids), Name, Nat)
    BY <1>6, <2>1, OverwriteIsMap
  <2>3. /\ \A q \in Client : /\ IsMap(member_entry'[q], MName, BOOLEAN)
                             /\ IsMap(member_ids'[q], Name, Nat)
        /\ DOMAIN member_entry' = Client /\ DOMAIN member_ids' = Client
    BY <1>4, <2>2 DEF MembersTypeOK
  <2>4. LinkTypeOK' /\ recv_queue' \in [Client -> Seq(Message)]
    BY <1>1, TakeInv DEF Take, LinkTypeOK, StoreInv, MembersTypeOK
  <2>5. /\ did_disconnect' \in [Client -> BOOLEAN] /\ sync_init_end' \in [Client -> BOOLEAN]
        /\ self_member_id' \in [Client -> Nat]
    BY <1>3, <1>4 DEF MembersTypeOK
  <2>. QED  BY <2>3, <2>4, <2>5 DEF MembersTypeOK
<1>8. /\ \A n \in names : n \in DOMAIN member_ids'[p] /\ member_ids'[p][n] = ids[n]
      /\ \A n \in DOMAIN member_ids[p] \ names :
            n \in DOMAIN member_ids'[p] /\ member_ids'[p][n] = member_ids[p][n]
      /\ DOMAIN member_ids'[p] = DOMAIN member_ids[p] \cup names
      /\ \A q \in Client \ {p} : /\ member_ids'[q] = member_ids[q]
                                 /\ self_member_id'[q] = self_member_id[q]
  <2>1. member_ids'[p] = Overwrite(member_ids[p], ids) /\ DOMAIN ids = names
    BY <1>4 DEF MembersTypeOK, ids
  <2>3. /\ DOMAIN member_ids'[p] = DOMAIN member_ids[p] \cup DOMAIN ids
        /\ \A x \in DOMAIN ids : member_ids'[p][x] = ids[x]
        /\ \A x \in DOMAIN member_ids[p] \ DOMAIN ids : member_ids'[p][x] = member_ids[p][x]
    BY <2>1 DEF Overwrite
  <2>. QED  BY <1>4, <2>1, <2>3
<1>9. /\ \A k \in Lists(p)' : /\ k \in Nat \ {0} /\ k + 1 \in Lists(p)
                              /\ recv_queue'[p][k] = recv_queue[p][k + 1]
      /\ \A k \in Lists(p) : k = 1 \/ \E j \in Lists(p)' : j + 1 = k
      /\ \A k \in Nat \ {0} : k \in Ends(p)' <=> k + 1 \in Ends(p)
  <2>1. /\ recv_queue[p] \in Seq(Message) /\ recv_queue[p] # <<>>
        /\ recv_queue'[p] = Tail(recv_queue[p])
    BY <1>1, TakeInv
  <2>2. /\ Lists(p) \subseteq Nat \ {0} /\ Lists(p)' \subseteq Nat \ {0}
        /\ \A k \in Nat \ {0} : /\ k \in Lists(p)' <=> k + 1 \in Lists(p)
                                /\ k \in Ends(p)' <=> k + 1 \in Ends(p)
                                /\ k \in Lists(p)' =>
                                      recv_queue'[p][k] = recv_queue[p][k + 1]
    BY <2>1, ListsTail
  <2>3. ASSUME NEW k \in Lists(p), k # 1 PROVE \E j \in Lists(p)' : j + 1 = k
    <3>1. k - 1 \in Nat \ {0} /\ (k - 1) + 1 = k
      BY <2>2, <2>3
    <3>. QED  BY <2>2, <3>1
  <2>. QED  BY <2>2, <2>3
<1>10. BeliefsTrue'
  <2>1. SUFFICES ASSUME NEW q \in Client
                 PROVE /\ \A n, i : (n \in DOMAIN member_ids'[q] /\ i = member_ids'[q][n])
                                       => IsEntry(n, i)
                       /\ \A k \in Lists(q)' : \A x \in recv_queue'[q][k].members :
                             IsEntry(x[1], x[2])
    BY <1>t DEF BeliefsTrue
  <2>2. CASE q = p
    <3>1. \A n \in DOMAIN member_ids'[p] : IsEntry(n, member_ids'[p][n])
      BY <1>5, <1>8 DEF BeliefsTrue
    <3>. QED  BY <1>9, <2>2, <3>1 DEF BeliefsTrue
  <2>3. CASE q # p
    BY <1>8, <1>t, <2>3 DEF BeliefsTrue
  <2>. QED  BY <2>2, <2>3
<1>11. AllTold'
  <2>1. SUFFICES ASSUME NEW q \in Client, Initialised(q),
                        NEW i \in ForEachWithName \ {member_id[conn_of[q]]},
                        NEW n, n = name[clients_by_id[i]]
                 PROVE  \/ n \in DOMAIN member_ids'[q] /\ member_ids'[q][n] = i
                        \/ \E k \in Lists(q)' : <<n, i>> \in recv_queue'[q][k].members
    BY <1>t DEF AllTold, Knows, WillLearn, storeVars
  <2>2. Knows(q, n, i) \/ WillLearn(q, n, i)
    BY <2>1 DEF AllTold
  <2>3. IsEntry(n, i)
    BY <2>1 DEF IsEntry
  <2>4. CASE q # p
    BY <1>8, <1>t, <2>2, <2>4 DEF Knows, WillLearn
  <2>5. CASE q = p /\ Knows(p, n, i)
    <3>1. n \in names => ids[n] = i
      BY <1>5, <2>3, EntriesUnique
    <3>. QED  BY <1>8, <2>5, <3>1 DEF Knows
  <2>6. CASE q = p /\ WillLearn(p, n, i)
    <3>1. PICK k \in Lists(p) : <<n, i>> \in recv_queue[p][k].members
      BY <2>6 DEF WillLearn
    <3>2. CASE k = 1
      <4>1. n \in names
        BY <1>5, <3>1, <3>2 DEF m
      <4>2. ids[n] = i
        BY <1>5, <2>3, <4>1, EntriesUnique
      <4>. QED  BY <1>8, <2>6, <4>1, <4>2
    <3>3. CASE \E j \in Lists(p)' : j + 1 = k
      BY <1>9, <2>6, <3>1, <3>3
    <3>. QED  BY <1>9, <3>2, <3>3
  <2>. QED  BY <2>2, <2>4, <2>5, <2>6
<1>12. SelfTold'
  <2>1. SUFFICES ASSUME NEW q \in Client, Initialised(q)
                 PROVE  IF Ends(q)' = {} THEN self_member_id'[q] = member_id[conn_of[q]]
                        ELSE \E k \in Ends(q)' :
                                /\ LastEnd(q, k)'
                                /\ recv_queue'[q][k].end = member_id[conn_of[q]]
    BY <1>t DEF SelfTold, storeVars
  <2>2. CASE q # p
    BY <1>8, <1>t, <2>1, <2>2 DEF SelfTold, LastEnd, Ends
  <2>3. CASE q = p /\ Ends(p) = {}
    <3>1. m.end = 0 /\ Ends(p)' = {}
      BY <1>2, <1>9, <2>3 DEF m, Ends
    <3>. QED  BY <1>4, <2>1, <2>3, <3>1 DEF SelfTold, MembersTypeOK
  <2>4. CASE q = p /\ Ends(p) # {}
    <3>1. PICK k \in Ends(p) : LastEnd(p, k) /\ recv_queue[p][k].end = member_id[conn_of[p]]
      BY <2>1, <2>4 DEF SelfTold
    <3>2. CASE k = 1
      <4>1. Ends(p)' = {}
        BY <1>9, <3>1, <3>2 DEF LastEnd, Ends
      <4>2. m.end # 0 /\ m.end = member_id[conn_of[p]]
        BY <3>1, <3>2 DEF m, Ends
      <4>. QED  BY <1>4, <2>4, <4>1, <4>2 DEF MembersTypeOK
    <3>3. CASE k # 1
      <4>1. PICK j \in Lists(p)' : j + 1 = k
        BY <1>9, <3>1, <3>3 DEF Ends
      <4>2. j \in Ends(p)' /\ recv_queue'[p][j].end = member_id[conn_of[p]]
        BY <1>9, <3>1, <4>1
      <4>3. \A l \in Ends(p)' : l \in Nat /\ l <= j
        BY <1>9, <3>1, <4>1 DEF LastEnd, Ends
      <4>. QED  BY <2>4, <4>2, <4>3 DEF LastEnd
    <3>. QED  BY <3>2, <3>3
  <2>. QED  BY <2>2, <2>3, <2>4
<1>. QED  BY <1>7, <1>10, <1>11, <1>12

LEMMA RecvClosedInv ==
    ASSUME MembersInv, StoreInv', NEW p \in Client, RecvClosed(p)
    PROVE  MembersInv'
<1> DEFINE id == Head(recv_queue[p]).id
<1> USE DEF MembersInv
<1>1. /\ Take(p, "closed")
      /\ UNCHANGED <<did_disconnect, sync_init_end, member_ids, self_member_id>>
  BY DEF RecvClosed
<1>t. /\ \A q \in Client : \A n, i : IsEntry(n, i)' = IsEntry(n, i)
      /\ ForEachWithName' = ForEachWithName /\ UNCHANGED storeVars
      /\ \A q \in Client : Initialised(q)' = Initialised(q) /\ conn_of'[q] = conn_of[q]
      /\ \A q \in Client \ {p} :
            recv_queue'[q] = recv_queue[q] /\ Lists(q)' = Lists(q) /\ Ends(q)' = Ends(q)
  BY <1>1, TakeInv
<1>2. PICK n \in MemberNamesFromId(p, id) :
         member_entry' = [member_entry EXCEPT ![p] = Overwrite(@, [x \in {n} |-> FALSE])]
  BY DEF RecvClosed
<1>3. n \in MName
  BY ClientAssumption DEF MemberNamesFromId, MembersTypeOK, IsMap, MName
<1>4. MembersTypeOK'
  <2>1. IsMap(member_entry[p], MName, BOOLEAN) /\ IsMap([x \in {n} |-> FALSE], MName, BOOLEAN)
    BY <1>3 DEF MembersTypeOK, IsMap
  <2>2. IsMap(Overwrite(member_entry[p], [x \in {n} |-> FALSE]), MName, BOOLEAN)
    BY <2>1, OverwriteIsMap
  <2>3. /\ \A q \in Client : IsMap(member_entry'[q], MName, BOOLEAN)
        /\ DOMAIN member_entry' = Client
    BY <1>2, <2>2 DEF MembersTypeOK
  <2>4. LinkTypeOK' /\ recv_queue' \in [Client -> Seq(Message)]
    BY <1>1, TakeInv DEF Take, LinkTypeOK, StoreInv, MembersTypeOK
  <2>. QED  BY <1>1, <2>3, <2>4 DEF MembersTypeOK
\* the message taken was no list, so every list is still there, one place ahead
<1>5. /\ \A k \in Lists(p)' : /\ k \in Nat \ {0} /\ k + 1 \in Lists(p)
                              /\ recv_queue'[p][k] = recv_queue[p][k + 1]
      /\ \A k \in Lists(p) : \E j \in Lists(p)' : j + 1 = k
      /\ \A k \in Nat \ {0} : k \in Ends(p)' <=> k + 1 \in Ends(p)
  <2>1. /\ recv_queue[p] \in Seq(Message) /\ recv_queue[p] # <<>>
        /\ recv_queue'[p] = Tail(recv_queue[p])
    BY <1>1, TakeInv
  <2>2. /\ Lists(p) \subseteq Nat \ {0} /\ Lists(p)' \subseteq Nat \ {0}
        /\ Head(recv_queue[p]) = recv_queue[p][1]
        /\ \A k \in Nat \ {0} : /\ k \in Lists(p)' <=> k + 1 \in Lists(p)
                                /\ k \in Ends(p)' <=> k + 1 \in Ends(p)
                                /\ k \in Lists(p)' =>
                                      recv_queue'[p][k] = recv_queue[p][k + 1]
    BY <2>1, ListsTail
  <2>3. 1 \notin Lists(p)
    BY <1>1, <2>2 DEF Take, Lists
  <2>4. ASSUME NEW k \in Lists(p) PROVE \E j \in Lists(p)' : j + 1 = k
    <3>1. k - 1 \in Nat \ {0} /\ (k - 1) + 1 = k
      BY <2>2, <2>3, <2>4
    <3>. QED  BY <2>2, <3>1
  <2>. QED  BY <2>2, <2>4
<1>6. BeliefsTrue'
  <2>1. SUFFICES ASSUME NEW q \in Client
                 PROVE /\ \A m \in DOMAIN member_ids[q] : IsEntry(m, member_ids[q][m])
                       /\ \A k \in Lists(q)' : \A x \in recv_queue'[q][k].members :
                             IsEntry(x[1], x[2])
    BY <1>1, <1>t DEF BeliefsTrue
  <2>. QED  BY <1>5, <1>t DEF BeliefsTrue
<1>7. AllTold'
  <2>1. SUFFICES ASSUME NEW q \in Client, Initialised(q),
                        NEW i \in ForEachWithName \ {member_id[conn_of[q]]},
                        NEW n_1, n_1 = name[clients_by_id[i]]
                 PROVE  \/ Knows(q, n_1, i)
                        \/ \E k \in Lists(q)' : <<n_1, i>> \in recv_queue'[q][k].members
    BY <1>1, <1>t DEF AllTold, Knows, WillLearn, storeVars
  <2>2. Knows(q, n_1, i) \/ WillLearn(q, n_1, i)
    BY <2>1 DEF AllTold
  <2>3. CASE q # p
    BY <1>t, <2>2, <2>3 DEF WillLearn
  <2>4. CASE q = p
    BY <1>5, <2>2, <2>4 DEF WillLearn
  <2>. QED  BY <2>3, <2>4
<1>8. SelfTold'
  <2>1. SUFFICES ASSUME NEW q \in Client, Initialised(q)
                 PROVE  IF Ends(q)' = {} THEN self_member_id[q] = member_id[conn_of[q]]
                        ELSE \E k \in Ends(q)' :
                                /\ LastEnd(q, k)'
                                /\ recv_queue'[q][k].end = member_id[conn_of[q]]
    BY <1>1, <1>t DEF SelfTold, storeVars
  <2>2. CASE q # p
    BY <1>t, <2>1, <2>2 DEF SelfTold, LastEnd, Ends
  <2>3. CASE q = p /\ Ends(p) = {}
    <3>1. Ends(p)' = {}
      BY <1>5, <2>3 DEF Ends
    <3>. QED  BY <2>1, <2>3, <3>1 DEF SelfTold
  <2>4. CASE q = p /\ Ends(p) # {}
    <3>1. PICK k \in Ends(p) : LastEnd(p, k) /\ recv_queue[p][k].end = member_id[conn_of[p]]
      BY <2>1, <2>4 DEF SelfTold
    <3>2. PICK j \in Lists(p)' : j + 1 = k
      BY <1>5, <3>1 DEF Ends
    <3>3. j \in Ends(p)' /\ recv_queue'[p][j].end = member_id[conn_of[p]]
      BY <1>5, <3>1, <3>2
    <3>4. \A l \in Ends(p)' : l \in Nat /\ l <= j
      BY <1>5, <3>1, <3>2 DEF LastEnd, Ends
    <3>. QED  BY <2>4, <3>3, <3>4 DEF LastEnd
  <2>. QED  BY <2>2, <2>3, <2>4
<1>. QED  BY <1>4, <1>6, <1>7, <1>8

LEMMA MembersNextInv == MembersInv /\ [MembersNext]_membersVars => MembersInv'
<1> SUFFICES ASSUME MembersInv, [MembersNext]_membersVars PROVE MembersInv'
  OBVIOUS
<1>1. StoreInv'
  BY MembersStoreStep, NextStoreInv DEF MembersInv
<1>2. CASE UNCHANGED membersVars
  <2>1. /\ MembersTypeOK' /\ ForEachWithName' = ForEachWithName
        /\ \A p \in Client : Initialised(p)' = Initialised(p)
    BY <1>2 DEF MembersInv, MembersTypeOK, LinkTypeOK, StoreTypeOK, ForEachWithName,
       Initialised, membersVars, memberVars, linkVars, storeVars
  <2>. QED  BY <1>1, <1>2, <2>1, MembersStoreStep, SameQueues
       DEF membersVars, memberVars, linkVars, storeVars
<1>3. ASSUME NEW c \in Conn, SyncInit(c) PROVE MembersInv'
  BY <1>1, <1>3, SyncInitInv DEF SyncInit
<1>4. ASSUME NEW p \in Client, App(p) PROVE MembersInv'
  BY <1>1, <1>4, ReportDisconnectInv, RecvSyncInitInv, RecvClosedInv DEF App
<1>5. ASSUME NEW p \in Client, NEW c \in Conn, Connect(p, c) PROVE MembersInv'
  BY <1>1, <1>5, ConnectInv
<1>6. ASSUME NEW p \in Client, Disconnect(p) PROVE MembersInv'
  BY <1>1, <1>6, DisconnectInv
<1>7. ASSUME NEW c \in Conn, Close(c) PROVE MembersInv'
  BY <1>1, <1>7, CloseInv
<1>. QED  BY <1>2, <1>3, <1>4, <1>5, <1>6, <1>7 DEF MembersNext

\* What clients believe of each other is consistent with the registry in every
\* reachable state, messages on their way included.
THEOREM MembersConsistent == MembersSpec => []MembersInv
BY MembersInitInv, MembersNextInv, PTL DEF MembersSpec

\* The state of the registry, the links and the clients has its types.
THEOREM MembersTypes == MembersSpec => []MembersTypeOK
<1>1. MembersInv => MembersTypeOK
  BY DEF MembersInv
<1>. QED  BY <1>1, MembersConsistent, PTL

\* A client that has processed all it was sent knows its own id and the id of every
\* other named member (KnowsMembers).
THEOREM MembersKnown == MembersSpec => []KnowsMembers
<1>1. MembersInv => KnowsMembers
  <2>1. SUFFICES ASSUME MembersInv, NEW p \in Client, UpToDate(p)
                 PROVE  /\ self_member_id[p] = member_id[conn_of[p]]
                        /\ \A i \in ForEachWithName \ {self_member_id[p]} :
                              Knows(p, name[clients_by_id[i]], i)
    BY DEF KnowsMembers, Knows
  <2>2. Lists(p) = {} /\ Ends(p) = {} /\ Initialised(p)
    BY <2>1 DEF UpToDate, Lists, Ends
  <2>3. self_member_id[p] = member_id[conn_of[p]]
    BY <2>1, <2>2 DEF MembersInv, SelfTold
  <2>. QED  BY <2>1, <2>2, <2>3 DEF MembersInv, AllTold, WillLearn
<1>. QED  BY <1>1, MembersConsistent, PTL

---------------------------------------------------------------------------
(* What arrives at a client: one message more at the end. *)

LEMMA OneMore ==
    ASSUME NEW a \in Seq(FromServer), NEW m \in FromServer
    PROVE  /\ Append(a, m) \in Seq(FromServer) /\ Len(Append(a, m)) = Len(a) + 1
           /\ Append(a, m)[Len(a) + 1] = m /\ Len(a) \in Nat
           /\ \A i \in 1 .. Len(a) : Append(a, m)[i] = a[i]
BY AppendProperties, LenProperties

LEMMA UnderIdAppend ==
    ASSUME NEW a \in Seq(FromServer), NEW m \in FromServer, NEW l \in 0 .. Len(a) + 1, NEW id
    PROVE  UnderId(Append(a, m), l, id) =
               UnderId(a, l, id) \cup (IF l <= Len(a) /\ m.kind = "entry" /\ m.id = id THEN m.data ELSE {})
<1> DEFINE b == Append(a, m)
           n == Len(a)
           A == {j \in l + 1 .. n : a[j].kind = "entry" /\ a[j].id = id}
           B == {j \in l + 1 .. n + 1 : b[j].kind = "entry" /\ b[j].id = id}
<1>1. n \in Nat /\ Len(b) = n + 1 /\ b[n + 1] = m /\ \A i \in 1 .. n : b[i] = a[i]
  BY OneMore
<1> HIDE DEF b
<1>2. B = A \cup (IF l <= n /\ m.kind = "entry" /\ m.id = id THEN {n + 1} ELSE {})
  <2>1. \A j \in l + 1 .. n : j \in 1 .. n /\ j \in l + 1 .. n + 1 /\ b[j] = a[j]
    BY <1>1
  <2>2. \A j \in l + 1 .. n + 1 : j \in l + 1 .. n \/ (j = n + 1 /\ l <= n)
    BY <1>1
  <2>3. l <= n => n + 1 \in l + 1 .. n + 1
    BY <1>1
  <2>4. l > n => l + 1 .. n + 1 = {} /\ l + 1 .. n = {}
    BY <1>1
  <2>. QED  BY <1>1, <2>1, <2>2, <2>3, <2>4
<1>3. UnderId(a, l, id) = UNION {a[i].data : i \in A} /\ UnderId(b, l, id) = UNION {b[i].data : i \in B}
  BY <1>1 DEF UnderId
<1>4. \A i \in A : b[i] = a[i]
  BY <1>1
<1> HIDE DEF A, B, n
<1>5. UNION {b[i].data : i \in A} = UNION {a[i].data : i \in A}
  BY <1>4
<1>6. CASE l <= n /\ m.kind = "entry" /\ m.id = id
  <2>1. B = A \cup {n + 1}
    BY <1>2, <1>6
  <2> DEFINE k == n + 1
             u == UNION {b[i].data : i \in A}
  <2>2. b[k] = m
    BY <1>1
  <2> HIDE DEF k
  <2>3. UNION {b[i].data : i \in A \cup {k}} = u \cup b[k].data
    OBVIOUS
  <2>4. UNION {b[i].data : i \in B} = u \cup m.data
    BY <2>1, <2>2, <2>3 DEF k
  <2>5. UnderId(b, l, id) = UnderId(a, l, id) \cup m.data
    BY <1>3, <1>5, <2>4
  <2>. QED  BY <1>6, <2>5 DEF b, n
<1>7. CASE ~(l <= n /\ m.kind = "entry" /\ m.id = id)
  <2>1. B = A
    BY <1>2, <1>7
  <2>. QED  BY <1>3, <1>5, <1>7, <2>1 DEF b, n
<1>. QED  BY <1>6, <1>7

LEMMA AppendOther ==
    ASSUME NEW a \in Seq(FromServer), NEW m \in FromServer, NEW l \in 0 .. Len(a),
           NEW n, NEW id, NEW data, WillList(a, n, l, id, data),
           m.kind = "sync_init" => m.name # n /\ m.id # id, m.kind = "entry" => m.id # id
    PROVE  WillList(Append(a, m), n, l, id, data) /\ l \in 0 .. Len(Append(a, m))
<1> DEFINE b == Append(a, m)
<1>1. Len(a) \in Nat /\ Len(b) = Len(a) + 1 /\ b[Len(a) + 1] = m /\ \A i \in 1 .. Len(a) : b[i] = a[i]
  BY OneMore
<1>2. UnderId(b, l, id) = UnderId(a, l, id)
  <2>1. l \in 0 .. Len(a) + 1
    BY <1>1
  <2> DEFINE more == IF l <= Len(a) /\ m.kind = "entry" /\ m.id = id THEN m.data ELSE {}
  <2>2. UnderId(b, l, id) = UnderId(a, l, id) \cup more
    BY <2>1, UnderIdAppend
  <2>3. more = {}
    OBVIOUS
  <2>. QED  BY <2>2, <2>3
<1> HIDE DEF b
<1>3. l # 0 => b[l] = a[l]
  BY <1>1
<1>4. ASSUME NEW i \in l + 1 .. Len(b), b[i].kind = "sync_init" PROVE b[i].name # n /\ b[i].id # id
  <2>1. CASE i = Len(a) + 1
    BY <1>1, <1>4, <2>1
  <2>2. CASE i # Len(a) + 1
    <3>1. i \in l + 1 .. Len(a) /\ b[i] = a[i]
      BY <1>1, <2>2
    <3>. QED  BY <1>4, <3>1 DEF WillList
  <2>. QED  BY <2>1, <2>2
<1>5. IF l = 0 THEN known_ids[n] = id /\ id \in DOMAIN lib_of_id /\ lib_of_id[id] = n
                ELSE IsInit(b[l], n) /\ b[l].id = id
  BY <1>3 DEF WillList, IsInit
<1>6. ~confused => (IF l = 0 THEN listed[n] ELSE {}) \cup UnderId(b, l, id) = data
  BY <1>2 DEF WillList
<1>7. l \in 0 .. Len(b)
  BY <1>1
<1>8. WillList(b, n, l, id, data)
  BY <1>4, <1>5, <1>6 DEF WillList
<1>. QED  BY <1>7, <1>8 DEF b

LEMMA AppendInit ==
    ASSUME NEW a \in Seq(FromServer), NEW n \in Other, NEW id \in Nat
    PROVE  WillList(Append(a, InitOf(n, id)), n, Len(a) + 1, id, {})
<1> DEFINE m == InitOf(n, id)
           b == Append(a, m)
<1>1. m \in FromServer /\ m.kind = "sync_init" /\ m.name = n /\ m.id = id
  BY DEF InitOf, FromServer
<1> HIDE DEF m
<1>2. Len(a) \in Nat /\ Len(b) = Len(a) + 1 /\ b[Len(a) + 1] = m
  BY <1>1, OneMore
<1> HIDE DEF b
<1>3. Len(a) + 1 + 1 .. Len(b) = {} /\ Len(a) + 1 # 0
  BY <1>2
<1>4. UnderId(b, Len(a) + 1, id) = {}
  BY <1>3 DEF UnderId
<1>. QED  BY <1>1, <1>2, <1>3, <1>4 DEF WillList, IsInit, b, m

LEMMA AppendEntries ==
    ASSUME NEW a \in Seq(FromServer), NEW n \in Other, NEW id \in Nat, NEW l \in 0 .. Len(a),
           NEW data, NEW more \in SUBSET Datum, WillList(a, n, l, id, data)
    PROVE  /\ WillList(Append(a, EntriesOf(id, more)), n, l, id, data \cup more)
           /\ l \in 0 .. Len(Append(a, EntriesOf(id, more)))
<1> DEFINE m == EntriesOf(id, more)
           b == Append(a, m)
<1>1. m \in FromServer /\ m.kind = "entry" /\ m.data = more /\ m.id = id
  BY DEF EntriesOf, FromServer
<1> HIDE DEF m
<1>2. Len(a) \in Nat /\ Len(b) = Len(a) + 1 /\ b[Len(a) + 1] = m /\ \A i \in 1 .. Len(a) : b[i] = a[i]
  BY <1>1, OneMore
<1>3. UnderId(b, l, id) = UnderId(a, l, id) \cup more
  <2>1. l \in 0 .. Len(a) + 1 /\ l <= Len(a)
    BY <1>2
  <2>. QED  BY <1>1, <2>1, UnderIdAppend
<1> HIDE DEF b
<1>4. l # 0 => b[l] = a[l]
  BY <1>2
<1>5. ASSUME NEW i \in l + 1 .. Len(b), b[i].kind = "sync_init" PROVE b[i].name # n /\ b[i].id # id
  <2>1. i \in l + 1 .. Len(a) /\ b[i] = a[i]
    BY <1>1, <1>2, <1>5
  <2>. QED  BY <1>5, <2>1 DEF WillList
<1>6. IF l = 0 THEN known_ids[n] = id /\ id \in DOMAIN lib_of_id /\ lib_of_id[id] = n
                ELSE IsInit(b[l], n) /\ b[l].id = id
  BY <1>4 DEF WillList, IsInit
<1>7. ~confused => (IF l = 0 THEN listed[n] ELSE {}) \cup UnderId(b, l, id) = data \cup more
  BY <1>3 DEF WillList
<1>8. l \in 0 .. Len(b)
  BY <1>2
<1>9. WillList(b, n, l, id, data \cup more)
  BY <1>5, <1>6, <1>7 DEF WillList
<1>. QED  BY <1>8, <1>9 DEF b, m

LEMMA UpToDateHasId ==
    ASSUME NEW a \in Seq(FromServer), NEW l \in 0 .. Len(a), NEW n, NEW id, NEW data,
           WillList(a, n, l, id, data)
    PROVE  WillHaveId(a, n, Len(a) + 1, id)
<1>1. Len(a) \in Nat /\ l \in 0 .. Len(a) + 1 - 1 /\ Len(a) + 1 - 1 = Len(a)
  BY LenProperties
<1>2. IF l = 0 THEN known_ids[n] = id ELSE IsInit(a[l], n) /\ a[l].id = id
  BY DEF WillList
<1>3. \A j \in l + 1 .. Len(a) : ~IsInit(a[j], n)
  BY DEF WillList, IsInit
<1>. QED  BY <1>1, <1>2, <1>3 DEF WillHaveId

LEMMA WillHaveIdKept ==
    ASSUME NEW a, NEW b, NEW i \in Nat, NEW n, NEW id, WillHaveId(a, n, i, id),
           \A j \in 1 .. i - 1 : b[j] = a[j]
    PROVE  WillHaveId(b, n, i, id)
<1>1. PICK l \in 0 .. i - 1 :
          /\ IF l = 0 THEN known_ids[n] = id ELSE IsInit(a[l], n) /\ a[l].id = id
          /\ \A j \in l + 1 .. i - 1 : ~IsInit(a[j], n)
  BY DEF WillHaveId
<1>2. l # 0 => b[l] = a[l]
  OBVIOUS
<1>3. \A j \in l + 1 .. i - 1 : b[j] = a[j]
  OBVIOUS
<1>. QED  BY <1>1, <1>2, <1>3 DEF WillHaveId

LEMMA OwnersKnownAppend ==
    ASSUME NEW a \in Seq(FromServer), NEW m \in FromServer, OwnersKnown(a),
           m.kind = "entry" => \E n \in Other : m.data \subseteq ever[n] /\ WillHaveId(a, n, Len(a) + 1, m.id)
    PROVE  OwnersKnown(Append(a, m))
<1> DEFINE b == Append(a, m)
<1>1. b \in Seq(FromServer) /\ Len(a) \in Nat /\ Len(b) = Len(a) + 1 /\ b[Len(a) + 1] = m
      /\ \A i \in 1 .. Len(a) : b[i] = a[i]
  BY OneMore
<1>2. DOMAIN b = 1 .. Len(a) + 1 /\ DOMAIN a = 1 .. Len(a)
  BY <1>1, LenProperties
<1> HIDE DEF b
<1> SUFFICES ASSUME NEW i \in DOMAIN b, b[i].kind = "entry"
             PROVE  \E n \in Other : b[i].data \subseteq ever[n] /\ WillHaveId(b, n, i, b[i].id)
  BY DEF OwnersKnown, b
<1>3. PICK n \in Other : b[i].data \subseteq ever[n] /\ WillHaveId(a, n, i, b[i].id)
  <2>1. CASE i = Len(a) + 1
    BY <1>1, <2>1
  <2>2. CASE i # Len(a) + 1
    <3>1. i \in DOMAIN a /\ b[i] = a[i]
      BY <1>1, <1>2, <2>2
    <3>. QED  BY <3>1 DEF OwnersKnown
  <2>. QED  BY <2>1, <2>2
<1>4. i \in Nat /\ \A j \in 1 .. i - 1 : b[j] = a[j]
  BY <1>1, <1>2
<1>. QED  BY <1>3, <1>4, WillHaveIdKept

---------------------------------------------------------------------------
(* A client connects: what it is told of one member after the other. *)

\* What the server adds after a message, when that is about nobody of these.
LEMMA TellsOthers ==
    ASSUME EntriesTypeOK, ServerIdsApart, NEW a \in Seq(FromServer), NEW S \in SUBSET KnownMembers, Tells(a, S),
           NEW n \in KnownMembers, n \notin S, NEW m \in FromServer, m.kind = "sync_init" => m.name = n,
           m.kind # "sync_init_end" => m.id = server_ids[n]
    PROVE  Tells(Append(a, m), S)
<1> SUFFICES ASSUME NEW o \in S
             PROVE  \E l \in 0 .. Len(Append(a, m)) :
                      WillList(Append(a, m), o, l, server_ids[o], Unhidden(server_data[o]))
  BY DEF Tells
<1>1. PICK l \in 0 .. Len(a) : WillList(a, o, l, server_ids[o], Unhidden(server_data[o]))
  BY DEF Tells
<1>2. o # n /\ server_ids[o] # server_ids[n]
  BY DEF ServerIdsApart, KnownMembers, Everyone
<1>3. m.kind = "sync_init" => m.name # o /\ m.id # server_ids[o]
  BY <1>2
<1>4. m.kind = "entry" => m.id # server_ids[o]
  BY <1>2
<1>. QED  BY <1>1, <1>3, <1>4, AppendOther

LEMMA TellMember ==
    ASSUME EntriesTypeOK, ServerIdsApart, OnlyOwn, NEW a \in Seq(FromServer), NEW S \in SUBSET KnownMembers,
           Tells(a, S), OwnersKnown(a), NEW n \in KnownMembers, n \notin S
    PROVE  /\ a \o TellOf(n) \in Seq(FromServer) /\ TellOf(n) \in Seq(FromServer)
           /\ Tells(a \o TellOf(n), S \cup {n}) /\ OwnersKnown(a \o TellOf(n))
<1> DEFINE id == server_ids[n]
           data == Unhidden(server_data[n])
           i == InitOf(n, id)
           e == EntriesOf(id, data)
           b == Append(a, i)
           c == Append(b, e)
<1>1. n \in Other /\ id \in Nat /\ data \in SUBSET Datum /\ data \subseteq ever[n]
  BY DEF KnownMembers, EntriesTypeOK, Everyone, Unhidden, OnlyOwn
<1>2. i \in FromServer /\ i.kind = "sync_init" /\ i.name = n /\ i.id = id
  BY <1>1 DEF InitOf, FromServer
<1>3. e \in FromServer /\ e.kind = "entry" /\ e.data = data /\ e.id = id
  BY <1>1 DEF EntriesOf, FromServer
<1>4. TellOf(n) = <<i>> \o (IF data = {} THEN <<>> ELSE <<e>>)
  BY DEF TellOf
<1> HIDE DEF id, data
<1>5. WillList(b, n, Len(a) + 1, id, {})
  BY <1>1, AppendInit
<1> HIDE DEF i, e
<1>6. b \in Seq(FromServer) /\ Len(b) = Len(a) + 1 /\ Len(a) \in Nat /\ Len(a) + 1 \in 0 .. Len(b)
  BY <1>2, OneMore
<1>7. Tells(b, S)
  BY <1>2, TellsOthers DEF id
<1>8. OwnersKnown(b)
  BY <1>2, OwnersKnownAppend
<1> HIDE DEF b
<1>9. CASE data = {}
  <2>1. TellOf(n) = <<i>> /\ <<i>> \in Seq(FromServer)
    BY <1>2, <1>4, <1>9
  <2>2. a \o TellOf(n) = b
    BY <1>2, <2>1, AppendIsConcat DEF b
  <2>3. Tells(b, S \cup {n})
    BY <1>5, <1>6, <1>7, <1>9 DEF Tells, id, data
  <2>. QED  BY <1>6, <1>8, <2>1, <2>2, <2>3
<1>10. CASE data # {}
  <2>1. c \in Seq(FromServer) /\ \E l \in 0 .. Len(c) : WillList(c, n, l, id, data)
    <3>1. WillList(c, n, Len(a) + 1, id, {} \cup data) /\ Len(a) + 1 \in 0 .. Len(c)
      BY <1>1, <1>5, <1>6, AppendEntries DEF e
    <3>2. {} \cup data = data
      OBVIOUS
    <3>. QED  BY <1>3, <1>6, <3>1, <3>2, OneMore
  <2>2. Tells(c, S)
    BY <1>3, <1>6, <1>7, TellsOthers DEF id
  <2>3. Tells(c, S \cup {n})
    BY <2>1, <2>2 DEF Tells, id, data
  <2>4. WillHaveId(b, n, Len(b) + 1, id)
    BY <1>5, <1>6, UpToDateHasId
  <2>5. OwnersKnown(c)
    BY <1>1, <1>3, <1>6, <1>8, <2>4, OwnersKnownAppend
  <2>6. a \o TellOf(n) = c /\ TellOf(n) \in Seq(FromServer)
    <3>1. TellOf(n) = <<i>> \o <<e>>
      BY <1>4, <1>10
    <3>2. <<i>> \in Seq(FromServer) /\ <<e>> \in Seq(FromServer)
      BY <1>2, <1>3
    <3>3. a \o (<<i>> \o <<e>>) = (a \o <<i>>) \o <<e>>
      BY <3>2, ConcatAssociative
    <3>4. a \o <<i>> = b /\ b \o <<e>> = c
      BY <1>2, <1>3, <1>6, AppendIsConcat DEF b
    <3>5. <<i>> \o <<e>> \in Seq(FromServer)
      BY <3>2, ConcatProperties
    <3>. QED  BY <3>1, <3>3, <3>4, <3>5
  <2>. QED  BY <2>1, <2>3, <2>5, <2>6
<1>. QED  BY <1>9, <1>10

LEMMA OrderedAll ==
    ASSUME EntriesTypeOK, NEW order \in [1 .. Cardinality(KnownMembers) -> KnownMembers],
           \A i, j \in DOMAIN order : i < j => server_ids[order[i]] < server_ids[order[j]]
    PROVE  /\ Cardinality(KnownMembers) \in Nat
           /\ \A n \in KnownMembers : \E i \in DOMAIN order : order[i] = n
           /\ \A i, j \in DOMAIN order : order[i] = order[j] => i = j
<1> DEFINE K == KnownMembers
           c == Cardinality(K)
<1>1. IsFiniteSet(K) /\ c \in Nat
  <2>1. K \subseteq Other
    BY DEF KnownMembers
  <2>2. IsFiniteSet(K)
    BY <2>1, OtherAssumption, FS_Subset
  <2>. QED  BY <2>2, FS_CardinalityType
<1>2. IsFiniteSet(1 .. c) /\ Cardinality(1 .. c) = c
  BY <1>1, FS_Interval
<1>3. \A i, j \in 1 .. c : order[i] = order[j] => i = j
  <2> SUFFICES ASSUME NEW i \in 1 .. c, NEW j \in 1 .. c, order[i] = order[j], i # j PROVE FALSE
    OBVIOUS
  <2>1. order[i] \in KnownMembers /\ order[j] \in KnownMembers
    OBVIOUS
  <2>2. server_ids[order[i]] \in Nat
    BY <2>1 DEF EntriesTypeOK, KnownMembers, Everyone
  <2>3. i < j \/ j < i
    BY <1>1
  <2>. QED  BY <2>2, <2>3
<1>4. order \in Injection(1 .. c, K)
  BY <1>3 DEF Injection, IsInjective
<1>5. order \in Surjection(1 .. c, K)
  BY <1>1, <1>2, <1>4, FS_Injection
<1>6. \A n \in K : \E i \in 1 .. c : order[i] = n
  BY <1>5 DEF Surjection
<1>. QED  BY <1>1, <1>3, <1>6

LEMMA LinkTells ==
    ASSUME EntriesTypeOK, ServerIdsApart, OnlyOwn, NEW a \in Seq(FromServer), OwnersKnown(a),
           NEW order \in [1 .. Cardinality(KnownMembers) -> KnownMembers],
           \A i, j \in DOMAIN order : i < j => server_ids[order[i]] < server_ids[order[j]]
    PROVE  LET b == a \o FlattenSeq([i \in DOMAIN order |-> TellOf(order[i])]) IN
           b \in Seq(FromServer) /\ Tells(b, KnownMembers) /\ OwnersKnown(b)
<1> DEFINE K == KnownMembers
           c == Cardinality(K)
           q == [i \in DOMAIN order |-> TellOf(order[i])]
           Done(i) == {order[j] : j \in 1 .. i}
<1>1. /\ c \in Nat /\ \A n \in K : \E i \in 1 .. c : order[i] = n
      /\ \A i, j \in 1 .. c : order[i] = order[j] => i = j
  <2>1. DOMAIN order = 1 .. c
    OBVIOUS
  <2>. QED  BY <2>1, OrderedAll
<1>2. q \in Seq(Seq(FromServer)) /\ Len(q) = c /\ DOMAIN q = 1 .. c
  <2>1. \A i \in 1 .. c : TellOf(order[i]) \in Seq(FromServer)
    <3> SUFFICES ASSUME NEW i \in 1 .. c PROVE TellOf(order[i]) \in Seq(FromServer)
      OBVIOUS
    <3>1. order[i] \in K /\ Tells(a, {}) /\ {} \in SUBSET KnownMembers
      BY DEF Tells
    <3>. QED  BY <3>1, TellMember
  <2>. QED  BY <1>1, <2>1
<1>3. \A i \in 1 .. c : q[i] = TellOf(order[i])
  OBVIOUS
<1> HIDE DEF q
<1>4. CASE c = 0
  <2>1. q = <<>> /\ K = {}
    BY <1>1, <1>2, <1>4
  <2>2. FlattenSeq(q) = <<>>
    BY <2>1 DEF FlattenSeq
  <2>3. a \o FlattenSeq(q) = a
    BY <2>2, ConcatEmptySeq
  <2>4. Tells(a, K)
    BY <2>1 DEF Tells
  <2>. QED  BY <2>3, <2>4 DEF q
<1>5. CASE c # 0
  <2>1. q # <<>>
    BY <1>2, <1>5
  <2>2. PICK f : Flattens(f, q, c) /\ FlattenSeq(q) = f[c]
    BY <1>2, <2>1, FlattenDefined
  <2> DEFINE Ok(i) == /\ f[i] \in Seq(FromServer) /\ a \o f[i] \in Seq(FromServer)
                      /\ Tells(a \o f[i], Done(i)) /\ OwnersKnown(a \o f[i])
             T == {i \in 1 .. c : Ok(i)}
  <2>3. 1 \in T
    <3>1. 1 \in 1 .. c /\ order[1] \in K /\ Done(1) = {} \cup {order[1]}
      BY <1>1, <1>5
    <3>2. f[1] = q[1] /\ q[1] = TellOf(order[1])
      BY <1>3, <2>2, <3>1 DEF Flattens, FlattenStep
    <3>3. Tells(a, {}) /\ {} \in SUBSET KnownMembers /\ order[1] \notin {}
      BY DEF Tells
    <3> HIDE DEF Done
    <3>4. Ok(1)
      BY <3>1, <3>2, <3>3, TellMember
    <3>. QED  BY <3>1, <3>4
  <2>4. ASSUME NEW i \in 1 .. c - 1, i \in T PROVE i + 1 \in T
    <3>1. PICK j \in 1 .. c : j = i + 1
      BY <1>1
    <3>2. i \in 1 .. c /\ j # 1 /\ j - 1 = i /\ order[j] \in K
      BY <1>1, <3>1
    <3>3. f[j] = f[i] \o q[j]
      <4>1. f[j] = FlattenStep(f, q, j)
        BY <2>2 DEF Flattens
      <4>. QED  BY <3>2, <4>1, Zenon DEF FlattenStep
    <3>4. q[j] = TellOf(order[j])
      BY <1>3
    <3>5. Done(j) = Done(i) \cup {order[j]} /\ order[j] \notin Done(i) /\ Done(i) \in SUBSET KnownMembers
      <4>1. 1 .. j = 1 .. i \cup {j} /\ 1 .. i \subseteq 1 .. c /\ j \notin 1 .. i
        BY <1>1, <3>1
      <4>2. Done(j) = Done(i) \cup {order[j]}
        BY <4>1
      <4>3. order[j] \notin Done(i)
        BY <1>1, <4>1
      <4>4. Done(i) \in SUBSET KnownMembers
        BY <4>1
      <4>. QED  BY <4>2, <4>3, <4>4
    <3> HIDE DEF Done
    <3>6. Ok(i)
      BY <2>4
    <3> DEFINE u == f[i]
               v == TellOf(order[j])
               w == a \o u
               d == Done(i)
               k == order[j]
    <3>7. /\ w \o v \in Seq(FromServer) /\ v \in Seq(FromServer)
          /\ Tells(w \o v, Done(j)) /\ OwnersKnown(w \o v)
      <4>1. w \in Seq(FromServer) /\ Tells(w, d) /\ OwnersKnown(w)
        BY <3>6
      <4>2. d \in SUBSET KnownMembers /\ k \in KnownMembers /\ k \notin d /\ Done(j) = d \cup {k}
        BY <3>2, <3>5
      <4> HIDE DEF w, d, k
      <4>3. /\ w \o TellOf(k) \in Seq(FromServer) /\ TellOf(k) \in Seq(FromServer)
            /\ Tells(w \o TellOf(k), d \cup {k}) /\ OwnersKnown(w \o TellOf(k))
        BY <4>1, <4>2, TellMember
      <4>. QED  BY <4>2, <4>3 DEF k
    <3> HIDE DEF v, u
    <3>8. u \in Seq(FromServer)
      BY <3>6 DEF u
    <3>9. (a \o u) \o v = a \o (u \o v)
      BY <3>7, <3>8, ConcatAssociative
    <3>10. u \o v \in Seq(FromServer)
      BY <3>7, <3>8, ConcatProperties
    <3>11. f[j] = u \o v
      BY <3>3, <3>4 DEF u, v
    <3>12. Ok(j)
      BY <3>7, <3>9, <3>10, <3>11
    <3> HIDE DEF Ok
    <3>. QED  BY <3>1, <3>12
  <2> HIDE DEF T, Ok
  <2>5. 1 .. c \subseteq T
    BY <1>1, <2>3, <2>4, UpToInduction
  <2>6. Ok(c)
    BY <1>1, <1>5, <2>5 DEF T
  <2>7. Done(c) = K
    <3>1. \A i \in 1 .. c : order[i] \in K
      OBVIOUS
    <3>. QED  BY <1>1, <3>1
  <2>. QED  BY <2>2, <2>6, <2>7 DEF q, Ok
<1>. QED  BY <1>4, <1>5

---------------------------------------------------------------------------
(* EntriesInv is inductive: the steps of the server. *)

LEMMA EntriesInvInit == EntriesInit => EntriesInv
<1> SUFFICES ASSUME EntriesInit PROVE EntriesInv
  OBVIOUS
<1>1. EntriesTypeOK
  <2>1. <<>> \in Seq(FromServer)
    OBVIOUS
  <2>2. server_ids \in [Everyone -> Nat] /\ last_given_id \in Nat /\ own_id \in Nat
    BY DEF EntriesInit
  <2>3. /\ server_data \in [Other -> SUBSET Datum] /\ ever \in [Other -> SUBSET Datum]
        /\ known_ids \in [Other -> Nat] /\ listed \in [Other -> SUBSET Datum]
    BY DEF EntriesInit
  <2>. QED  BY <2>1, <2>2, <2>3 DEF EntriesInit, EntriesTypeOK
<1>2. ServerIdsApart /\ OwnersKnown(arriving) /\ WillBeTold /\ OnlyOwn
  BY DEF EntriesInit, ServerIdsApart, OwnersKnown, WillBeTold, OnlyOwn
<1>3. CallbacksTold
  BY DEF EntriesInit, CallbacksTold
<1>. QED  BY <1>1, <1>2, <1>3 DEF EntriesInv

\* Only what arrives, and what members have sent, has changed.
LEMMA OwnersKnownGrows ==
    ASSUME known_ids' = known_ids, \A n \in Other : ever[n] \subseteq ever'[n], OwnersKnown(arriving')
    PROVE  OwnersKnown(arriving)'
<1> SUFFICES ASSUME NEW i \in DOMAIN arriving', arriving'[i].kind = "entry"
             PROVE  \E n \in Other : /\ arriving'[i].data \subseteq ever'[n]
                                     /\ WillHaveId(arriving, n, i, arriving[i].id)'
  BY DEF OwnersKnown
<1>1. PICK n \in Other : arriving'[i].data \subseteq ever[n] /\ WillHaveId(arriving', n, i, arriving'[i].id)
  BY DEF OwnersKnown
<1>2. WillHaveId(arriving, n, i, arriving[i].id)'
  BY <1>1 DEF WillHaveId, IsInit
<1>3. arriving'[i].data \subseteq ever'[n]
  BY <1>1
<1>. QED  BY <1>2, <1>3

LEMMA WillBeToldSame ==
    ASSUME UNCHANGED <<known_ids, lib_of_id, listed, confused>>,
           linked' => \A n \in KnownMembers' : \E l \in 0 .. Len(arriving') :
               WillList(arriving', n, l, server_ids'[n], Unhidden(server_data'[n]))
    PROVE  WillBeTold'
<1> SUFFICES ASSUME linked', NEW n \in KnownMembers'
             PROVE  \E l \in 0 .. Len(arriving') :
                       WillList(arriving, n, l, server_ids[n], Unhidden(server_data[n]))'
  BY DEF WillBeTold, Tells
<1>1. PICK l \in 0 .. Len(arriving') : WillList(arriving', n, l, server_ids'[n], Unhidden(server_data'[n]))
  OBVIOUS
<1>2. WillList(arriving, n, l, server_ids[n], Unhidden(server_data[n]))'
  BY <1>1 DEF WillList, UnderId, IsInit, Unhidden
<1>. QED  BY <1>2

LEMMA IdentifiedApart ==
    ASSUME EntriesTypeOK, ServerIdsApart, NEW n \in Everyone, Identified(n)
    PROVE  /\ server_ids' \in [Everyone -> Nat] /\ last_given_id' \in Nat /\ ServerIdsApart'
           /\ server_ids'[n] # 0 /\ \A o \in Everyone : o # n => server_ids'[o] = server_ids[o]
<1>1. server_ids \in [Everyone -> Nat] /\ last_given_id \in Nat
  BY DEF EntriesTypeOK
<1>2. last_given_id' = last_given_id + 1
  BY DEF Identified
<1>3. CASE server_ids[n] # 0
  <2>1. server_ids' = server_ids
    BY <1>1, <1>3 DEF Identified
  <2>2. \A o \in Everyone : server_ids[o] <= last_given_id + 1
    BY <1>1 DEF ServerIdsApart
  <2>. QED  BY <1>1, <1>2, <1>3, <2>1, <2>2 DEF ServerIdsApart
<1>4. CASE server_ids[n] = 0
  <2>1. server_ids' = [server_ids EXCEPT ![n] = last_given_id + 1]
    BY <1>1, <1>4 DEF Identified
  <2>2. \A o \in Everyone : server_ids[o] \in Nat /\ server_ids[o] <= last_given_id
    BY <1>1 DEF ServerIdsApart
  <2>3. /\ server_ids' \in [Everyone -> Nat] /\ server_ids'[n] = last_given_id + 1
        /\ \A o \in Everyone : o # n => server_ids'[o] = server_ids[o]
    BY <1>1, <2>1
  <2>4. ServerIdsApart'
    <3>1. \A o \in Everyone : server_ids'[o] <= last_given_id'
      BY <1>1, <1>2, <2>2, <2>3
    <3>2. ASSUME NEW o \in Everyone, NEW m \in Everyone, server_ids'[o] = server_ids'[m], server_ids'[o] # 0
          PROVE  o = m
      BY <1>1, <2>2, <2>3, <3>2 DEF ServerIdsApart
    <3>. QED  BY <3>1, <3>2 DEF ServerIdsApart
  <2>. QED  BY <1>1, <1>2, <2>3, <2>4
<1>. QED  BY <1>3, <1>4

LEMMA UnhiddenUnion ==
    ASSUME NEW A, NEW B
    PROVE  Unhidden(A \cup B) = Unhidden(A) \cup Unhidden(B \ A) /\ Unhidden(A) \subseteq A
BY DEF Unhidden

LEMMA joinInv ==
    ASSUME EntriesInv, NEW n \in Other, join(n)
    PROVE  EntriesInv'
<1> DEFINE id == server_ids'[n]
           m == InitOf(n, id)
<1>1. EntriesTypeOK /\ ServerIdsApart /\ OwnersKnown(arriving) /\ WillBeTold /\ OnlyOwn /\ CallbacksTold
  BY DEF EntriesInv
<1>2. /\ server_data' = [server_data EXCEPT ![n] = {}]
      /\ arriving' = IF linked THEN arriving \o <<m>> ELSE arriving
      /\ UNCHANGED <<normalizes, linked, own_id, known_ids, lib_of_id, listed, listening, heard, unheard,
                     confused, ever>>
  BY DEF join, Tell, presenceVars, entryVars
<1>3. /\ server_ids' \in [Everyone -> Nat] /\ last_given_id' \in Nat /\ ServerIdsApart'
      /\ id # 0 /\ \A o \in Everyone : o # n => server_ids'[o] = server_ids[o]
  <2>1. n \in Everyone /\ Identified(n)
    BY DEF Everyone, join
  <2>. QED  BY <1>1, <2>1, IdentifiedApart
<1>4. arriving \in Seq(FromServer) /\ id \in Nat
  BY <1>1, <1>3 DEF EntriesTypeOK, Everyone
<1>5. m \in FromServer /\ m.kind = "sync_init" /\ m.name = n /\ m.id = id
  BY <1>4 DEF InitOf, FromServer
<1> HIDE DEF m
<1>6. linked => arriving' = Append(arriving, m)
  BY <1>2, <1>4, <1>5, AppendIsConcat
<1>7. EntriesTypeOK'
  <2>1. arriving' \in Seq(FromServer)
    BY <1>2, <1>4, <1>5, <1>6, OneMore
  <2>. QED  BY <1>1, <1>2, <1>3, <2>1 DEF EntriesTypeOK
<1>8. OwnersKnown(arriving)'
  <2>1. OwnersKnown(arriving')
    BY <1>1, <1>2, <1>4, <1>5, <1>6, OwnersKnownAppend
  <2>. QED  BY <1>2, <2>1, OwnersKnownGrows
<1>9. WillBeTold'
  <2>1. ASSUME linked', NEW o \in KnownMembers'
        PROVE  \E l \in 0 .. Len(arriving') :
                   WillList(arriving', o, l, server_ids'[o], Unhidden(server_data'[o]))
    <3>1. linked /\ o \in Other /\ arriving' = Append(arriving, m)
      BY <1>2, <1>6, <2>1 DEF KnownMembers
    <3>2. CASE o = n
      <4>1. WillList(Append(arriving, m), n, Len(arriving) + 1, id, {})
        BY <1>4, AppendInit DEF m
      <4>2. Unhidden(server_data'[n]) = {}
        BY <1>1, <1>2 DEF Unhidden, EntriesTypeOK
      <4>3. Len(arriving) + 1 \in 0 .. Len(arriving')
        BY <1>4, <1>5, <3>1, OneMore
      <4>. QED  BY <3>1, <3>2, <4>1, <4>2, <4>3
    <3>3. CASE o # n
      <4>1. o \in Everyone /\ n \in Everyone /\ server_ids'[o] = server_ids[o] /\ server_data'[o] = server_data[o]
        BY <1>1, <1>2, <1>3, <3>1, <3>3 DEF Everyone, EntriesTypeOK
      <4>2. o \in KnownMembers
        BY <2>1, <3>1, <4>1 DEF KnownMembers
      <4>3. PICK l \in 0 .. Len(arriving) : WillList(arriving, o, l, server_ids[o], Unhidden(server_data[o]))
        BY <1>1, <3>1, <4>2 DEF WillBeTold, Tells
      <4>4. server_ids'[o] # id
        BY <1>3, <3>3, <4>1 DEF ServerIdsApart
      <4>5. (m.kind = "sync_init" => m.name # o /\ m.id # server_ids[o]) /\ m.kind # "entry"
        BY <1>5, <3>3, <4>1, <4>4
      <4>. QED  BY <1>4, <1>5, <3>1, <4>1, <4>3, <4>5, AppendOther
    <3>. QED  BY <3>2, <3>3
  <2>. QED  BY <1>2, <2>1, WillBeToldSame
<1>10. OnlyOwn'
  BY <1>1, <1>2 DEF OnlyOwn, EntriesTypeOK
<1>11. CallbacksTold'
  BY <1>1, <1>2 DEF CallbacksTold, KeysOf
<1>. QED  BY <1>3, <1>7, <1>8, <1>9, <1>10, <1>11 DEF EntriesInv

LEMMA publishInv ==
    ASSUME EntriesInv, NEW n \in Other, NEW data \in Batch[n], publish(n, data)
    PROVE  EntriesInv'
<1> DEFINE stored == Stored(data)
           news == Unhidden(stored \ server_data[n])
           id == server_ids[n]
           m == EntriesOf(id, news)
<1>1. EntriesTypeOK /\ ServerIdsApart /\ OwnersKnown(arriving) /\ WillBeTold /\ OnlyOwn /\ CallbacksTold
  BY DEF EntriesInv
<1>2. /\ id # 0 /\ server_data' = [server_data EXCEPT ![n] = @ \cup stored]
      /\ ever' = [ever EXCEPT ![n] = @ \cup stored]
      /\ arriving' = IF linked THEN arriving \o (IF news = {} THEN <<>> ELSE <<m>>) ELSE arriving
      /\ UNCHANGED <<server_ids, last_given_id, normalizes, linked, own_id, known_ids, lib_of_id, listed,
                     listening, heard, unheard, confused>>
  BY DEF publish, Tell, presenceVars, entryVars
<1>3. stored \in SUBSET Datum
  <2>1. data \in SUBSET (EntryKind \X DataName)
    BY BatchAssumption
  <2>2. ASSUME NEW d \in data PROVE d \in Datum /\ <<d[1], Normalized(d[2])>> \in Datum
    BY <2>1 DEF Datum
  <2>. QED  BY <2>2 DEF Stored
<1>4. /\ news \in SUBSET Datum /\ news \subseteq stored
      /\ Unhidden(server_data[n] \cup stored) = Unhidden(server_data[n]) \cup news
  <2>1. news \subseteq stored \ server_data[n]
    BY UnhiddenUnion
  <2>. QED  BY <1>3, <2>1, UnhiddenUnion
<1> HIDE DEF stored, news
<1>5. arriving \in Seq(FromServer) /\ id \in Nat
  BY <1>1 DEF EntriesTypeOK, Everyone
<1>6. m \in FromServer /\ m.kind = "entry" /\ m.data = news /\ m.id = id
  BY <1>4, <1>5 DEF EntriesOf, FromServer
<1> HIDE DEF m
<1>7. arriving' = IF linked /\ news # {} THEN Append(arriving, m) ELSE arriving
  <2>1. arriving \o <<>> = arriving
    BY <1>5, ConcatEmptySeq
  <2>2. arriving \o <<m>> = Append(arriving, m)
    BY <1>5, <1>6, AppendIsConcat
  <2>. QED  BY <1>2, <2>1, <2>2
<1>8. \A o \in Other : ever[o] \subseteq ever'[o] /\ (o = n => ever'[o] = ever[o] \cup stored)
  BY <1>1, <1>2 DEF EntriesTypeOK
<1>9. EntriesTypeOK'
  <2>1. arriving' \in Seq(FromServer)
    BY <1>5, <1>6, <1>7, OneMore
  <2>2. server_data' \in [Other -> SUBSET Datum] /\ ever' \in [Other -> SUBSET Datum]
    BY <1>1, <1>2, <1>3 DEF EntriesTypeOK
  <2>. QED  BY <1>1, <1>2, <2>1, <2>2 DEF EntriesTypeOK
<1>10. n \in KnownMembers
  BY <1>2 DEF KnownMembers
<1>11. OwnersKnown(arriving)'
  <2>1. CASE linked /\ news # {}
    <3>1. PICK l \in 0 .. Len(arriving) : WillList(arriving, n, l, id, Unhidden(server_data[n]))
      BY <1>1, <1>10, <2>1 DEF WillBeTold, Tells
    <3>2. WillHaveId(arriving, n, Len(arriving) + 1, id)
      BY <1>5, <3>1, UpToDateHasId
    <3> SUFFICES ASSUME NEW i \in DOMAIN arriving', arriving'[i].kind = "entry"
                 PROVE  \E o \in Other : /\ arriving'[i].data \subseteq ever'[o]
                                         /\ WillHaveId(arriving, o, i, arriving[i].id)'
      BY DEF OwnersKnown
    <3>3. /\ Len(arriving) \in Nat /\ DOMAIN arriving' = 1 .. Len(arriving) + 1 /\ DOMAIN arriving = 1 .. Len(arriving)
          /\ arriving'[Len(arriving) + 1] = m /\ \A j \in 1 .. Len(arriving) : arriving'[j] = arriving[j]
      BY <1>5, <1>6, <1>7, <2>1, OneMore, LenProperties
    <3>4. PICK o \in Other : arriving'[i].data \subseteq ever'[o] /\ WillHaveId(arriving, o, i, arriving'[i].id)
      <4>1. CASE i = Len(arriving) + 1
        BY <1>4, <1>6, <1>8, <3>2, <3>3, <4>1
      <4>2. CASE i # Len(arriving) + 1
        <5>1. i \in DOMAIN arriving /\ arriving'[i] = arriving[i]
          BY <3>3, <4>2
        <5>. QED  BY <1>1, <1>8, <5>1 DEF OwnersKnown
      <4>. QED  BY <4>1, <4>2
    <3>5. i \in Nat /\ \A j \in 1 .. i - 1 : arriving'[j] = arriving[j]
      BY <3>3
    <3>6. WillHaveId(arriving', o, i, arriving'[i].id)
      BY <3>4, <3>5, WillHaveIdKept
    <3>7. WillHaveId(arriving, o, i, arriving[i].id)'
      BY <1>2, <3>6 DEF WillHaveId, IsInit
    <3>. QED  BY <3>4, <3>7
  <2>2. CASE ~(linked /\ news # {})
    BY <1>1, <1>2, <1>7, <1>8, <2>2, OwnersKnownGrows
  <2>. QED  BY <2>1, <2>2
<1>12. WillBeTold'
  <2>1. ASSUME linked', NEW o \in KnownMembers'
        PROVE  \E l \in 0 .. Len(arriving') :
                   WillList(arriving', o, l, server_ids'[o], Unhidden(server_data'[o]))
    <3>1. linked /\ o \in Other /\ o \in KnownMembers /\ server_ids'[o] = server_ids[o]
      BY <1>2, <2>1 DEF KnownMembers
    <3>2. PICK l \in 0 .. Len(arriving) : WillList(arriving, o, l, server_ids[o], Unhidden(server_data[o]))
      BY <1>1, <3>1 DEF WillBeTold, Tells
    <3>3. CASE o = n
      <4> DEFINE old == Unhidden(server_data[n])
      <4>1. Unhidden(server_data'[n]) = old \cup news
        BY <1>1, <1>2, <1>4 DEF EntriesTypeOK
      <4> HIDE DEF old
      <4>2. WillList(arriving, n, l, id, old)
        BY <3>2, <3>3 DEF old
      <4>3. CASE news = {}
        BY <1>7, <3>1, <3>3, <4>1, <4>2, <4>3
      <4>4. CASE news # {}
        BY <1>4, <1>5, <1>7, <3>1, <3>3, <4>1, <4>2, <4>4, AppendEntries DEF m
      <4>. QED  BY <4>3, <4>4
    <3>4. CASE o # n
      <4>1. server_data'[o] = server_data[o]
        BY <1>1, <1>2, <3>1, <3>4 DEF EntriesTypeOK
      <4>2. server_ids[o] # id
        <5>1. o \in Everyone /\ n \in Everyone
          BY <3>1 DEF Everyone
        <5>. QED  BY <1>1, <1>2, <3>4, <5>1 DEF ServerIdsApart
      <4>3. m.kind # "sync_init" /\ m.id # server_ids[o]
        BY <1>6, <4>2
      <4>4. CASE linked /\ news # {}
        BY <1>5, <1>6, <1>7, <3>1, <3>2, <4>1, <4>3, <4>4, AppendOther
      <4>5. CASE ~(linked /\ news # {})
        BY <1>7, <3>1, <3>2, <4>1, <4>5
      <4>. QED  BY <4>4, <4>5
    <3>. QED  BY <3>3, <3>4
  <2>. QED  BY <1>2, <2>1, WillBeToldSame
<1>13. OnlyOwn'
  <2>1. ASSUME NEW o \in Other PROVE server_data'[o] \subseteq ever'[o] /\ (~confused' => listed'[o] \subseteq ever'[o])
    <3>1. server_data'[o] = server_data[o] \cup (IF o = n THEN stored ELSE {})
      BY <1>1, <1>2 DEF EntriesTypeOK
    <3>2. ever'[o] = ever[o] \cup (IF o = n THEN stored ELSE {})
      BY <1>1, <1>2 DEF EntriesTypeOK
    <3>3. server_data[o] \subseteq ever[o] /\ (~confused => listed[o] \subseteq ever[o])
      BY <1>1 DEF OnlyOwn
    <3>. QED  BY <1>2, <3>1, <3>2, <3>3
  <2>. QED  BY <2>1 DEF OnlyOwn
<1>14. CallbacksTold'
  BY <1>1, <1>2 DEF CallbacksTold, KeysOf
<1>15. ServerIdsApart'
  BY <1>1, <1>2 DEF ServerIdsApart
<1>. QED  BY <1>9, <1>11, <1>12, <1>13, <1>14, <1>15 DEF EntriesInv

LEMMA linkInv ==
    ASSUME EntriesInv, link
    PROVE  EntriesInv'
<1>1. EntriesTypeOK /\ ServerIdsApart /\ OwnersKnown(arriving) /\ WillBeTold /\ OnlyOwn /\ CallbacksTold
  BY DEF EntriesInv
<1>2. UNCHANGED <<server_data, normalizes, own_id, known_ids, lib_of_id, listed, listening, heard, unheard,
                  confused, ever>> /\ linked' = TRUE
  BY DEF link, presenceVars, entryVars
<1>3. /\ server_ids' \in [Everyone -> Nat] /\ last_given_id' \in Nat /\ ServerIdsApart'
      /\ server_ids'[Itself] \in Nat /\ \A o \in Other : server_ids'[o] = server_ids[o]
  <2>1. Itself \in Everyone /\ Identified(Itself) /\ Itself \notin Other /\ Other \subseteq Everyone
    BY OtherAssumption DEF Everyone, Itself, link
  <2>. QED  BY <1>1, <2>1, IdentifiedApart
<1>4. PICK order \in [1 .. Cardinality(KnownMembers) -> KnownMembers] :
         /\ \A i, j \in DOMAIN order : i < j => server_ids[order[i]] < server_ids[order[j]]
         /\ arriving' = arriving \o FlattenSeq([i \in DOMAIN order |-> TellOf(order[i])])
                                \o <<EndFor(server_ids'[Itself])>>
  BY DEF link
<1> DEFINE b == arriving \o FlattenSeq([i \in DOMAIN order |-> TellOf(order[i])])
           m == EndFor(server_ids'[Itself])
<1>5. arriving \in Seq(FromServer)
  BY <1>1 DEF EntriesTypeOK
<1>6. b \in Seq(FromServer) /\ Tells(b, KnownMembers) /\ OwnersKnown(b)
  BY <1>1, <1>4, <1>5, LinkTells
<1>7. m \in FromServer /\ m.kind = "sync_init_end"
  BY <1>3 DEF EndFor, FromServer
<1>8. arriving' = b \o <<m>>
  BY <1>4
<1> HIDE DEF m, b
<1>9. arriving' = Append(b, m) /\ arriving' \in Seq(FromServer)
  BY <1>6, <1>7, <1>8, AppendIsConcat, OneMore
<1>10. EntriesTypeOK'
  BY <1>1, <1>2, <1>3, <1>9 DEF EntriesTypeOK
<1>11. OwnersKnown(arriving)'
  <2>1. OwnersKnown(arriving')
    BY <1>6, <1>7, <1>9, OwnersKnownAppend
  <2>. QED  BY <1>2, <2>1, OwnersKnownGrows
<1>12. WillBeTold'
  <2>1. ASSUME NEW o \in KnownMembers'
        PROVE  \E l \in 0 .. Len(arriving') :
                   WillList(arriving', o, l, server_ids'[o], Unhidden(server_data'[o]))
    <3>1. o \in KnownMembers /\ server_ids'[o] = server_ids[o] /\ server_data' = server_data
      BY <1>2, <1>3 DEF KnownMembers
    <3>2. PICK l \in 0 .. Len(b) : WillList(b, o, l, server_ids[o], Unhidden(server_data[o]))
      BY <1>6, <3>1 DEF Tells
    <3>. QED  BY <1>6, <1>7, <1>9, <3>1, <3>2, AppendOther
  <2>. QED  BY <1>2, <2>1, WillBeToldSame
<1>13. OnlyOwn' /\ CallbacksTold'
  BY <1>1, <1>2 DEF OnlyOwn, CallbacksTold, KeysOf
<1>. QED  BY <1>3, <1>10, <1>11, <1>12, <1>13 DEF EntriesInv

\* A connection is lost, with the server or without it.
LEMMA unlinkInv ==
    ASSUME EntriesInv, unlink \/ restart
    PROVE  EntriesInv'
<1>1. EntriesTypeOK /\ ServerIdsApart /\ OwnersKnown(arriving) /\ WillBeTold /\ OnlyOwn /\ CallbacksTold
  BY DEF EntriesInv
<1>2. /\ linked' = FALSE /\ own_id' = 0
      /\ UNCHANGED <<normalizes, known_ids, lib_of_id, listed, listening, heard, unheard, confused, ever>>
  BY DEF unlink, restart, Unlinked, knownServer, entryVars
<1>3. PICK k \in 0 .. Len(arriving) : arriving' = SubSeq(arriving, 1, k)
  BY DEF unlink, restart, Unlinked
<1>4. arriving \in Seq(FromServer) /\ Len(arriving) \in Nat /\ DOMAIN arriving = 1 .. Len(arriving)
  BY <1>1, LenProperties DEF EntriesTypeOK
<1>5. /\ arriving' \in Seq(FromServer) /\ DOMAIN arriving' = 1 .. k
      /\ \A i \in 1 .. k : arriving'[i] = arriving[i]
  <2>1. \A i \in 1 .. k : arriving[i] \in FromServer
    BY <1>4
  <2>2. 1 \in Int /\ k \in Int /\ k - 1 + 1 = k
    BY <1>4
  <2>3. /\ SubSeq(arriving, 1, k) \in Seq(FromServer)
        /\ Len(SubSeq(arriving, 1, k)) = IF 1 <= k THEN k - 1 + 1 ELSE 0
        /\ \A i \in 1 .. k - 1 + 1 : SubSeq(arriving, 1, k)[i] = arriving[1 + i - 1]
    BY <2>1, <2>2, SubSeqProperties
  <2>4. Len(arriving') = k
    BY <1>3, <1>4, <2>3
  <2>5. \A i \in 1 .. k : 1 + i - 1 = i
    BY <2>2
  <2>. QED  BY <1>3, <2>2, <2>3, <2>4, <2>5, LenProperties
<1>6. /\ server_ids' \in [Everyone -> Nat] /\ last_given_id' \in Nat /\ ServerIdsApart'
      /\ server_data' \in [Other -> SUBSET Datum] /\ \A n \in Other : server_data'[n] \subseteq ever[n]
  <2>1. CASE unlink
    BY <1>1, <2>1 DEF unlink, knownServer, EntriesTypeOK, ServerIdsApart, OnlyOwn
  <2>2. CASE restart
    BY <2>2 DEF restart, ServerIdsApart
  <2>. QED  BY <2>1, <2>2
<1>7. EntriesTypeOK'
  BY <1>1, <1>2, <1>5, <1>6 DEF EntriesTypeOK
<1>8. OwnersKnown(arriving)'
  <2>1. ASSUME NEW i \in DOMAIN arriving', arriving'[i].kind = "entry"
        PROVE  \E n \in Other : arriving'[i].data \subseteq ever[n] /\ WillHaveId(arriving', n, i, arriving'[i].id)
    <3>1. i \in 1 .. k /\ i \in DOMAIN arriving /\ arriving'[i] = arriving[i] /\ i \in Nat
      BY <1>4, <1>5
    <3>2. PICK n \in Other : arriving'[i].data \subseteq ever[n] /\ WillHaveId(arriving, n, i, arriving'[i].id)
      BY <1>1, <2>1, <3>1 DEF OwnersKnown
    <3>3. \A j \in 1 .. i - 1 : arriving'[j] = arriving[j]
      BY <1>4, <1>5, <3>1
    <3>. QED  BY <3>1, <3>2, <3>3, WillHaveIdKept
  <2>2. OwnersKnown(arriving')
    BY <2>1 DEF OwnersKnown
  <2>. QED  BY <1>2, <2>2, OwnersKnownGrows
<1>9. WillBeTold'
  BY <1>2 DEF WillBeTold
<1>10. OnlyOwn' /\ CallbacksTold'
  BY <1>1, <1>2, <1>6 DEF OnlyOwn, CallbacksTold, KeysOf
<1>. QED  BY <1>6, <1>7, <1>8, <1>9, <1>10 DEF EntriesInv

---------------------------------------------------------------------------
(* The steps of the client, which reads the first message. *)

LEMMA FirstRead ==
    ASSUME EntriesTypeOK, Next1
    PROVE  /\ Head(arriving) \in FromServer /\ Head(arriving) = arriving[1] /\ arriving' \in Seq(FromServer)
           /\ Len(arriving) \in Nat /\ Len(arriving) >= 1 /\ Len(arriving') = Len(arriving) - 1
           /\ DOMAIN arriving = 1 .. Len(arriving) /\ DOMAIN arriving' = 1 .. Len(arriving) - 1
           /\ \A i \in 1 .. Len(arriving) - 1 : arriving'[i] = arriving[i + 1]
<1>1. arriving \in Seq(FromServer) /\ arriving # <<>> /\ arriving' = Tail(arriving)
  BY DEF EntriesTypeOK, Next1
<1>2. Len(arriving) \in Nat \ {0} /\ DOMAIN arriving = 1 .. Len(arriving)
  BY <1>1, EmptySeq, LenProperties
<1>3. /\ arriving' \in Seq(FromServer) /\ Len(arriving') = Len(arriving) - 1
      /\ \A i \in 1 .. Len(arriving') : arriving'[i] = arriving[i + 1]
      /\ Head(arriving) \in FromServer
  BY <1>1, HeadTailProperties
<1>4. Head(arriving) = arriving[1]
  BY <1>1
<1>. QED  BY <1>1, <1>2, <1>3, <1>4, LenProperties

\* Who has an id by the time that a message is read, has it when there is one less to read.
LEMMA WillHaveIdTail ==
    ASSUME EntriesTypeOK, Next1, NEW n \in Other, NEW id, NEW i \in 1 .. Len(arriving) - 1,
           known_ids'[n] = (IF IsInit(Head(arriving), n) THEN Head(arriving).id ELSE known_ids[n]),
           WillHaveId(arriving, n, i + 1, id)
    PROVE  WillHaveId(arriving, n, i, id)'
<1>1. /\ Head(arriving) = arriving[1] /\ Len(arriving) \in Nat
      /\ \A j \in 1 .. Len(arriving) - 1 : arriving'[j] = arriving[j + 1]
  BY FirstRead
<1>2. PICK l \in 0 .. i :
          /\ IF l = 0 THEN known_ids[n] = id ELSE IsInit(arriving[l], n) /\ arriving[l].id = id
          /\ \A j \in l + 1 .. i : ~IsInit(arriving[j], n)
  <2>1. i + 1 - 1 = i
    BY <1>1
  <2>. QED  BY <2>1 DEF WillHaveId
<1> DEFINE k == IF l = 0 THEN 0 ELSE l - 1
<1>3. k \in 0 .. i - 1 /\ i \in Nat
  BY <1>1
<1>4. ASSUME NEW j \in k + 1 .. i - 1 PROVE ~IsInit(arriving'[j], n)
  <2>1. j + 1 \in l + 1 .. i /\ j \in 1 .. Len(arriving) - 1
    BY <1>1, <1>3
  <2>. QED  BY <1>1, <1>2, <2>1
<1>5. IF k = 0 THEN known_ids'[n] = id ELSE IsInit(arriving'[k], n) /\ arriving'[k].id = id
  <2>1. CASE l = 0
    <3>1. 1 \in l + 1 .. i
      BY <1>1, <2>1
    <3>2. ~IsInit(arriving[1], n)
      BY <1>2, <3>1
    <3>. QED  BY <1>1, <1>2, <2>1, <3>2
  <2>2. CASE l = 1
    BY <1>1, <1>2, <2>2
  <2>3. CASE l > 1
    <3>1. k # 0 /\ k \in 1 .. Len(arriving) - 1 /\ k + 1 = l
      BY <1>1, <1>3, <2>3
    <3>. QED  BY <1>1, <1>2, <2>3, <3>1
  <2>. QED  BY <2>1, <2>2, <2>3
<1> HIDE DEF k
<1>. QED  BY <1>3, <1>4, <1>5 DEF WillHaveId, IsInit

LEMMA OwnersKnownTail ==
    ASSUME EntriesTypeOK, Next1, OwnersKnown(arriving), ever' = ever,
           \A n \in Other : known_ids'[n] = (IF IsInit(Head(arriving), n) THEN Head(arriving).id ELSE known_ids[n])
    PROVE  OwnersKnown(arriving)'
<1> SUFFICES ASSUME NEW i \in DOMAIN arriving', arriving'[i].kind = "entry"
             PROVE  \E n \in Other : /\ arriving'[i].data \subseteq ever'[n]
                                     /\ WillHaveId(arriving, n, i, arriving[i].id)'
  BY DEF OwnersKnown
<1>1. i \in 1 .. Len(arriving) - 1 /\ i + 1 \in DOMAIN arriving /\ arriving'[i] = arriving[i + 1]
  BY FirstRead
<1>2. PICK n \in Other : arriving'[i].data \subseteq ever[n] /\ WillHaveId(arriving, n, i + 1, arriving'[i].id)
  BY <1>1 DEF OwnersKnown
<1>3. PICK id : id = arriving'[i].id
  OBVIOUS
<1>4. WillHaveId(arriving, n, i, id)'
  BY <1>1, <1>2, <1>3, WillHaveIdTail
<1>5. WillHaveId(arriving, n, i, arriving[i].id)'
  BY <1>3, <1>4 DEF WillHaveId
<1>. QED  BY <1>2, <1>5

LEMMA UnderIdOf ==
    ASSUME NEW q, NEW l, NEW id, NEW d
    PROVE  d \in UnderId(q, l, id) <=>
               \E j \in l + 1 .. Len(q) : q[j].kind = "entry" /\ q[j].id = id /\ d \in q[j].data
BY DEF UnderId

LEMMA UnderIdTail ==
    ASSUME EntriesTypeOK, Next1, NEW id, NEW l \in 1 .. Len(arriving)
    PROVE  /\ UnderId(arriving, l, id) = UnderId(arriving', l - 1, id)
           /\ UnderId(arriving, 0, id) = (IF Head(arriving).kind = "entry" /\ Head(arriving).id = id
                                          THEN Head(arriving).data ELSE {}) \cup UnderId(arriving', 0, id)
<1> DEFINE m == Head(arriving)
           first == IF m.kind = "entry" /\ m.id = id THEN m.data ELSE {}
           Comes(q, j, d) == q[j].kind = "entry" /\ q[j].id = id /\ d \in q[j].data
<1>1. /\ m = arriving[1] /\ Len(arriving) \in Nat /\ Len(arriving) >= 1 /\ Len(arriving') = Len(arriving) - 1
      /\ \A i \in 1 .. Len(arriving) - 1 : arriving'[i] = arriving[i + 1]
  BY FirstRead
<1> HIDE DEF m
<1>2. \A i \in 1 .. Len(arriving) - 1 : \A d : Comes(arriving', i, d) <=> Comes(arriving, i + 1, d)
  BY <1>1
<1>3. \A d : Comes(arriving, 1, d) <=> d \in first
  BY <1>1
<1>4. ASSUME NEW k \in 1 .. Len(arriving), NEW d
      PROVE  d \in UnderId(arriving, k, id) <=> d \in UnderId(arriving', k - 1, id)
  <2>1. d \in UnderId(arriving, k, id) <=> \E j \in k + 1 .. Len(arriving) : Comes(arriving, j, d)
    BY UnderIdOf
  <2>2. d \in UnderId(arriving', k - 1, id) <=> \E j \in k - 1 + 1 .. Len(arriving') : Comes(arriving', j, d)
    BY UnderIdOf
  <2> HIDE DEF Comes
  <2>3. ASSUME NEW j \in k + 1 .. Len(arriving), Comes(arriving, j, d)
        PROVE  \E i \in k - 1 + 1 .. Len(arriving') : Comes(arriving', i, d)
    <3>1. j - 1 \in 1 .. Len(arriving) - 1 /\ j - 1 + 1 = j /\ j - 1 \in k - 1 + 1 .. Len(arriving')
      BY <1>1
    <3>. QED  BY <1>2, <2>3, <3>1
  <2>4. ASSUME NEW j \in k - 1 + 1 .. Len(arriving'), Comes(arriving', j, d)
        PROVE  \E i \in k + 1 .. Len(arriving) : Comes(arriving, i, d)
    <3>1. j \in 1 .. Len(arriving) - 1 /\ j + 1 \in k + 1 .. Len(arriving)
      BY <1>1
    <3>. QED  BY <1>2, <2>4, <3>1
  <2>. QED  BY <2>1, <2>2, <2>3, <2>4
<1>5. UnderId(arriving, l, id) = UnderId(arriving', l - 1, id)
  BY <1>4
<1>6. ASSUME NEW d
      PROVE  d \in UnderId(arriving, 0, id) <=> d \in first \/ d \in UnderId(arriving, 1, id)
  <2>1. d \in UnderId(arriving, 0, id) <=> \E j \in 0 + 1 .. Len(arriving) : Comes(arriving, j, d)
    BY UnderIdOf
  <2>2. d \in UnderId(arriving, 1, id) <=> \E j \in 1 + 1 .. Len(arriving) : Comes(arriving, j, d)
    BY UnderIdOf
  <2> HIDE DEF Comes, first
  <2>3. 0 + 1 .. Len(arriving) = {1} \cup (1 + 1 .. Len(arriving))
    BY <1>1
  <2>. QED  BY <1>3, <2>1, <2>2, <2>3
<1>7. UnderId(arriving, 1, id) = UnderId(arriving', 0, id)
  <2>1. PICK k \in 1 .. Len(arriving) : k = 1
    BY <1>1
  <2>2. UnderId(arriving, k, id) = UnderId(arriving', k - 1, id)
    BY <1>4
  <2>3. k - 1 = 0
    BY <2>1
  <2>. QED  BY <2>1, <2>2, <2>3
<1>8. UnderId(arriving, 0, id) = first \cup UnderId(arriving', 0, id)
  <2> HIDE DEF first
  <2>. QED  BY <1>6, <1>7
<1>. QED  BY <1>5, <1>8 DEF m

LEMMA UpToDateTail ==
    ASSUME EntriesTypeOK, Next1, NEW n \in Other, NEW id, NEW data, NEW l \in 0 .. Len(arriving),
           WillList(arriving, n, l, id, data),
           known_ids'[n] = (IF IsInit(Head(arriving), n) THEN Head(arriving).id ELSE known_ids[n]),
           IF Head(arriving).kind = "sync_init"
           THEN /\ Head(arriving).id \in DOMAIN lib_of_id'
                /\ DOMAIN lib_of_id \subseteq DOMAIN lib_of_id'
                /\ lib_of_id'[Head(arriving).id] = Head(arriving).name
                /\ \A i \in DOMAIN lib_of_id : i # Head(arriving).id => lib_of_id'[i] = lib_of_id[i]
           ELSE lib_of_id' = lib_of_id,
           confused => confused',
           ~confused' => listed'[n] =
               (IF IsInit(Head(arriving), n) THEN {}
                ELSE listed[n] \cup (IF Head(arriving).kind = "entry" /\ Head(arriving).id = known_ids[n]
                                    THEN Head(arriving).data ELSE {}))
    PROVE  \E k \in 0 .. Len(arriving') : WillList(arriving, n, k, id, data)'
<1> DEFINE m == Head(arriving)
           k == IF l = 0 THEN 0 ELSE l - 1
<1>1. /\ m = arriving[1] /\ Len(arriving) \in Nat /\ Len(arriving) >= 1 /\ Len(arriving') = Len(arriving) - 1
      /\ \A i \in 1 .. Len(arriving) - 1 : arriving'[i] = arriving[i + 1]
  BY FirstRead
<1>2. /\ IF l = 0 THEN known_ids[n] = id /\ id \in DOMAIN lib_of_id /\ lib_of_id[id] = n
         ELSE IsInit(arriving[l], n) /\ arriving[l].id = id
      /\ \A i \in l + 1 .. Len(arriving) : arriving[i].kind = "sync_init" => arriving[i].name # n /\ arriving[i].id # id
      /\ ~confused => (IF l = 0 THEN listed[n] ELSE {}) \cup UnderId(arriving, l, id) = data
  BY DEF WillList
<1> HIDE DEF m
<1>3. k \in 0 .. Len(arriving') /\ k \in Nat
  BY <1>1
<1>4. ASSUME NEW i \in k + 1 .. Len(arriving'), arriving'[i].kind = "sync_init"
      PROVE  arriving'[i].name # n /\ arriving'[i].id # id
  <2>1. i \in 1 .. Len(arriving) - 1 /\ i + 1 \in l + 1 .. Len(arriving)
    BY <1>1, <1>3
  <2>. QED  BY <1>1, <1>2, <1>4, <2>1
<1>5. CASE l = 0
  <2>1. 1 \in l + 1 .. Len(arriving) /\ k = 0
    BY <1>1, <1>5
  <2>2. m.kind = "sync_init" => m.name # n /\ m.id # id
    BY <1>1, <1>2, <2>1
  <2>3. ~IsInit(m, n)
    BY <2>2 DEF IsInit
  <2>4. known_ids'[n] = id /\ id \in DOMAIN lib_of_id' /\ lib_of_id'[id] = n
    BY <1>2, <1>5, <2>2, <2>3 DEF m
  <2>5. ~confused' => listed'[n] \cup UnderId(arriving', 0, id) = data
    <3> SUFFICES ASSUME ~confused' PROVE listed'[n] \cup UnderId(arriving', 0, id) = data
      OBVIOUS
    <3> DEFINE first == IF m.kind = "entry" /\ m.id = id THEN m.data ELSE {}
    <3>1. ~confused /\ listed'[n] = listed[n] \cup first
      BY <1>2, <1>5, <2>3 DEF m
    <3>2. UnderId(arriving, 0, id) = first \cup UnderId(arriving', 0, id)
      <4>1. 1 \in 1 .. Len(arriving)
        BY <1>1
      <4>. QED  BY <4>1, UnderIdTail DEF m
    <3> HIDE DEF first
    <3>3. listed[n] \cup UnderId(arriving, 0, id) = data
      BY <1>2, <1>5, <3>1
    <3>. QED  BY <3>1, <3>2, <3>3
  <2>6. WillList(arriving, n, k, id, data)'
    <3>1. \A i \in 0 + 1 .. Len(arriving') : arriving'[i].kind = "sync_init" => arriving'[i].name # n /\ arriving'[i].id # id
      BY <1>4, <2>1
    <3>2. WillList(arriving, n, 0, id, data)'
      BY <2>4, <2>5, <3>1 DEF WillList, UnderId
    <3>. QED  BY <2>1, <3>2
  <2>. QED  BY <1>3, <2>6
<1>6. CASE l # 0
  <2>1. l \in 1 .. Len(arriving) /\ k = l - 1
    BY <1>1, <1>6
  <2>2. UnderId(arriving', k, id) = UnderId(arriving, l, id)
    BY <2>1, UnderIdTail
  <2>3. IF k = 0 THEN known_ids'[n] = id /\ id \in DOMAIN lib_of_id' /\ lib_of_id'[id] = n
        ELSE IsInit(arriving'[k], n) /\ arriving'[k].id = id
    <3>1. CASE l = 1
      <4>1. IsInit(m, n) /\ m.id = id /\ k = 0
        BY <1>1, <1>2, <2>1, <3>1
      <4>2. m.kind = "sync_init" /\ m.name = n
        BY <4>1 DEF IsInit
      <4>. QED  BY <4>1, <4>2 DEF m
    <3>2. CASE l # 1
      <4>1. k \in 1 .. Len(arriving) - 1 /\ k + 1 = l /\ k # 0
        BY <1>1, <2>1, <3>2
      <4>. QED  BY <1>1, <1>2, <1>6, <4>1
    <3>. QED  BY <3>1, <3>2
  <2>4. ~confused' => (IF k = 0 THEN listed'[n] ELSE {}) \cup UnderId(arriving', k, id) = data
    <3> SUFFICES ASSUME ~confused' PROVE (IF k = 0 THEN listed'[n] ELSE {}) \cup UnderId(arriving', k, id) = data
      OBVIOUS
    <3>1. ~confused /\ {} \cup UnderId(arriving, l, id) = data
      BY <1>2, <1>6
    <3>2. k = 0 => listed'[n] = {}
      <4>1. k = 0 => IsInit(m, n)
        BY <1>1, <1>2, <1>6, <2>1
      <4>. QED  BY <4>1 DEF m
    <3>. QED  BY <2>2, <3>1, <3>2
  <2>5. PICK j \in 0 .. Len(arriving') : j = k
    BY <1>3
  <2> HIDE DEF k
  <2>6. /\ IF j = 0 THEN known_ids'[n] = id /\ id \in DOMAIN lib_of_id' /\ lib_of_id'[id] = n
           ELSE IsInit(arriving'[j], n) /\ arriving'[j].id = id
        /\ ~confused' => (IF j = 0 THEN listed'[n] ELSE {}) \cup UnderId(arriving', j, id) = data
        /\ \A i \in j + 1 .. Len(arriving') : arriving'[i].kind = "sync_init" => arriving'[i].name # n /\ arriving'[i].id # id
    BY <1>4, <2>3, <2>4, <2>5
  <2>7. WillList(arriving, n, j, id, data)'
    BY <2>6 DEF WillList, UnderId, IsInit
  <2>. QED  BY <2>7
<1>. QED  BY <1>5, <1>6

\* What a message does to the member it is for.
LEMMA WillBeToldTail ==
    ASSUME EntriesTypeOK, WillBeTold, Next1, UNCHANGED <<server_ids, server_data, linked>>,
           \A n \in Other : known_ids'[n] = (IF IsInit(Head(arriving), n) THEN Head(arriving).id ELSE known_ids[n]),
           IF Head(arriving).kind = "sync_init"
           THEN /\ Head(arriving).id \in DOMAIN lib_of_id'
                /\ DOMAIN lib_of_id \subseteq DOMAIN lib_of_id'
                /\ lib_of_id'[Head(arriving).id] = Head(arriving).name
                /\ \A i \in DOMAIN lib_of_id : i # Head(arriving).id => lib_of_id'[i] = lib_of_id[i]
           ELSE lib_of_id' = lib_of_id,
           confused => confused',
           ~confused' => \A n \in Other : listed'[n] =
               (IF IsInit(Head(arriving), n) THEN {}
                ELSE listed[n] \cup (IF Head(arriving).kind = "entry" /\ Head(arriving).id = known_ids[n]
                                    THEN Head(arriving).data ELSE {}))
    PROVE  WillBeTold'
<1> SUFFICES ASSUME linked', NEW n \in KnownMembers'
             PROVE  \E l \in 0 .. Len(arriving') :
                       WillList(arriving, n, l, server_ids[n], Unhidden(server_data[n]))'
  BY DEF WillBeTold, Tells
<1>1. n \in KnownMembers /\ n \in Other /\ linked
  BY DEF KnownMembers
<1>2. PICK l \in 0 .. Len(arriving) : WillList(arriving, n, l, server_ids[n], Unhidden(server_data[n]))
  BY <1>1 DEF WillBeTold, Tells
<1>3. PICK id, data : id = server_ids[n] /\ data = Unhidden(server_data[n])
  OBVIOUS
<1>4. WillList(arriving, n, l, id, data)
  BY <1>2, <1>3
<1>5. ~confused' => listed'[n] =
               (IF IsInit(Head(arriving), n) THEN {}
                ELSE listed[n] \cup (IF Head(arriving).kind = "entry" /\ Head(arriving).id = known_ids[n]
                                    THEN Head(arriving).data ELSE {}))
  BY <1>1
<1>6. PICK k \in 0 .. Len(arriving') : WillList(arriving, n, k, id, data)'
  BY <1>1, <1>4, <1>5, UpToDateTail
<1>7. id = server_ids'[n] /\ data = Unhidden(server_data[n])'
  BY <1>3 DEF Unhidden
<1>8. WillList(arriving, n, k, server_ids[n], Unhidden(server_data[n]))'
  BY <1>6, <1>7 DEF WillList, UnderId
<1>. QED  BY <1>8

LEMMA recvSyncInitInv ==
    ASSUME EntriesInv, recvSyncInit
    PROVE  EntriesInv'
<1> DEFINE m == Head(arriving)
<1>1. EntriesTypeOK /\ ServerIdsApart /\ OwnersKnown(arriving) /\ WillBeTold /\ OnlyOwn /\ CallbacksTold
  BY DEF EntriesInv
<1>2. /\ Next1 /\ m.kind = "sync_init"
      /\ listed' = [listed EXCEPT ![m.name] = {}] /\ known_ids' = [known_ids EXCEPT ![m.name] = m.id]
      /\ lib_of_id' = [id \in DOMAIN lib_of_id \cup {m.id} |-> IF id = m.id THEN m.name ELSE lib_of_id[id]]
      /\ UNCHANGED <<server_ids, last_given_id, server_data, normalizes, linked, own_id, listening, heard,
                     unheard, confused, ever>>
  BY DEF recvSyncInit, knownServer
<1>3. m \in FromServer /\ arriving' \in Seq(FromServer)
  BY <1>1, <1>2, FirstRead
<1>4. m.name \in Other /\ m.id \in Nat
  BY <1>2, <1>3 DEF FromServer
<1>5. \A n \in Other : IsInit(m, n) <=> n = m.name
  BY <1>2 DEF IsInit
<1>6. \A n \in Other : /\ known_ids'[n] = (IF IsInit(m, n) THEN m.id ELSE known_ids[n])
                       /\ listed'[n] = (IF IsInit(m, n) THEN {} ELSE listed[n])
  BY <1>1, <1>2, <1>5 DEF EntriesTypeOK
<1>7. EntriesTypeOK'
  <2>1. known_ids' \in [Other -> Nat] /\ listed' \in [Other -> SUBSET Datum]
    BY <1>1, <1>2, <1>4 DEF EntriesTypeOK
  <2>. QED  BY <1>1, <1>2, <1>3, <2>1 DEF EntriesTypeOK
<1>8. OwnersKnown(arriving)'
  BY <1>1, <1>2, <1>6, OwnersKnownTail
<1>9. WillBeTold'
  <2>1. /\ m.id \in DOMAIN lib_of_id' /\ DOMAIN lib_of_id \subseteq DOMAIN lib_of_id'
        /\ lib_of_id'[m.id] = m.name /\ \A i \in DOMAIN lib_of_id : i # m.id => lib_of_id'[i] = lib_of_id[i]
    BY <1>2
  <2>2. m.kind # "entry"
    BY <1>2
  <2>3. \A n \in Other : listed'[n] =
           (IF IsInit(m, n) THEN {} ELSE listed[n] \cup (IF m.kind = "entry" /\ m.id = known_ids[n] THEN m.data ELSE {}))
    BY <1>6, <2>2
  <2>. QED  BY <1>1, <1>2, <1>6, <2>1, <2>3, WillBeToldTail
<1>10. OnlyOwn'
  <2>1. \A n \in Other : listed'[n] \subseteq listed[n]
    BY <1>6
  <2>. QED  BY <1>1, <1>2, <2>1 DEF OnlyOwn
<1>11. CallbacksTold'
  <2>1. \A n \in Other : listed'[n] \subseteq listed[n]
    BY <1>6
  <2>2. \A n \in Other, k \in EntryKind : {<<n, k, f>> : f \in KeysOf(n, k)'} \subseteq {<<n, k, f>> : f \in KeysOf(n, k)}
    BY <2>1 DEF KeysOf
  <2> SUFFICES ASSUME NEW n \in Other, NEW k \in EntryKind, <<n, k>> \in listening'
               PROVE  {<<n, k, f>> : f \in KeysOf(n, k)'} \subseteq heard' \cup unheard'
    BY DEF CallbacksTold
  <2>3. {<<n, k, f>> : f \in KeysOf(n, k)} \subseteq heard \cup unheard
    BY <1>1, <1>2 DEF CallbacksTold
  <2>. QED  BY <1>2, <2>2, <2>3
<1>12. ServerIdsApart'
  BY <1>1, <1>2 DEF ServerIdsApart
<1>. QED  BY <1>7, <1>8, <1>9, <1>10, <1>11, <1>12 DEF EntriesInv

LEMMA recvSyncInitEndInv ==
    ASSUME EntriesInv, recvSyncInitEnd
    PROVE  EntriesInv'
<1> DEFINE m == Head(arriving)
<1>1. EntriesTypeOK /\ ServerIdsApart /\ OwnersKnown(arriving) /\ WillBeTold /\ OnlyOwn /\ CallbacksTold
  BY DEF EntriesInv
<1>2. /\ Next1 /\ m.kind = "sync_init_end" /\ own_id' = m.id
      /\ UNCHANGED <<server_ids, last_given_id, server_data, normalizes, linked, known_ids, lib_of_id, listed,
                     listening, heard, unheard, confused, ever>>
  BY DEF recvSyncInitEnd, knownServer, entryVars
<1>3. m \in FromServer /\ arriving' \in Seq(FromServer)
  BY <1>1, <1>2, FirstRead
<1>4. m.id \in Nat
  BY <1>2, <1>3 DEF FromServer
<1>5. m.kind # "sync_init" /\ m.kind # "entry" /\ \A n \in Other : ~IsInit(m, n)
  BY <1>2 DEF IsInit
<1>6. EntriesTypeOK'
  BY <1>1, <1>2, <1>3, <1>4 DEF EntriesTypeOK
<1>7. \A n \in Other : /\ known_ids'[n] = (IF IsInit(m, n) THEN m.id ELSE known_ids[n])
                       /\ listed'[n] = (IF IsInit(m, n) THEN {}
                            ELSE listed[n] \cup (IF m.kind = "entry" /\ m.id = known_ids[n] THEN m.data ELSE {}))
  BY <1>2, <1>5
<1>8. OwnersKnown(arriving)'
  BY <1>1, <1>2, <1>7, OwnersKnownTail
<1>9. WillBeTold'
  BY <1>1, <1>2, <1>5, <1>7, WillBeToldTail
<1>10. OnlyOwn' /\ CallbacksTold' /\ ServerIdsApart'
  BY <1>1, <1>2 DEF OnlyOwn, CallbacksTold, KeysOf, ServerIdsApart
<1>. QED  BY <1>6, <1>8, <1>9, <1>10 DEF EntriesInv

\* When no two have the id, the one that has it is found.
LEMMA FoundById ==
    ASSUME EntriesTypeOK, NEW n \in Other, NEW id \in Nat, known_ids[n] = id,
           ~(Cardinality(NamesWith(id)) + (IF own_id = id THEN 1 ELSE 0) > 1)
    PROVE  own_id # id /\ NamesWith(id) = {n} /\ getMemberNameFromId(id) = n
<1> DEFINE N == NamesWith(id)
<1>1. n \in N /\ N \subseteq Other
  BY DEF NamesWith
<1>2. IsFiniteSet(N) /\ Cardinality(N) \in Nat
  BY <1>1, OtherAssumption, FS_Subset, FS_CardinalityType
<1> HIDE DEF N
<1>3. IsFiniteSet(N \ {n}) /\ Cardinality(N \ {n}) = Cardinality(N) - 1
  BY <1>1, <1>2, FS_RemoveElement
<1>4. Cardinality(N) >= 1
  BY <1>1, <1>2, <1>3, FS_CardinalityType
<1>5. own_id # id /\ Cardinality(N) = 1
  BY <1>2, <1>4 DEF N
<1>6. N \ {n} = {}
  BY <1>3, <1>5, FS_EmptySet
<1>7. N = {n}
  BY <1>1, <1>6
<1>8. n \in Nat
  BY OtherAssumption
<1>9. getMemberNameFromId(id) = n
  BY <1>7, <1>8 DEF getMemberNameFromId, N
<1>. QED  BY <1>5, <1>7, <1>9 DEF N

LEMMA recvEntryInv ==
    ASSUME EntriesInv, recvEntry
    PROVE  EntriesInv'
<1> DEFINE m == Head(arriving)
           o == getMemberNameFromId(m.id)
           told == {<<o, d[1], d[2]>> : d \in {e \in m.data : <<o, e[1]>> \in listening}}
<1>1. EntriesTypeOK /\ ServerIdsApart /\ OwnersKnown(arriving) /\ WillBeTold /\ OnlyOwn /\ CallbacksTold
  BY DEF EntriesInv
<1>2. /\ Next1 /\ m.kind = "entry" /\ Confusing(m.id)
      /\ IF m.id = own_id \/ NamesWith(m.id) = {} THEN UNCHANGED <<listed, heard>>
         ELSE listed' = [listed EXCEPT ![o] = @ \cup m.data] /\ heard' = heard \cup told
      /\ UNCHANGED <<server_ids, last_given_id, server_data, normalizes, linked, own_id, known_ids, lib_of_id,
                     listening, unheard, ever>>
  BY DEF recvEntry, knownServer, presenceVars
<1>3. m \in FromServer /\ m = arriving[1] /\ 1 \in DOMAIN arriving /\ arriving' \in Seq(FromServer)
  BY <1>1, <1>2, FirstRead
<1>4. m.id \in Nat /\ m.data \in SUBSET Datum
  BY <1>2, <1>3 DEF FromServer
<1>5. confused' \in BOOLEAN /\ (confused => confused')
  BY <1>1, <1>2 DEF Confusing, EntriesTypeOK
<1>6. PICK n \in Other : m.data \subseteq ever[n] /\ known_ids[n] = m.id
  <2>1. PICK n \in Other : m.data \subseteq ever[n] /\ WillHaveId(arriving, n, 1, m.id)
    BY <1>1, <1>2, <1>3 DEF OwnersKnown
  <2>2. 0 .. 1 - 1 = {0}
    OBVIOUS
  <2>. QED  BY <2>1, <2>2 DEF WillHaveId
<1>7. ASSUME ~confused'
      PROVE  o = n /\ NamesWith(m.id) = {n} /\ listed' = [listed EXCEPT ![n] = @ \cup m.data]
  <2>1. ~(Cardinality(NamesWith(m.id)) + (IF own_id = m.id THEN 1 ELSE 0) > 1)
    BY <1>2, <1>7 DEF Confusing
  <2>2. own_id # m.id /\ NamesWith(m.id) = {n} /\ o = n
    BY <1>1, <1>4, <1>6, <2>1, FoundById
  <2>. QED  BY <1>2, <2>2
<1> HIDE DEF o, told
<1>8. NamesWith(m.id) # {} => o \in Other
  <2>1. PICK x \in NamesWith(m.id) : \A y \in NamesWith(m.id) : x <= y
    <3>1. NamesWith(m.id) \in SUBSET Nat /\ NamesWith(m.id) # {}
      BY <1>6, OtherAssumption DEF NamesWith
    <3>. QED  BY <3>1, SmallestOf
  <2>2. o \in NamesWith(m.id)
    BY <2>1 DEF o, getMemberNameFromId
  <2>. QED  BY <2>2 DEF NamesWith
<1>9. EntriesTypeOK'
  <2>1. listed' \in [Other -> SUBSET Datum]
    BY <1>1, <1>2, <1>4, <1>8 DEF EntriesTypeOK
  <2>. QED  BY <1>1, <1>2, <1>3, <1>5, <2>1 DEF EntriesTypeOK
<1>10. \A x \in Other : ~IsInit(m, x)
  BY <1>2 DEF IsInit
<1>11. OwnersKnown(arriving)'
  BY <1>1, <1>2, <1>10, OwnersKnownTail
<1>12. WillBeTold'
  <2>1. ~confused' => \A x \in Other : listed'[x] =
           (IF IsInit(m, x) THEN {} ELSE listed[x] \cup (IF m.kind = "entry" /\ m.id = known_ids[x] THEN m.data ELSE {}))
    <3> SUFFICES ASSUME ~confused', NEW x \in Other
                 PROVE  listed'[x] = listed[x] \cup (IF m.id = known_ids[x] THEN m.data ELSE {})
      BY <1>2, <1>10
    <3>1. m.id = known_ids[x] <=> x = n
      BY <1>7 DEF NamesWith
    <3>2. listed'[x] = IF x = n THEN listed[x] \cup m.data ELSE listed[x]
      BY <1>1, <1>7 DEF EntriesTypeOK
    <3>. QED  BY <3>1, <3>2
  <2>2. lib_of_id' = lib_of_id /\ m.kind # "sync_init"
    BY <1>2
  <2>. QED  BY <1>1, <1>2, <1>5, <1>10, <2>1, <2>2, WillBeToldTail
<1>13. OnlyOwn'
  <2>1. ASSUME NEW x \in Other, ~confused' PROVE listed'[x] \subseteq ever'[x]
    <3>1. listed[x] \subseteq ever[x]
      BY <1>1, <1>5, <2>1 DEF OnlyOwn
    <3>2. listed'[x] = IF x = n THEN listed[x] \cup m.data ELSE listed[x]
      BY <1>1, <1>7, <2>1 DEF EntriesTypeOK
    <3>. QED  BY <1>2, <1>6, <3>1, <3>2
  <2>. QED  BY <1>1, <1>2, <2>1 DEF OnlyOwn
<1>14. CallbacksTold'
  <2> SUFFICES ASSUME NEW x \in Other, NEW k \in EntryKind, <<x, k>> \in listening', NEW f \in KeysOf(x, k)'
               PROVE  <<x, k, f>> \in heard' \cup unheard'
    BY DEF CallbacksTold
  <2>1. f \in KeysOf(x, k) => <<x, k, f>> \in heard' \cup unheard'
    <3>1. heard \subseteq heard' /\ unheard' = unheard /\ listening' = listening
      BY <1>2
    <3>. QED  BY <1>1, <3>1 DEF CallbacksTold
  <2>2. CASE f \notin KeysOf(x, k)
    <3>1. PICK d \in listed'[x] : d[1] = k /\ d[2] = f
      BY DEF KeysOf
    <3>2. d \notin listed[x]
      BY <2>2, <3>1 DEF KeysOf
    <3>3. x = o /\ d \in m.data /\ heard' = heard \cup told
      BY <1>1, <1>2, <1>8, <3>1, <3>2 DEF EntriesTypeOK
    <3>4. <<o, d[1]>> \in listening
      BY <1>2, <3>1, <3>3
    <3>5. <<o, d[1], d[2]>> \in told
      BY <3>3, <3>4 DEF told
    <3>. QED  BY <3>1, <3>3, <3>5
  <2>. QED  BY <2>1, <2>2
<1>15. ServerIdsApart'
  BY <1>1, <1>2 DEF ServerIdsApart
<1>. QED  BY <1>9, <1>11, <1>12, <1>13, <1>14, <1>15 DEF EntriesInv

LEMMA onEntryInv ==
    ASSUME EntriesInv, NEW n, NEW k, onEntry(n, k)
    PROVE  EntriesInv'
<1>1. EntriesTypeOK /\ ServerIdsApart /\ OwnersKnown(arriving) /\ WillBeTold /\ OnlyOwn /\ CallbacksTold
  BY DEF EntriesInv
<1>2. /\ listening' = listening \cup {<<n, k>>}
      /\ unheard' = unheard \cup {<<n, k, d[2]>> : d \in {e \in listed[n] : e[1] = k}}
      /\ UNCHANGED <<server_ids, last_given_id, server_data, normalizes, linked, arriving, own_id, known_ids,
                     lib_of_id, listed, heard, confused, ever>>
  BY DEF onEntry, knownServer, presenceVars
<1>3. EntriesTypeOK' /\ ServerIdsApart' /\ OnlyOwn'
  BY <1>1, <1>2 DEF EntriesTypeOK, ServerIdsApart, OnlyOwn
<1>4. OwnersKnown(arriving)'
  <2>1. arriving' = arriving /\ ever' = ever /\ known_ids' = known_ids
    BY <1>2
  <2>. QED  BY <1>1, <2>1, OwnersKnownGrows
<1>5. WillBeTold'
  <2>1. /\ arriving' = arriving /\ server_ids' = server_ids /\ server_data' = server_data /\ linked' = linked
        /\ KnownMembers' = KnownMembers
    BY <1>2 DEF KnownMembers
  <2>. QED  BY <1>1, <1>2, <2>1, WillBeToldSame DEF WillBeTold, Tells
<1>6. CallbacksTold'
  <2> SUFFICES ASSUME NEW x \in Other, NEW j \in EntryKind, <<x, j>> \in listening', NEW f \in KeysOf(x, j)'
               PROVE  <<x, j, f>> \in heard' \cup unheard'
    BY DEF CallbacksTold
  <2>1. f \in KeysOf(x, j)
    BY <1>2 DEF KeysOf
  <2>2. CASE <<x, j>> \in listening
    BY <1>1, <1>2, <2>1, <2>2 DEF CallbacksTold
  <2>3. CASE <<x, j>> \notin listening
    <3>1. x = n /\ j = k
      BY <1>2, <2>3
    <3>. QED  BY <1>2, <2>1, <3>1 DEF KeysOf
  <2>. QED  BY <2>2, <2>3
<1>. QED  BY <1>3, <1>4, <1>5, <1>6 DEF EntriesInv

LEMMA EntriesInvStutters == EntriesInv /\ UNCHANGED entriesVars => EntriesInv'
<1> SUFFICES ASSUME EntriesInv, UNCHANGED entriesVars PROVE EntriesInv'
  OBVIOUS
<1>1. EntriesTypeOK /\ ServerIdsApart /\ OwnersKnown(arriving) /\ WillBeTold /\ OnlyOwn /\ CallbacksTold
  BY DEF EntriesInv
<1>2. UNCHANGED <<server_ids, last_given_id, server_data, normalizes, linked, arriving, own_id, known_ids,
                  lib_of_id, listed, listening, heard, unheard, confused, ever>>
  BY DEF entriesVars, knownServer, presenceVars, entryVars
<1>3. EntriesTypeOK' /\ ServerIdsApart' /\ OnlyOwn' /\ CallbacksTold'
  BY <1>1, <1>2 DEF EntriesTypeOK, ServerIdsApart, OnlyOwn, CallbacksTold, KeysOf
<1>4. OwnersKnown(arriving)'
  <2>1. arriving' = arriving /\ ever' = ever /\ known_ids' = known_ids
    BY <1>2
  <2>. QED  BY <1>1, <2>1, OwnersKnownGrows
<1>5. WillBeTold'
  <2>1. /\ arriving' = arriving /\ server_ids' = server_ids /\ server_data' = server_data /\ linked' = linked
        /\ KnownMembers' = KnownMembers
    BY <1>2 DEF KnownMembers
  <2>. QED  BY <1>1, <1>2, <2>1, WillBeToldSame DEF WillBeTold, Tells
<1>. QED  BY <1>3, <1>4, <1>5 DEF EntriesInv

\* Who listed entries have come from, what a client will know of each member when it has
\* read what is on its way, and what the callbacks have been told.
THEOREM EntriesConsistent == EntriesSpec => []EntriesInv
<1>1. ASSUME EntriesInv, [EntriesNext]_entriesVars PROVE EntriesInv'
  <2>1. CASE EntriesNext
    BY <1>1, <2>1, joinInv, publishInv, linkInv, unlinkInv, recvSyncInitInv, recvSyncInitEndInv, recvEntryInv,
       onEntryInv DEF EntriesNext, onRecvMember
  <2>2. CASE UNCHANGED entriesVars
    BY <1>1, <2>2, EntriesInvStutters
  <2>. QED  BY <1>1, <2>1, <2>2
<1>. QED  BY <1>1, EntriesInvInit, PTL DEF EntriesSpec

LEMMA InformedOfAll ==
    ASSUME EntriesInv, ~confused, Informed, NEW n \in KnownMembers
    PROVE  /\ exists(n) /\ listed[n] = Unhidden(server_data[n])
           /\ getMemberIdFromName(n) = server_ids[n] /\ libName(n) = n
<1>1. EntriesTypeOK /\ WillBeTold /\ linked /\ arriving = <<>> /\ n \in Other /\ server_ids[n] # 0
  BY DEF EntriesInv, Informed, KnownMembers
<1>2. Len(arriving) = 0 /\ 0 .. Len(arriving) = {0} /\ 0 + 1 .. Len(arriving) = {}
  BY <1>1
<1>3. WillList(arriving, n, 0, server_ids[n], Unhidden(server_data[n]))
  BY <1>1, <1>2 DEF WillBeTold, Tells
<1>4. UnderId(arriving, 0, server_ids[n]) = {}
  BY <1>2 DEF UnderId
<1>5. /\ known_ids[n] = server_ids[n] /\ server_ids[n] \in DOMAIN lib_of_id /\ lib_of_id[server_ids[n]] = n
      /\ listed[n] = Unhidden(server_data[n])
  BY <1>3, <1>4 DEF WillList
<1>. QED  BY <1>1, <1>5 DEF exists, getMemberIdFromName, libName

\* Entries!EntriesTold, for any members, names and batches, losses and restarts: a client
\* never lists for a member what another has sent, and when it has been told of everything
\* it lists what the member has sent and finds its id and library, unless two had one id.
THEOREM ListsWhatWasSent == EntriesSpec => []EntriesTold
<1>1. EntriesInv => EntriesTold
  <2> SUFFICES ASSUME EntriesInv, ~confused PROVE EntriesTold
    BY DEF EntriesTold
  <2>1. \A n \in Other : listed[n] \subseteq ever[n]
    BY DEF EntriesInv, OnlyOwn
  <2>2. ASSUME Informed, NEW n \in KnownMembers
        PROVE  /\ exists(n) /\ listed[n] = Unhidden(server_data[n])
               /\ getMemberIdFromName(n) = server_ids[n] /\ libName(n) = n
    BY <2>2, InformedOfAll
  <2>3. ASSUME NEW n \in KnownMembers, NEW k \in EntryKind, <<n, k>> \in listening
        PROVE  {<<n, k, f>> : f \in KeysOf(n, k)} \subseteq heard \cup unheard
    BY <2>3 DEF EntriesInv, CallbacksTold, KnownMembers
  <2>. QED  BY <2>1, <2>2, <2>3 DEF EntriesTold
<1>. QED  BY <1>1, EntriesConsistent, PTL
============================================================================
