---------------------------- MODULE ServerStore ----------------------------
(***************************************************************************)
(* The client registry of the webcface server: ServerStorage (store.cc)    *)
(* and the identity part of MemberData (member_data.cc).                   *)
(*                                                                         *)
(* A MemberData object is created for every websocket connection and is    *)
(* named here by that connection; a connection handle is used once.        *)
(* Every entry into this state (the open, close and message callbacks and  *)
(* the ping thread) runs with server_mtx held, so one callback is one step.*)
(***************************************************************************)
EXTENDS Naturals

CONSTANTS Conn,      \* websocket connections, each used at most once
          Name,      \* the non-empty member names
          NoName     \* the empty member name

ASSUME NoNameAssumption == NoName \notin Name

MName == Name \cup {NoName}

VARIABLES
    clients,         \* connections that are open on the server side
    clients_by_id,   \* member id -> MemberData; outlives the connection
    last_member_id,  \* MemberData::last_member_id
    name,            \* MemberData::name
    member_id,       \* MemberData::member_id, 0 before construction
    sync_init        \* MemberData::sync_init

storeVars == <<clients, clients_by_id, last_member_id, name, member_id,
               sync_init>>

StoreTypeOK ==
    /\ clients \subseteq Conn
    /\ DOMAIN clients_by_id \subseteq Nat
    /\ clients_by_id \in [DOMAIN clients_by_id -> Conn]
    /\ last_member_id \in Nat
    /\ name \in [Conn -> MName]
    /\ member_id \in [Conn -> Nat]
    /\ sync_init \in [Conn -> BOOLEAN]

StoreInit ==
    /\ clients = {}
    /\ clients_by_id = [i \in {} |-> NoName]
    /\ last_member_id = 0
    /\ name = [c \in Conn |-> NoName]
    /\ member_id = [c \in Conn |-> 0]
    /\ sync_init = [c \in Conn |-> FALSE]

----------------------------------------------------------------------------
(* Lookups.                                                                *)

\* findAndDo(id): the entry exists and has been initialised.
Found(id) == id \in DOMAIN clients_by_id /\ sync_init[clients_by_id[id]]

\* findConnectedAndDo(id): ... and its connection is still open.  removeClient
\* takes the connection out of clients and onClose resets MemberData::con in
\* the same critical section, so connected() is membership in clients.
FoundConnected(id) == Found(id) /\ clients_by_id[id] \in clients

\* forEach: the initialised members among the open connections.
ForEach == {c \in clients : sync_init[c]}

\* forEachWithName: the named members, closed ones included.
ForEachWithName ==
    {i \in DOMAIN clients_by_id : /\ sync_init[clients_by_id[i]]
                                  /\ name[clients_by_id[i]] # NoName}

\* The ids a member of name n that was constructed as connection c may get:
\* the one its name already has (find_if returns whichever it meets first in an
\* unordered map), or else the one the constructor drew.
SameName(n) == {i \in DOMAIN clients_by_id : name[clients_by_id[i]] = n}

\* findAndDo(name): the entry of that name, if it has been initialised.
FoundName(n) == {i \in SameName(n) : sync_init[clients_by_id[i]]}
EntryOf(n) == clients_by_id[CHOOSE i \in FoundName(n) : TRUE]

\* A defect that Reachable excludes: the empty name is looked up like any other.
AssignableIdUnnamedToo(c, n) == IF SameName(n) # {} THEN SameName(n)
                                                     ELSE {member_id[c]}

AssignableId(c, n) == IF n # NoName /\ SameName(n) # {} THEN SameName(n)
                                                        ELSE {member_id[c]}

----------------------------------------------------------------------------
(* Operations.                                                             *)

\* Defects that the properties exclude: the member keeps the id of its constructor
\* while its entry is filed under the one of its name; every entry is erased on close.
registerClientOldId(c, n, id) ==
    /\ c \in clients
    /\ ~sync_init[c]
    /\ name' = [name EXCEPT ![c] = n]
    /\ sync_init' = [sync_init EXCEPT ![c] = TRUE]
    /\ clients_by_id' = [i \in DOMAIN clients_by_id \cup {id} |->
                           IF i = id THEN c ELSE clients_by_id[i]]
    /\ UNCHANGED <<clients, last_member_id, member_id>>
removeClientAndEntry(c) ==
    /\ c \in clients
    /\ clients' = clients \ {c}
    /\ clients_by_id' =
         [i \in DOMAIN clients_by_id \ {member_id[c]} |-> clients_by_id[i]]
    /\ UNCHANGED <<last_member_id, name, member_id, sync_init>>

\* The MemberData constructor draws a fresh id.
MemberData(c) ==
    /\ last_member_id' = last_member_id + 1
    /\ member_id' = [member_id EXCEPT ![c] = last_member_id + 1]

newClient(c) ==
    /\ member_id[c] = 0
    /\ MemberData(c)
    /\ clients' = clients \cup {c}
    /\ UNCHANGED <<clients_by_id, name, sync_init>>

\* initClientId: erase, then emplace.
initClientId(id, c) ==
    clients_by_id' = [i \in DOMAIN clients_by_id \cup {id} |->
                        IF i = id THEN c ELSE clients_by_id[i]]

\* What the sync_init handler does to the registry.  A client sends sync_init
\* once per connection, as its first message.
registerClient(c, n, id) ==
    /\ c \in clients
    /\ ~sync_init[c]
    /\ name' = [name EXCEPT ![c] = n]
    /\ member_id' = [member_id EXCEPT ![c] = id]
    /\ sync_init' = [sync_init EXCEPT ![c] = TRUE]
    /\ initClientId(id, c)
    /\ UNCHANGED <<clients, last_member_id>>

\* removeClient: a named member stays in clients_by_id.
removeClient(c) ==
    /\ c \in clients
    /\ clients' = clients \ {c}
    /\ clients_by_id' =
         IF name[c] = NoName
         THEN [i \in DOMAIN clients_by_id \ {member_id[c]} |-> clients_by_id[i]]
         ELSE clients_by_id
    /\ UNCHANGED <<last_member_id, name, member_id, sync_init>>

StoreNext ==
    \E c \in Conn : \/ newClient(c)
                    \/ \E n \in MName : \E id \in AssignableId(c, n) :
                          registerClient(c, n, id)
                    \/ removeClient(c)

\* What every module that uses the registry promises about it.
StoreSpec == StoreInit /\ [][StoreNext]_storeVars

----------------------------------------------------------------------------
(* Properties of the registry.                                             *)

\* An entry of clients_by_id is filed under the member_id that its MemberData
\* believes to be its own and stamps on everything it sends, and no name is
\* filed twice.  (initClientId, the name lookup of the sync_init handler.)
EntryUnderOwnId ==
    /\ \A i \in DOMAIN clients_by_id : member_id[clients_by_id[i]] = i
    /\ \A i, j \in DOMAIN clients_by_id :
          (/\ name[clients_by_id[i]] # NoName
           /\ name[clients_by_id[i]] = name[clients_by_id[j]]) => i = j

\* What is addressed to an initialised open connection by its id reaches a
\* member of the same name, and an unnamed one is reached itself: nobody else
\* can take over its entry or erase it.
Reachable ==
    \A c \in ForEach : LET i == member_id[c] IN
        /\ i \in DOMAIN clients_by_id
        /\ name[clients_by_id[i]] = name[c]
        /\ name[c] = NoName => clients_by_id[i] = c

\* Unnamed members leave no entry behind when they disconnect (removeClient).
NoUnnamedLeftBehind ==
    \A i \in DOMAIN clients_by_id :
        name[clients_by_id[i]] = NoName => clients_by_id[i] \in clients

\* A name keeps its id for as long as the server runs, whatever connects,
\* reconnects or disconnects in between (docs/83_server_spec.md, sync init).
IdIsForever ==
    [][\A i \in DOMAIN clients_by_id :
          name[clients_by_id[i]] # NoName =>
             /\ i \in DOMAIN clients_by_id'
             /\ name'[clients_by_id'[i]] = name[clients_by_id[i]]]_storeVars

----------------------------------------------------------------------------
(* The inductive strengthening of the properties above.                    *)

\* Ids are handed out in increasing order, so the next one is fresh; a member
\* gets its name when it is initialised.
IdsBelowLast ==
    /\ \A c \in Conn : member_id[c] <= last_member_id
    /\ \A c \in clients : member_id[c] # 0
    /\ \A c \in Conn : sync_init[c] => member_id[c] # 0
    /\ \A c \in Conn : ~sync_init[c] => name[c] = NoName

\* The id that an uninitialised member drew is nobody else's, and initialised
\* members share an id only when they share a name.
IdsShared ==
    /\ \A c, d \in Conn :
          (~sync_init[c] /\ member_id[c] # 0 /\ member_id[c] = member_id[d])
              => c = d
    /\ \A c, d \in Conn :
          (sync_init[c] /\ sync_init[d] /\ member_id[c] = member_id[d])
              => (name[c] = name[d] /\ (name[c] = NoName => c = d))

\* Only initialised members are filed, and a named one always stays so.
Filed ==
    /\ \A i \in DOMAIN clients_by_id : sync_init[clients_by_id[i]]
    /\ \A c \in Conn : (sync_init[c] /\ name[c] # NoName)
              => member_id[c] \in DOMAIN clients_by_id

StoreInv == /\ StoreTypeOK
            /\ IdsBelowLast
            /\ IdsShared
            /\ Filed
            /\ EntryUnderOwnId
            /\ Reachable
            /\ NoUnnamedLeftBehind
============================================================================
