------------------------------- MODULE Entries -------------------------------
(* What a client knows of the other members and lists of their data: the cases       *)
(* sync_init, entry and func_info of ClientData::onRecv (client_msg_recv.cc), the    *)
(* entries of SyncDataStore2, and the queries of Member, Field and the C API         *)
(* (member.cc, field.cc, c_wcf/member.cc).                                           *)
(*                                                                                   *)
(* The server is as ServerStore and PubSub show it: a member keeps its id, also when  *)
(* it has left, and has new data when it comes back.  Only here it may be restarted:  *)
(* it then counts the ids from 1 again (ServerStorage::clear), while a client keeps   *)
(* its member_ids for good.  What is connected is in Members, and is left out.        *)
(* A server of before version 3.1 does not normalize names (docs/84_versioning.md).   *)
EXTENDS Integers, FiniteSets, SequencesExt

CONSTANTS Other,        \* the names of the other members, as numbers in their order
          EntryKind,    \* the kinds of data, each with a store
          DataName,     \* the names of data, as sequences of characters in their order
          field_separator, field_separator_alt, \* two of the characters
          Batch,        \* [Other -> SUBSET SUBSET (EntryKind \X DataName)]: what a member
                        \*   sends at a time
          Watched,      \* the <<member, kind>> of which an entry event may be set
          MaxBatches,   \* bounds: the times that members send something,
          MaxJoins,     \*   that they connect,
          MaxLinkLosses,\*   that the client loses its connection,
          MaxRestarts   \*   with the server, which is restarted

\* The static_assert of field.cc.
ASSUME SeparatorAssumption == field_separator < field_separator_alt

\* 0 stands for the client itself, and for no name.
ASSUME OtherAssumption == Other \in SUBSET (Nat \ {0}) /\ IsFiniteSet(Other)
ASSUME BatchAssumption == Batch \in [Other -> SUBSET SUBSET (EntryKind \X DataName)]

VARIABLES
    (* the server *)
    server_ids,         \* MemberData::member_id, 0 for a member it does not know
    last_given_id,      \* MemberData::last_member_id
    server_data,        \* [Other -> SUBSET (EntryKind \X DataName)]
    normalizes,         \* it is of version 3.1 or later, as the one in this repository
    (* the connection of the client *)
    linked,             \* it is connected
    arriving,           \* what the server has sent and onRecv has not handled
    (* the client *)
    own_id,             \* self_member_id, 0 for std::nullopt
    known_ids,          \* member_ids, 0 where there is no name; member_entry has the same
    lib_of_id,          \* member_lib_name: [id -> the member that told it]
    listed,             \* entry of all stores: [Other -> SUBSET (EntryKind \X DataName)]
    listening,          \* the <<member, kind>> of which an entry event is set
    (* history *)
    ever,               \* [Other -> what it has sent at any time]
    heard,              \* what was told to the callbacks: <<member, kind, name>>
    unheard,            \* what was listed when listening began
    confused,           \* a message was about an id that two names had
    batches, joins, restarts, losses \* (bounds)

knownServer == <<server_ids, last_given_id, server_data, normalizes>>
presenceVars == <<own_id, known_ids, lib_of_id>>
entryVars == <<listed, listening, heard, unheard, confused>>
boundVars == <<batches, joins, restarts, losses>>
entriesVars == <<knownServer, linked, arriving, presenceVars, entryVars, ever, boundVars>>

\* The id of the client itself, in the server.
Itself == 0
Everyone == Other \cup {Itself}
KnownMembers == {n \in Other : server_ids[n] # 0}

\* The messages of the server.
InitOf(n, id) == [kind |-> "sync_init", name |-> n, id |-> id, data |-> {}]
EntriesOf(id, data) == [kind |-> "entry", name |-> 0, id |-> id, data |-> data]
EndFor(id) == [kind |-> "sync_init_end", name |-> 0, id |-> id, data |-> {}]
Tell(msgs) == arriving' = IF linked THEN arriving \o msgs ELSE arriving

\* The entries of names that begin with a separator are not sent.
Unhidden(data) == {d \in data : d[2][1] # field_separator}

EntriesInit ==
    /\ server_ids = [n \in Everyone |-> 0] /\ last_given_id = 0
    /\ server_data = [n \in Other |-> {}] /\ ever = [n \in Other |-> {}]
    /\ normalizes \in BOOLEAN
    /\ linked = FALSE /\ arriving = <<>>
    /\ own_id = 0 /\ known_ids = [n \in Other |-> 0]
    /\ lib_of_id = <<>>
    /\ listed = [n \in Other |-> {}] /\ listening = {}
    /\ heard = {} /\ unheard = {} /\ confused = FALSE
    /\ batches = 0 /\ joins = 0 /\ restarts = 0 /\ losses = 0

----------------------------------------------------------------------------
(* The server and the other members.                                         *)

\* Every connection is given the next id; the server takes the one of a known name instead.
Identified(n) ==
    /\ server_ids' = [server_ids EXCEPT ![n] = IF @ # 0 THEN @ ELSE last_given_id + 1]
    /\ last_given_id' = last_given_id + 1

\* A member connects, for the first time or again.
join(n) ==
    /\ joins < MaxJoins
    /\ Identified(n)
    /\ server_data' = [server_data EXCEPT ![n] = {}]
    /\ Tell(<<InitOf(n, server_ids'[n])>>)
    /\ joins' = joins + 1
    /\ UNCHANGED <<normalizes, linked, presenceVars, entryVars, ever, batches, restarts, losses>>

\* normalizeSeparator(): separators at the start are removed, others are replaced.
Normalized(f) ==
    LET named == {i \in DOMAIN f : f[i] # field_separator_alt}
        g == IF named = {} THEN <<>> ELSE SubSeq(f, CHOOSE i \in named : \A j \in named : i <= j, Len(f))
    IN [i \in DOMAIN g |-> IF g[i] = field_separator_alt THEN field_separator ELSE g[i]]
Stored(data) == IF normalizes THEN {<<d[1], Normalized(d[2])>> : d \in data} ELSE data

\* Of what a member sends, the entries that are new.
publish(n, data) ==
    LET stored == Stored(data)
        news == Unhidden(stored \ server_data[n])
    IN
    /\ server_ids[n] # 0 /\ batches < MaxBatches
    /\ server_data' = [server_data EXCEPT ![n] = @ \cup stored]
    /\ ever' = [ever EXCEPT ![n] = @ \cup stored]
    /\ Tell(IF news = {} THEN <<>> ELSE <<EntriesOf(server_ids[n], news)>>)
    /\ batches' = batches + 1
    /\ UNCHANGED <<server_ids, last_given_id, normalizes, linked, presenceVars, entryVars, joins,
                   restarts, losses>>

\* What is told of a member.
TellOf(n) ==
    LET data == Unhidden(server_data[n]) IN
    <<InitOf(n, server_ids[n])>> \o (IF data = {} THEN <<>> ELSE <<EntriesOf(server_ids[n], data)>>)

\* The client connects, and is told of the members in the order of their ids, also of those
\* that have left.
link ==
    /\ ~linked
    /\ Identified(Itself)
    /\ linked' = TRUE
    /\ \E order \in [1 .. Cardinality(KnownMembers) -> KnownMembers] :
          /\ \A i, j \in DOMAIN order : i < j => server_ids[order[i]] < server_ids[order[j]]
          /\ arriving' = arriving \o FlattenSeq([i \in DOMAIN order |-> TellOf(order[i])])
                                 \o <<EndFor(server_ids'[Itself])>>
    /\ UNCHANGED <<server_data, normalizes, presenceVars, entryVars, ever, boundVars>>

\* The connection is lost, and what has not arrived with it.
Unlinked ==
    /\ linked /\ losses < MaxLinkLosses
    /\ losses' = losses + 1
    /\ linked' = FALSE /\ own_id' = 0
    /\ \E k \in 0 .. Len(arriving) : arriving' = SubSeq(arriving, 1, k)
    /\ UNCHANGED <<known_ids, lib_of_id, entryVars, ever, batches, joins>>

unlink ==
    /\ Unlinked
    /\ UNCHANGED <<knownServer, restarts>>

\* Another server comes in the place of the one before.
restart ==
    /\ restarts < MaxRestarts
    /\ Unlinked
    /\ server_ids' = [n \in Everyone |-> 0] /\ last_given_id' = 0
    /\ server_data' = [n \in Other |-> {}]
    /\ restarts' = restarts + 1
    /\ UNCHANGED normalizes

----------------------------------------------------------------------------
(* The client: onRecv, in sync().                                            *)

\* getMemberNameFromId(): the own name, or the first name that has the id.
NamesWith(id) == {n \in Other : known_ids[n] = id}
getMemberNameFromId(id) == CHOOSE n \in NamesWith(id) : \A o \in NamesWith(id) : n <= o
\* getMemberIdFromName(), 0 for none.
getMemberIdFromName(n) == known_ids[n]

Next1 == arriving # <<>> /\ arriving' = Tail(arriving)
Confusing(id) ==
    confused' = (confused \/ Cardinality(NamesWith(id)) + (IF own_id = id THEN 1 ELSE 0) > 1)

\* A defect that the properties exclude: the stores are not cleared (initMember).
recvSyncInitKeeps ==
    LET m == Head(arriving) IN
    /\ Next1 /\ m.kind = "sync_init"
    /\ known_ids' = [known_ids EXCEPT ![m.name] = m.id]
    /\ lib_of_id' = [id \in DOMAIN lib_of_id \cup {m.id} |-> IF id = m.id THEN m.name ELSE lib_of_id[id]]
    /\ UNCHANGED <<knownServer, linked, own_id, entryVars, ever, boundVars>>

\* A member has connected: what is listed of it and its id are replaced.
recvSyncInit ==
    LET m == Head(arriving) IN
    /\ Next1 /\ m.kind = "sync_init"
    /\ listed' = [listed EXCEPT ![m.name] = {}]
    /\ known_ids' = [known_ids EXCEPT ![m.name] = m.id]
    /\ lib_of_id' = [id \in DOMAIN lib_of_id \cup {m.id} |-> IF id = m.id THEN m.name ELSE lib_of_id[id]]
    /\ UNCHANGED <<knownServer, linked, own_id, listening, heard, unheard, confused, ever,
                   boundVars>>

recvSyncInitEnd ==
    LET m == Head(arriving) IN
    /\ Next1 /\ m.kind = "sync_init_end"
    /\ own_id' = m.id
    /\ UNCHANGED <<knownServer, linked, known_ids, lib_of_id, entryVars, ever,
                   boundVars>>

\* onRecvEntry() and func_info: setEntry(), then the callback.  What comes for the client's
\* own id or for one that no name has is listed under a name that is not in Other.
recvEntry ==
    LET m == Head(arriving)
        n == getMemberNameFromId(m.id)
        told == {<<n, d[1], d[2]>> : d \in {e \in m.data : <<n, e[1]>> \in listening}}
    IN
    /\ Next1 /\ m.kind = "entry"
    /\ IF m.id = own_id \/ NamesWith(m.id) = {} THEN UNCHANGED <<listed, heard>>
       ELSE /\ listed' = [listed EXCEPT ![n] = @ \cup m.data]
            /\ heard' = heard \cup told
    /\ Confusing(m.id)
    /\ UNCHANGED <<knownServer, linked, presenceVars, listening, unheard, ever, boundVars>>

\* Member::onValueEntry() and the like.
onEntry(n, k) ==
    /\ listening' = listening \cup {<<n, k>>}
    /\ unheard' = unheard \cup {<<n, k, d[2]>> : d \in {e \in listed[n] : e[1] = k}}
    /\ UNCHANGED <<knownServer, linked, arriving, presenceVars, listed, heard, confused, ever,
                   boundVars>>

onRecvMember == recvSyncInit \/ recvSyncInitEnd \/ recvEntry

EntriesNext ==
    \/ \E n \in Other : join(n)
    \/ \E n \in Other : \E data \in Batch[n] : publish(n, data)
    \/ link \/ unlink \/ restart
    \/ onRecvMember
    \/ \E w \in Watched \ listening : onEntry(w[1], w[2])
EntriesSpec == EntriesInit /\ [][EntriesNext]_entriesVars

----------------------------------------------------------------------------
(* Field.  A field is the sequence of characters of its name.                *)

IsSeparator(c) == c = field_separator \/ c = field_separator_alt
\* operator< of strings.
LessThan(f, g) ==
    \/ IsStrictPrefix(f, g)
    \/ \E i \in DOMAIN f \cap DOMAIN g : f[i] < g[i] /\ SubSeq(f, 1, i - 1) = SubSeq(g, 1, i - 1)
StartsBelow(f, k) ==
    f = <<>> \/ IsPrefix(Append(f, field_separator), k) \/ IsPrefix(Append(f, field_separator_alt), k)

\* The keys are gone through in their order, up to the first that is neither below the
\* field nor before all that are.
EndsAt(f, k) == ~StartsBelow(f, k) /\ ~LessThan(k, Append(f, field_separator_alt))
KeysOf(n, k) == {d[2] : d \in {e \in listed[n] : e[1] = k}}
GoneThrough(keys, f) ==
    {k \in keys : StartsBelow(f, k) /\ ~\E j \in keys : LessThan(j, k) /\ EndsAt(f, j)}

\* A defect that the properties exclude: the other separator is not looked for.
CutAtOne(f, k) ==
    LET seps == {i \in DOMAIN k : i > (IF f = <<>> THEN 0 ELSE Len(f) + 1) /\ k[i] = field_separator} IN
    IF seps = {} THEN k ELSE SubSeq(k, 1, (CHOOSE i \in seps : \A j \in seps : i <= j) - 1)
\* A name up to the first separator after the field.
Cut(f, k) ==
    LET seps == {i \in DOMAIN k : i > (IF f = <<>> THEN 0 ELSE Len(f) + 1) /\ IsSeparator(k[i])} IN
    IF seps = {} THEN k ELSE SubSeq(k, 1, (CHOOSE i \in seps : \A j \in seps : i <= j) - 1)

entriesOfKind(n, f, k) == GoneThrough(KeysOf(n, k), f)
childrenRecurse(n, f) == UNION {entriesOfKind(n, f, k) : k \in EntryKind}
children(n, f) == {Cut(f, k) : k \in childrenRecurse(n, f)}
hasChildren(n, f) == \E k \in EntryKind : GoneThrough(KeysOf(n, k), f) # {}

\* lastName8(): what comes after the last separator, the name itself when there is none or
\* nothing else before it.
lastName(f) ==
    LET seps == {i \in DOMAIN f : IsSeparator(f[i])}
        last == CHOOSE i \in seps : \A j \in seps : j <= i
    IN IF seps = {} \/ \A j \in 1 .. last - 1 : IsSeparator(f[j]) THEN f
       ELSE SubSeq(f, last + 1, Len(f))
parent(f) == LET l == Len(f) - Len(lastName(f)) - 1 IN SubSeq(f, 1, IF l < 0 THEN 0 ELSE l)
child(f, name) ==
    IF f = <<>> THEN name ELSE IF name = <<>> THEN f ELSE f \o <<field_separator>> \o name

\* Member.
exists(n) == known_ids[n] # 0
libName(n) == LET id == getMemberIdFromName(n) IN IF id \in DOMAIN lib_of_id THEN lib_of_id[id] ELSE 0
\* wcfValueEntryList(): as many as there is room for, and the number that there are.
wcfEntryList(n, k, size) ==
    LET all == SetToSortSeq(entriesOfKind(n, <<>>, k), LessThan) IN
    [list |-> SubSeq(all, 1, IF Len(all) < size THEN Len(all) ELSE size), field_num |-> Len(all)]

----------------------------------------------------------------------------
(* Properties.                                                               *)

\* The client has been told of everything.
Informed == linked /\ own_id # 0 /\ arriving = <<>>

\* A client never lists for a member what another has sent, and when it has been told of
\* everything, it lists just what the member has sent on its connection, also after a
\* disconnection and a new connection of either, has told the callbacks that are set, and
\* finds the id and the library of the member by its name.  All this unless a message came
\* when two names had its id, which the restart of the server can lead to.
EntriesTold ==
    ~confused =>
        /\ \A n \in Other : listed[n] \subseteq ever[n]
        /\ Informed => \A n \in KnownMembers :
               /\ exists(n) /\ listed[n] = Unhidden(server_data[n])
               /\ getMemberIdFromName(n) = server_ids[n] /\ libName(n) = n
               /\ \A k \in EntryKind : <<n, k>> \in listening =>
                      {<<n, k, f>> : f \in KeysOf(n, k)} \subseteq heard \cup unheard

\* What a tree of the names of a member has below a field.
Under(n, f) == {d[2] : d \in {e \in listed[n] : StartsBelow(f, e[2])}}
Places == UNION {{SubSeq(k, 1, i) : i \in 0 .. Len(k)} : k \in DataName}

\* What is below a field is found, although entries() ends at the first name after it and
\* the two separators do not order names as the tree does: what childrenRecurse()
\* lists is what is below, hasChildren() tells whether there is any, and from child to
\* child one gets to all of it and back by parent().
TreeWalked ==
    Informed => \A n \in KnownMembers, f \in Places :
        /\ childrenRecurse(n, f) = Under(n, f)
        /\ hasChildren(n, f) <=> Under(n, f) # {}
        /\ \A k \in Under(n, f) : \E c \in children(n, f) :
               /\ c = k \/ k \in Under(n, c)
               /\ Len(c) > Len(f) /\ parent(c) = f
               /\ f # <<>> /\ lastName(c) # <<>> => child(f, lastName(c)) = [c EXCEPT ![Len(f) + 1] = field_separator]
        /\ \A k \in EntryKind, size \in 0 .. 2 :
               LET out == wcfEntryList(n, k, size) IN
               /\ ToSet(out.list) \subseteq KeysOf(n, k)
               /\ out.field_num - Len(out.list) = Max({0, Cardinality(KeysOf(n, k)) - size})
----------------------------------------------------------------------------
(* The inductive strengthening of EntriesTold.                               *)

\* The entries there can be: those that are sent, and what a server makes of them.
Datum == EntryKind \X (DataName \cup {Normalized(f) : f \in DataName})
FromServer ==
    [kind : {"sync_init"}, name : Other, id : Nat, data : {{}}]
        \cup [kind : {"entry"}, name : {0}, id : Nat, data : SUBSET Datum]
        \cup [kind : {"sync_init_end"}, name : {0}, id : Nat, data : {{}}]

EntriesTypeOK ==
    /\ server_ids \in [Everyone -> Nat] /\ last_given_id \in Nat
    /\ server_data \in [Other -> SUBSET Datum] /\ ever \in [Other -> SUBSET Datum]
    /\ linked \in BOOLEAN /\ normalizes \in BOOLEAN /\ confused \in BOOLEAN
    /\ arriving \in Seq(FromServer) /\ own_id \in Nat
    /\ known_ids \in [Other -> Nat] /\ listed \in [Other -> SUBSET Datum]

\* No two have one id of this server, and those to come are free.
ServerIdsApart ==
    /\ \A n \in Everyone : server_ids[n] <= last_given_id
    /\ \A n, o \in Everyone : server_ids[n] = server_ids[o] /\ server_ids[n] # 0 => n = o

\* By the time that the client reads message i of q, the id it has for n is this one.
IsInit(m, n) == m.kind = "sync_init" /\ m.name = n
WillHaveId(q, n, i, id) ==
    \E l \in 0 .. i - 1 :
        /\ IF l = 0 THEN known_ids[n] = id ELSE IsInit(q[l], n) /\ q[l].id = id
        /\ \A j \in l + 1 .. i - 1 : ~IsInit(q[j], n)
\* A member that has the id by then has sent the entries that come under it.
OwnersKnown(q) ==
    \A i \in DOMAIN q : q[i].kind = "entry" =>
        \E n \in Other : q[i].data \subseteq ever[n] /\ WillHaveId(q, n, i, q[i].id)

\* The last sync_init of n in q is message l, or, when l = 0, the client has read it: it has
\* the id, which no sync_init of another takes away; and the entries that come under it
\* after that are those of data, with what is listed by now.
UnderId(q, l, id) == UNION {q[i].data : i \in {j \in l + 1 .. Len(q) : q[j].kind = "entry" /\ q[j].id = id}}
WillList(q, n, l, id, data) ==
    /\ IF l = 0 THEN known_ids[n] = id /\ id \in DOMAIN lib_of_id /\ lib_of_id[id] = n
                ELSE IsInit(q[l], n) /\ q[l].id = id
    /\ \A i \in l + 1 .. Len(q) : q[i].kind = "sync_init" => q[i].name # n /\ q[i].id # id
    /\ ~confused => (IF l = 0 THEN listed[n] ELSE {}) \cup UnderId(q, l, id) = data
Tells(q, members) ==
    \A n \in members : \E l \in 0 .. Len(q) :
        WillList(q, n, l, server_ids[n], Unhidden(server_data[n]))
WillBeTold == linked => Tells(arriving, KnownMembers)

OnlyOwn ==
    \A n \in Other : server_data[n] \subseteq ever[n] /\ (~confused => listed[n] \subseteq ever[n])
CallbacksTold ==
    \A n \in Other, k \in EntryKind : <<n, k>> \in listening =>
        {<<n, k, f>> : f \in KeysOf(n, k)} \subseteq heard \cup unheard

EntriesInv ==
    EntriesTypeOK /\ ServerIdsApart /\ OwnersKnown(arriving) /\ WillBeTold /\ OnlyOwn /\ CallbacksTold
==============================================================================
