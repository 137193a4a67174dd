-------------------------------- MODULE Values --------------------------------
(* The values and texts that an application sets (client/src/value.cc, text.cc), the *)
(* data they are made of (NumVector, ValAdaptor) and the way of a change to the      *)
(* server: SyncDataStore2 keeps what was set since the last sync() in data_send, and *)
(* transferSend() sends of it what differs from data_recv, where it keeps what was   *)
(* sent.  The snapshot is packed later, by the websocket thread.                     *)
(*                                                                                   *)
(* A NumVector that was made of more than one element, or was ever resized or        *)
(* appended to, is a pointer: a copy shares the elements (NumVector::data_), in      *)
(* data_send, data_recv and the snapshots alike, and resize(), push_back() and at()  *)
(* of a copy change them for all.  One thread of the application makes the calls.    *)
EXTENDS Integers, Sequences, FiniteSets, SequencesExt

CONSTANTS Num,          \* the numbers that are set
          ValueField,   \* the names of the values
          Item,         \* of these, the ones that look like an element (deprecated): "a.1"
          ItemOf,       \* [Item -> the name of the value it is in]
          ItemIndex,    \* [Item -> its index there]
          TextVal,      \* the ValAdaptors that are set
          TextNumber,   \* what atof() makes of a text, in tenths
          None,         \* nothing there
          MaxLength,    \* bound: the elements of a value
          MaxChanges,   \* bound: the calls that change something
          MaxSnapshots  \* bound: the calls of sync()

VARIABLES vectors,      \* the std::vector<double> at each address, <<>> when it is free
          value_send,   \* value_store.data_send
          value_recv,   \* value_store.data_recv[self]
          text_send,    \* text_store.data_send
          text_recv,    \* text_store.data_recv[self]
          snapshots,    \* the messages of sync(), to be packed
          server_value, \* MemberData::value, the contents
          server_text,  \* MemberData::text
          set_value,    \* (history) what each value was last made to be
          set_text,     \* (history) what each text was last set to
          in_place,     \* (history) the values of which a sent vector was changed
          since,        \* (history) a call has been made since the last sync()
          changed, synced \* (bounds)

valuesVars == <<vectors, value_send, value_recv, text_send, text_recv, snapshots,
                server_value, server_text, set_value, set_text, in_place, since, changed, synced>>

VectorAddress == 1 .. MaxChanges

----------------------------------------------------------------------------
(* NumVector.                                                                *)

\* A number that was set alone has no vector (data_ is nullptr).
Scalar(x) == [data |-> 0, first |-> x]
Shared(a) == [data |-> a, first |-> 0]
ElementsOf(heap, v) == IF v.data = 0 THEN <<v.first>> ELSE heap[v.data]
\* NumVector(std::vector<double>): none and one element are a number.
FromVector(a, s) ==
    IF s = <<>> THEN Scalar(0) ELSE IF Len(s) = 1 THEN Scalar(s[1]) ELSE Shared(a)
\* operator==: pointers, then sizes and elements.
SameNumbers(heap, v, w) == ElementsOf(heap, v) = ElementsOf(heap, w)

\* resize(): none is taken for one that is 0.
Resized(s, n) == IF n = 0 THEN <<0>> ELSE [i \in 1 .. n |-> IF i <= Len(s) THEN s[i] ELSE 0]

\* The addresses that something refers to.
UsedBy(recv, send, sent) ==
    {recv[f].data : f \in {g \in ValueField : recv[g] # None}} \cup {send[i].data.data : i \in DOMAIN send}
        \cup UNION {{sent[i].values[f].data : f \in DOMAIN sent[i].values} : i \in DOMAIN sent}
\* The contents are written to a vector, and those that nothing refers to are freed.
Released(heap) ==
    [a \in VectorAddress |-> IF a \in UsedBy(value_recv', value_send', snapshots') THEN heap[a] ELSE <<>>]
FreeAddress == CHOOSE a \in VectorAddress : vectors[a] = <<>>
\* What resize() and push_back() make of a NumVector: a vector, be it of one element.
Vector(v) == IF v.data # 0 THEN v ELSE Shared(FreeAddress)

----------------------------------------------------------------------------
(* ValAdaptor.                                                               *)

TextOf(s) == [type |-> "string_", num |-> 0, str |-> s]
Number(type, n) == [type |-> type, num |-> n, str |-> ""]
asDouble(v) == IF v.type = "string_" THEN TextNumber[v.str] ELSE v.num
asLLong(v) == asDouble(v) \div 10
asBool(v) == IF v.type = "string_" THEN v.str # "" ELSE v.num # 0
\* operator==, which converts to the wider of the two types.
SameVal(v, w) ==
    LET either(type) == v.type = type \/ w.type = type IN
    IF either("double_") THEN asDouble(v) = asDouble(w)
    ELSE IF either("int_") THEN asLLong(v) = asLLong(w)
    ELSE IF either("bool_") THEN asBool(v) = asBool(w)
    ELSE v.str = w.str

----------------------------------------------------------------------------
(* SyncDataStore2.                                                           *)

\* getRecv() of one's own data: the latest in data_send, or what was sent.
Pending(send, f) == {i \in DOMAIN send : send[i].name = f}
GetRecv(send, recv, f) ==
    IF Pending(send, f) = {} THEN recv[f]
    ELSE send[CHOOSE i \in Pending(send, f) : \A j \in Pending(send, f) : j <= i].data
setSend(send, f, data) == Append(send, [name |-> f, data |-> data])

\* shouldSend(): a value or a text is sent when it is another than the one before.
shouldSend(heap, prev, current) ==
    IF "type" \in DOMAIN prev THEN ~SameVal(prev, current) ELSE ~SameNumbers(heap, prev, current)
IsPut(heap, recv, e) == recv[e.name] = None \/ shouldSend(heap, recv[e.name], e.data)
Put(heap, recv, e) == IF IsPut(heap, recv, e) THEN [recv EXCEPT ![e.name] = e.data] ELSE recv

\* A defect that the properties exclude: data_send is gone through from the latest on.
TransferredBack(heap, send, recv) == FoldRight(LAMBDA e, r : Put(heap, r, e), send, recv)
\* transferSend(): data_recv when the entries of data_send have been put there, in the
\* order of the calls, each if it differs from what is there by then.
Transferred(heap, send, recv) == FoldLeft(LAMBDA r, e : Put(heap, r, e), recv, send)
\* send_changed: the names of which an entry was put.
ChangedNames(heap, send, recv) ==
    {send[i].name : i \in {j \in DOMAIN send :
        IsPut(heap, Transferred(heap, SubSeq(send, 1, j - 1), recv), send[j])}}

ValuesInit ==
    /\ vectors = [a \in VectorAddress |-> <<>>]
    /\ value_send = <<>> /\ text_send = <<>> /\ snapshots = <<>>
    /\ value_recv = [f \in ValueField |-> None]
    /\ server_value = [f \in ValueField |-> None]
    /\ set_value = [f \in ValueField |-> None]
    /\ text_recv = None /\ server_text = None /\ set_text = None
    /\ in_place = {}
    /\ since = FALSE /\ changed = 0 /\ synced = 0

Counted == changed < MaxChanges /\ changed' = changed + 1 /\ since' = TRUE
textVars == <<text_send, text_recv, server_text, set_text>>
SetOnly == UNCHANGED <<value_recv, snapshots, server_value, synced>> /\ UNCHANGED textVars

\* What an application finds under a name that it has set.
Got(f) == GetRecv(value_send, value_recv, f)
IsSent(v) == v.data # 0 /\ \E g \in ValueField : value_recv[g] # None /\ value_recv[g].data = v.data

\* Value::set(std::vector<double>), and set(double) where the name is no element of a value.
IsElement(f) == f \in Item /\ Got(ItemOf[f]) # None
setValue(f) ==
    \E s \in {<<>>} \cup {<<x>> : x \in Num} \cup {<<x, x>> : x \in Num} :
        /\ Len(s) = 1 => ~IsElement(f)
        /\ Counted /\ SetOnly
        /\ value_send' = setSend(value_send, f, FromVector(FreeAddress, s))
        /\ set_value' = [set_value EXCEPT ![f] = IF s = <<>> THEN <<0>> ELSE s]
        /\ vectors' = Released([vectors EXCEPT ![FreeAddress] = s])
        /\ UNCHANGED in_place

\* A copy w of what is there is changed to s and set: by push_back(), resize() and, for an
\* element by its name, set(double).  The copy of a vector is that vector.
changeValue(f, w, s) ==
    /\ Counted /\ SetOnly
    /\ value_send' = setSend(value_send, f, w)
    /\ set_value' = [set_value EXCEPT ![f] = s]
    /\ vectors' = Released(IF w.data # 0 THEN [vectors EXCEPT ![w.data] = s] ELSE vectors)
    /\ in_place' = IF IsSent(w) THEN in_place \cup {f} ELSE in_place

push_back(f) ==
    \E x \in Num :
        /\ Got(f) # None
        /\ Len(ElementsOf(vectors, Got(f))) < MaxLength
        /\ changeValue(f, Vector(Got(f)), Append(ElementsOf(vectors, Got(f)), x))

resize(f) ==
    \E n \in 0 .. MaxLength :
        /\ Got(f) # None
        /\ changeValue(f, Vector(Got(f)), Resized(ElementsOf(vectors, Got(f)), n))
\* resize() and push_back() of what is not there.
emplace(f) ==
    \E s \in {[i \in 1 .. n |-> 0] : n \in 0 .. MaxLength} \cup {<<x>> : x \in Num} :
        /\ Got(f) = None
        /\ Counted /\ SetOnly
        /\ value_send' = setSend(value_send, f, FromVector(FreeAddress, s))
        /\ set_value' = [set_value EXCEPT ![f] = IF s = <<>> THEN <<0>> ELSE s]
        /\ vectors' = Released([vectors EXCEPT ![FreeAddress] = s])
        /\ UNCHANGED in_place

\* set(double) of a name whose last part is a number: the element of that index, if the
\* value in front of it is there and the index is not too far off.
setItem(f) ==
    LET p == ItemOf[f]
        v == Got(p)
        s == ElementsOf(vectors, v)
    IN  \E x \in Num :
            /\ IsElement(f)
            /\ ItemIndex[f] < Len(s) + 10
            /\ changeValue(p, IF v.data = 0 /\ ItemIndex[f] = 0 THEN Scalar(x) ELSE Vector(v),
                   [Resized(s, IF ItemIndex[f] < Len(s) THEN Len(s) ELSE ItemIndex[f] + 1)
                       EXCEPT ![ItemIndex[f] + 1] = x])

\* ValueElementRef::set(): the element is changed and the value put into data_recv.  Where
\* the value is a number that is still in data_send, which comes first, that has no effect.
setElement(f) ==
    LET v == Got(f)
        s == ElementsOf(vectors, v)
    IN  /\ v # None
        /\ \E i \in 1 .. Len(s), x \in Num :
              LET new == [s EXCEPT ![i] = x] IN
              /\ Counted
              /\ value_recv' = [value_recv EXCEPT ![f] = IF v.data # 0 THEN v ELSE Scalar(new[1])]
              /\ set_value' = [set_value EXCEPT ![f] =
                                  IF v.data = 0 /\ Pending(value_send, f) # {} THEN s ELSE new]
              /\ in_place' = in_place \cup {f}
              /\ UNCHANGED <<value_send, snapshots, server_value, synced>> /\ UNCHANGED textVars
              /\ vectors' = Released(IF v.data # 0 THEN [vectors EXCEPT ![v.data] = new] ELSE vectors)

\* Value::free(): what was sent is forgotten, here only.
freeValue(f) ==
    /\ value_recv[f] # None
    /\ Counted
    /\ value_recv' = [value_recv EXCEPT ![f] = None]
    /\ in_place' = in_place \cup {f}
    /\ set_value' = [set_value EXCEPT ![f] = IF Pending(value_send, f) = {} THEN None ELSE @]
    /\ UNCHANGED <<value_send, snapshots, server_value, synced>> /\ UNCHANGED textVars
    /\ vectors' = Released(vectors)

\* Variant::set(), Text::set().
setText ==
    \E v \in TextVal :
        /\ Counted
        /\ text_send' = Append(text_send, [name |-> 1, data |-> v])
        /\ set_text' = v
        /\ UNCHANGED <<vectors, value_send, value_recv, text_recv, snapshots, server_value,
                       server_text, set_value, in_place, synced>>

\* syncData(): both stores' changes make a snapshot, or all there is when the connection is
\* a new one (is_first), of which the server knows nothing; what was in the queue of the
\* lost one is thrown away (what is put there while it is being lost: ClientSync).
syncValues(is_first) ==
    LET values == Transferred(vectors, value_send, value_recv)
        news == IF is_first THEN {f \in ValueField : values[f] # None}
                ELSE ChangedNames(vectors, value_send, value_recv)
        texts == Transferred(vectors, text_send, <<text_recv>>)[1]
    IN  /\ synced < MaxSnapshots /\ synced' = synced + 1
        /\ since' = FALSE
        /\ value_send' = <<>> /\ text_send' = <<>>
        /\ value_recv' = values
        /\ text_recv' = texts
        /\ snapshots' = Append(IF is_first THEN <<>> ELSE snapshots,
               [values |-> [f \in news |-> values[f]],
                text |-> IF is_first \/ texts # text_recv THEN texts ELSE None])
        /\ in_place' = IF is_first THEN {} ELSE in_place
        /\ server_value' = IF is_first THEN [f \in ValueField |-> None] ELSE server_value
        /\ server_text' = IF is_first THEN None ELSE server_text
        /\ vectors' = Released(vectors)
        /\ UNCHANGED <<set_value, set_text, changed>>

\* packSyncData(), and the server's onRecv: what the vectors hold by then is sent.
packSyncData ==
    LET s == Head(snapshots) IN
    /\ snapshots # <<>>
    /\ snapshots' = Tail(snapshots)
    /\ server_value' = [f \in ValueField |-> IF f \in DOMAIN s.values
                                             THEN ElementsOf(vectors, s.values[f]) ELSE server_value[f]]
    /\ server_text' = IF s.text # None THEN s.text ELSE server_text
    /\ UNCHANGED <<value_send, value_recv, text_send, text_recv, set_value, set_text, in_place,
                   since, changed, synced>>
    /\ vectors' = Released(vectors)

ValuesNext ==
    \/ \E f \in ValueField :
          \/ setValue(f) \/ push_back(f) \/ resize(f) \/ emplace(f) \/ setElement(f) \/ freeValue(f)
          \/ f \in Item /\ setItem(f)
    \/ setText
    \/ \E is_first \in BOOLEAN : syncValues(is_first)
    \/ packSyncData
ValuesSpec == ValuesInit /\ [][ValuesNext]_valuesVars

----------------------------------------------------------------------------
\* After the calls came a sync(), and what it took has reached the server.
AllSent == ~since /\ snapshots = <<>>

\* What an application reads of its own is what it made of it; and when all is sent,
\* the server has that too, but for a value of which a vector that had been sent was
\* changed in place or an element set (ChangesSent), and a text is one that the last one
\* set is equal to (ValAdaptor's ==), however often and in whatever order they were set.
SentIsMeant ==
    /\ \A f \in ValueField :
          /\ Got(f) = None <=> set_value[f] = None
          /\ Got(f) # None => ElementsOf(vectors, Got(f)) = set_value[f]
    /\ AllSent =>
          /\ \A f \in ValueField \ in_place : server_value[f] = set_value[f]
          /\ server_text = text_recv
          /\ set_text # None => SameVal(server_text, set_text)

\* "Value::set() でデータを代入し、Client::sync()することで送信されます" (docs/51_value.md:32), with
\* resize(), [] and push_back() as its example: when everything is sent, the server has
\* the values that the application has.
ChangesSent == AllSent => \A f \in ValueField : set_value[f] # None => server_value[f] = set_value[f]
==============================================================================
