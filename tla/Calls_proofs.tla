---------------------------- MODULE Calls_proofs ----------------------------
(***************************************************************************)
(* Proofs about the call protocol: it keeps the registry's promises, it is *)
(* type correct, and an answer only ever reaches the caller it is for.     *)
(***************************************************************************)
EXTENDS Calls, ServerStore_proofs, FiniteSetTheorems, SequenceTheorems

\* A sequence that lists a finite set is a sequence over it.
LEMMA SetToSeqType == ASSUME NEW S, IsFiniteSet(S) PROVE SetToSeq(S) \in Seq(S)
<1>1. /\ Cardinality(S) \in Nat
      /\ ExistsBijection(1..Cardinality(S), S)
  BY FS_CardinalityType
<1>2. \E f \in [1..Cardinality(S) -> S] : IsInjective(f)
  BY <1>1 DEF ExistsBijection, Bijection, Injection
<1>3. SetToSeq(S) \in [1..Cardinality(S) -> S]
  BY <1>2 DEF SetToSeq
<1>. QED  BY <1>1, <1>3

\* The messages that onClose of c sends to one connection are finitely many.
LEMMA AbortsType ==
    ASSUME PendingTypeOK, NEW c \in Conn, NEW d \in Conn
    PROVE  LET sent == {key \in DOMAIN pending_calls[c] :
                          /\ pending_calls[c][key].state # 0
                          /\ FoundConnected(key[1])
                          /\ clients_by_id[key[1]] = d
                          /\ d # c}
           IN Aborts(c, d) \in Seq({AbortMsg(c, key) : key \in sent})
<1> DEFINE sent == {key \in DOMAIN pending_calls[c] :
                      /\ pending_calls[c][key].state # 0
                      /\ FoundConnected(key[1])
                      /\ clients_by_id[key[1]] = d
                      /\ d # c}
           msgs == {AbortMsg(c, key) : key \in sent}
           f == [key \in sent |-> AbortMsg(c, key)]
<1>1. IsFiniteSet(sent)
  BY FS_Subset DEF PendingTypeOK
<1>2. f \in Surjection(sent, msgs)
  BY DEF Surjection
<1>3. IsFiniteSet(msgs)
  BY <1>1, <1>2, FS_Surjection DEF ExistsSurjection
<1>. QED  BY <1>3, SetToSeqType DEF Aborts

LEMMA AbortMsgType ==
    ASSUME PendingTypeOK, NEW c \in Conn, NEW key \in DOMAIN pending_calls[c]
    PROVE  AbortMsg(c, key) \in Message
BY DEF PendingTypeOK, AbortMsg, Message, CallResponseMsg, CallResultMsg

----------------------------------------------------------------------------
(* The registry.                                                           *)

LEMMA CallsStoreStep == [CallsNext]_callsVars => [StoreNext]_storeVars
<1> SUFFICES ASSUME [CallsNext]_callsVars PROVE [StoreNext]_storeVars
  OBVIOUS
<1>1. CASE UNCHANGED callsVars
  BY <1>1 DEF callsVars
<1>2. ASSUME NEW p \in Client, NEW c \in Conn, Connect(p, c) PROVE StoreNext
  BY <1>2 DEF Connect, connect, StoreNext
<1>3. ASSUME NEW c \in Conn, SyncInit(c) PROVE StoreNext
  BY <1>3, ClientAssumption DEF SyncInit, syncInit, OwnName, StoreNext
<1>4. ASSUME NEW p \in Client, App(p) PROVE UNCHANGED storeVars
  BY <1>4 DEF App, RecvCall, RecvCallResponse, RecvCallResult, Take
<1>5. ASSUME NEW p \in Client, NEW n \in Name, runAsync(p, n) PROVE UNCHANGED storeVars
  BY <1>5 DEF runAsync
<1>6. ASSUME NEW p \in Client, FinishCall(p) PROVE UNCHANGED storeVars
  BY <1>6 DEF FinishCall
<1>7. ASSUME NEW p \in Client, Disconnect(p) PROVE UNCHANGED storeVars
  BY <1>7 DEF Disconnect, disconnect
<1>8. ASSUME NEW c \in Conn, Serve(c) PROVE UNCHANGED storeVars
  BY <1>8 DEF Serve, ServeCall, ServeCallResponse, ServeCallResult
<1>9. ASSUME NEW c \in Conn, Close(c) PROVE StoreNext
  BY <1>9 DEF Close, onClose, StoreNext
<1>. QED  BY <1>1, <1>2, <1>3, <1>4, <1>5, <1>6, <1>7, <1>8, <1>9 DEF CallsNext

LEMMA CallsInitStore == CallsInit => StoreInit
BY DEF CallsInit, LinkInit

\* The call protocol drives the registry as the registry allows (StoreSpec).
THEOREM CallsImplementStore == CallsSpec => StoreSpec
BY CallsInitStore, CallsStoreStep, PTL DEF CallsSpec, StoreSpec

----------------------------------------------------------------------------
(* Type correctness.                                                       *)

LEMMA CallsInitType == CallsInit => CallsTypeOK
<1> SUFFICES ASSUME CallsInit PROVE CallsTypeOK
  OBVIOUS
<1>1. LinkTypeOK
  BY CallsInitStore, InitStoreInv DEF CallsInit, LinkInit, LinkTypeOK, StoreInv
<1>2. WireTypeOK
  BY DEF CallsInit, WireTypeOK
<1>3. PendingTypeOK
  BY FS_EmptySet DEF CallsInit, PendingTypeOK
<1>. QED  BY <1>1, <1>2, <1>3 DEF CallsInit, LinkInit, CallsTypeOK

LEMMA ReadType ==
    ASSUME StoreInv, CallsTypeOK, NEW c \in Conn, NEW kind, Read(c, kind),
           UNCHANGED <<storeVars, conn_of>>
    PROVE  /\ Head(Uplink(c)) \in Message
           /\ Head(Uplink(c)).kind = kind
           /\ sync_queue' \in [Client -> Seq(Message)]
           /\ WireTypeOK'
<1> USE DEF CallsTypeOK, Read, Uplink
<1>1. Uplink(c) \in Seq(Message) /\ Uplink(c) # <<>>
  BY ClientAssumption DEF WireTypeOK
<1>2. Head(Uplink(c)) \in Message /\ Tail(Uplink(c)) \in Seq(Message)
  BY <1>1, HeadTailProperties
<1>3. CASE Held(c)
  BY ZenonT(30), <1>2, <1>3, ClientAssumption DEF WireTypeOK, Held, storeVars
<1>4. CASE ~Held(c)
  BY <1>1, <1>2, <1>4, ClientAssumption DEF WireTypeOK, Held, storeVars
<1>. QED  BY <1>1, <1>2, <1>3, <1>4

LEMMA SendToType ==
    ASSUME CallsTypeOK, NEW d, NEW m \in Message, SendTo(d, m)
    PROVE  recv_queue' \in [Client -> Seq(Message)]
BY AppendProperties DEF CallsTypeOK, SendTo

LEMMA ForwardType ==
    ASSUME CallsTypeOK, NEW id, NEW m \in Message, Forward(id, m)
    PROVE  recv_queue' \in [Client -> Seq(Message)]
BY SendToType DEF CallsTypeOK, Forward

LEMMA SetPendingType ==
    ASSUME CallsTypeOK, NEW d \in Conn, NEW m \in Message, NEW state \in 0..2,
           SetPending(d, m, state)
    PROVE  PendingTypeOK'
<1> DEFINE key == <<m.mid, m.cid>>
           entry == [state |-> state, by |-> m.by]
<1>1. key \in Nat \X Nat /\ entry \in [state : 0..2, by : Client]
  BY DEF Message
<1>2. /\ DOMAIN pending_calls' = Conn
      /\ \A c \in Conn \ {d} : pending_calls'[c] = pending_calls[c]
      /\ DOMAIN pending_calls'[d] = DOMAIN pending_calls[d] \cup {key}
      /\ pending_calls'[d][key] = entry
      /\ \A k \in DOMAIN pending_calls[d] \ {key} :
            pending_calls'[d][k] = pending_calls[d][k]
  BY DEF SetPending, CallsTypeOK, PendingTypeOK, Overwrite
<1>3. IsFiniteSet(DOMAIN pending_calls'[d])
  <2>1. IsFiniteSet(DOMAIN pending_calls[d])
    BY DEF CallsTypeOK, PendingTypeOK
  <2>2. IsFiniteSet(DOMAIN pending_calls[d] \cup {key})
    BY <2>1, FS_AddElement
  <2>. QED  BY <1>2, <2>2
<1>. QED  BY ZenonT(30), <1>1, <1>2, <1>3 DEF CallsTypeOK, PendingTypeOK

LEMMA TakeType ==
    ASSUME CallsTypeOK, NEW p \in Client, NEW kind, Take(p, kind)
    PROVE  /\ Head(recv_queue[p]) \in Message
           /\ Head(recv_queue[p]).kind = kind
           /\ recv_queue' \in [Client -> Seq(Message)]
BY HeadTailProperties DEF CallsTypeOK, Take

LEMMA pushType ==
    ASSUME CallsTypeOK, NEW p \in Client, NEW m \in Message, push(p, m)
    PROVE  sync_queue' \in [Client -> Seq(Message)]
BY AppendProperties DEF CallsTypeOK, push

\* The conjuncts of CallsTypeOK about variables that a step leaves alone.
LEMMA CallsTypeUnchanged ==
    ASSUME CallsTypeOK
    PROVE  /\ UNCHANGED <<storeVars, conn_of>> => LinkTypeOK'
           /\ UNCHANGED <<storeVars, conn_of, wire>> => WireTypeOK'
           /\ UNCHANGED pending_calls => PendingTypeOK'
BY DEF CallsTypeOK, LinkTypeOK, StoreTypeOK, storeVars, WireTypeOK, Held,
       PendingTypeOK

LEMMA SendEachType ==
    ASSUME CallsTypeOK, NEW msgs \in [Conn -> Seq(Message)], SendEach(msgs)
    PROVE  recv_queue' \in [Client -> Seq(Message)]
<1>1. ASSUME NEW p \in Client, conn_of[p] # NoConn
      PROVE  recv_queue[p] \o msgs[conn_of[p]] \in Seq(Message)
  BY <1>1, ConcatProperties DEF CallsTypeOK, LinkTypeOK
<1>. QED  BY <1>1 DEF CallsTypeOK, SendEach

LEMMA ConnectType ==
    ASSUME StoreInv, CallsTypeOK, StoreTypeOK',
           NEW p \in Client, NEW c \in Conn, Connect(p, c)
    PROVE  CallsTypeOK'
<1> USE DEF Connect, connect, newClient, MemberData, callVars
<1>1. LinkTypeOK'
  BY ClientAssumption DEF CallsTypeOK, LinkTypeOK
<1>2. wire[c] = <<>>
  BY DEF StoreInv, IdsBelowLast, CallsTypeOK, WireTypeOK
<1>3. WireTypeOK'
  BY <1>2, ClientAssumption DEF CallsTypeOK, WireTypeOK, Held, LinkTypeOK
<1>. QED  BY <1>1, <1>3, CallsTypeUnchanged DEF CallsTypeOK

LEMMA SyncInitType ==
    ASSUME CallsTypeOK, StoreTypeOK', NEW c \in Conn, SyncInit(c)
    PROVE  CallsTypeOK'
<1> USE DEF SyncInit, syncInit, registerClient, callVars
<1>1. LinkTypeOK' /\ WireTypeOK'
  BY DEF CallsTypeOK, LinkTypeOK, WireTypeOK, Held
<1>. QED  BY <1>1, CallsTypeUnchanged DEF CallsTypeOK

LEMMA runAsyncType ==
    ASSUME CallsTypeOK, NEW p \in Client, NEW n \in Name, runAsync(p, n)
    PROVE  CallsTypeOK'
<1>1. Len(promise[p]) \in Nat /\ MemberIdFromName(n) \subseteq Nat
  BY LenProperties DEF CallsTypeOK, LinkTypeOK, StoreTypeOK, MemberIdFromName, SameName
<1>2. sync_queue' \in [Client -> Seq(Message)]
  <2>1. \A id \in MemberIdFromName(n) : CallMsg(0, Len(promise[p]), p, id) \in Message
    BY <1>1 DEF CallMsg, Message
  <2>2. CASE conn_of[p] # NoConn
    BY <2>1, <2>2, pushType DEF runAsync
  <2>3. CASE conn_of[p] = NoConn
    BY <2>3 DEF runAsync, CallsTypeOK
  <2>. QED  BY <2>2, <2>3
<1>3. promise' \in [Client -> Seq(PromiseData)]
  BY AppendProperties DEF runAsync, CallsTypeOK, PromiseData, addResult, reach
<1>. QED  BY <1>2, <1>3, CallsTypeUnchanged DEF runAsync, CallsTypeOK, linkVars

LEMMA AppType ==
    ASSUME CallsTypeOK, NEW p \in Client, App(p)
    PROVE  CallsTypeOK'
<1> DEFINE m == Head(recv_queue[p])
<1>1. ASSUME RecvCall(p) PROVE CallsTypeOK'
  <2>1. m \in Message /\ m.kind = "call" /\ recv_queue' \in [Client -> Seq(Message)]
    BY <1>1, TakeType DEF RecvCall
  <2>2. \A found \in BOOLEAN : CallResponseMsg(m.mid, m.cid, m.by, found) \in Message
    BY <2>1 DEF CallResponseMsg, Message
  <2>3. sync_queue' \in [Client -> Seq(Message)]
    BY <1>1, <2>2, pushType DEF RecvCall
  <2>4. running' \in [Client -> SUBSET Message]
    BY <1>1, <2>1 DEF RecvCall, CallsTypeOK
  <2>. QED  BY <1>1, <2>1, <2>3, <2>4, CallsTypeUnchanged DEF RecvCall, Take, CallsTypeOK
<1>2. ASSUME RecvCallResponse(p) PROVE CallsTypeOK'
  <2>1. m \in Message /\ m.kind = "call_response"
        /\ recv_queue' \in [Client -> Seq(Message)]
    BY <1>2, TakeType DEF RecvCallResponse
  <2>2. m.cid \in Nat /\ m.started \in BOOLEAN
    BY <2>1 DEF Message
  <2>3. promise' \in [Client -> Seq(PromiseData)]
    <3> DEFINE k == m.cid + 1
               new == Reached(promise[p][k], m.started)
    <3>1. CASE Stored(p, m.cid) /\ ~promise[p][k].reached
      <4>1. promise[p] \in Seq(PromiseData) /\ k \in 1..Len(promise[p])
        BY <2>2, <3>1 DEF CallsTypeOK, Stored
      <4>2. new \in PromiseData
        <5>1. promise[p][k] \in PromiseData
          BY <4>1, ElementOfSeq
        <5>. QED  BY <2>2, <5>1 DEF PromiseData, Reached, reach, removeResult
      <4>3. [promise[p] EXCEPT ![k] = new] \in Seq(PromiseData)
        BY <4>1, <4>2, ExceptSeq
      <4>. QED  BY <1>2, <3>1, <4>3 DEF RecvCallResponse, CallsTypeOK
    <3>2. CASE ~(Stored(p, m.cid) /\ ~promise[p][k].reached)
      BY <1>2, <3>2 DEF RecvCallResponse, CallsTypeOK
    <3>. QED  BY <3>1, <3>2
  <2>. QED  BY <1>2, <2>1, <2>3, CallsTypeUnchanged DEF RecvCallResponse, Take, CallsTypeOK
<1>3. ASSUME RecvCallResult(p) PROVE CallsTypeOK'
  <2>1. m \in Message /\ m.kind = "call_result"
        /\ recv_queue' \in [Client -> Seq(Message)]
    BY <1>3, TakeType DEF RecvCallResult
  <2>2. m.cid \in Nat /\ m.is_error \in BOOLEAN
    BY <2>1 DEF Message
  <2>3. promise' \in [Client -> Seq(PromiseData)]
    <3> DEFINE k == m.cid + 1
               new == removeResult(respond(promise[p][k], m.is_error))
    <3>1. CASE Stored(p, m.cid) /\ ~promise[p][k].finished
      <4>1. promise[p] \in Seq(PromiseData) /\ k \in 1..Len(promise[p])
        BY <2>2, <3>1 DEF CallsTypeOK, Stored
      <4>2. new \in PromiseData
        <5>1. promise[p][k] \in PromiseData
          BY <4>1, ElementOfSeq
        <5>. QED  BY <2>2, <5>1 DEF PromiseData, removeResult, respond
      <4>3. [promise[p] EXCEPT ![k] = new] \in Seq(PromiseData)
        BY <4>1, <4>2, ExceptSeq
      <4>. QED  BY <1>3, <3>1, <4>3 DEF RecvCallResult, CallsTypeOK
    <3>2. CASE ~(Stored(p, m.cid) /\ ~promise[p][k].finished)
      BY <1>3, <3>2 DEF RecvCallResult, CallsTypeOK
    <3>. QED  BY <3>1, <3>2
  <2>. QED  BY <1>3, <2>1, <2>3, CallsTypeUnchanged DEF RecvCallResult, Take, CallsTypeOK
<1>. QED  BY <1>1, <1>2, <1>3 DEF App

LEMMA FinishCallType ==
    ASSUME CallsTypeOK, NEW p \in Client, FinishCall(p)
    PROVE  CallsTypeOK'
<1>1. PICK m \in running[p], error \in BOOLEAN :
         /\ push(p, CallResultMsg(m.mid, m.cid, m.by, error))
         /\ running' = [running EXCEPT ![p] = @ \ {m}]
  BY DEF FinishCall
<1>2. m \in Message
  BY DEF CallsTypeOK
<1>3. CallResultMsg(m.mid, m.cid, m.by, error) \in Message
  BY <1>2 DEF CallResultMsg, Message
<1>4. sync_queue' \in [Client -> Seq(Message)]
  BY <1>1, <1>3, pushType
<1>5. running' \in [Client -> SUBSET Message]
  BY <1>1 DEF CallsTypeOK
<1>. QED  BY <1>4, <1>5, CallsTypeUnchanged DEF FinishCall, CallsTypeOK, linkVars

LEMMA ServeType ==
    ASSUME StoreInv, CallsTypeOK, NEW c \in Conn, Serve(c)
    PROVE  CallsTypeOK'
<1> DEFINE m == Head(Uplink(c))
<1>0. UNCHANGED <<storeVars, conn_of, promise, running>>
  BY DEF Serve, ServeCall, ServeCallResponse, ServeCallResult
<1>1. \A id \in DOMAIN clients_by_id : clients_by_id[id] \in Conn
  BY DEF StoreInv, StoreTypeOK
<1>2. ASSUME ServeCall(c) PROVE CallsTypeOK'
  <2> DEFINE call == [m EXCEPT !.mid = member_id[c]]
  <2>1. /\ m \in Message /\ m.kind = "call"
        /\ sync_queue' \in [Client -> Seq(Message)]
        /\ WireTypeOK'
    BY <1>0, <1>2, ReadType DEF ServeCall
  <2>2. call \in Message
    BY <2>1 DEF Message, StoreInv, StoreTypeOK
  <2>3. CASE FoundConnected(call.target)
    <3>1. recv_queue' \in [Client -> Seq(Message)]
      BY <1>2, <2>2, <2>3, SendToType DEF ServeCall
    <3>2. clients_by_id[call.target] \in Conn /\ SetPending(clients_by_id[call.target], call, 2)
      BY <1>1, <1>2, <2>3 DEF ServeCall, FoundConnected, Found
    <3>3. PendingTypeOK'
      <4> DEFINE d == clients_by_id[call.target]
      <4>1. d \in Conn /\ SetPending(d, call, 2) /\ call \in Message /\ 2 \in 0..2
        BY <2>2, <3>2
      <4> HIDE DEF d, call
      <4>. QED  BY <4>1, SetPendingType
    <3>. QED  BY <1>0, <2>1, <3>1, <3>3, CallsTypeUnchanged DEF CallsTypeOK
  <2>4. CASE ~FoundConnected(call.target)
    <3> DEFINE refusal == CallResponseMsg(call.mid, call.cid, call.by, FALSE)
    <3>1. refusal \in Message /\ SendTo(c, refusal)
      BY <1>2, <2>2, <2>4 DEF Message, CallResponseMsg, ServeCall
    <3>2. recv_queue' \in [Client -> Seq(Message)]
      BY <3>1, SendToType
    <3>3. PendingTypeOK'
      BY <1>2, <2>4, CallsTypeUnchanged DEF ServeCall
    <3>. QED  BY <1>0, <2>1, <3>2, <3>3, CallsTypeUnchanged DEF CallsTypeOK
  <2>. QED  BY <2>3, <2>4
<1>3. ASSUME ServeCallResponse(c) PROVE CallsTypeOK'
  <2>1. /\ m \in Message
        /\ sync_queue' \in [Client -> Seq(Message)]
        /\ WireTypeOK'
    BY <1>0, <1>3, ReadType DEF ServeCallResponse
  <2>2. recv_queue' \in [Client -> Seq(Message)]
    BY <1>3, <2>1, ForwardType DEF ServeCallResponse
  <2>3. PendingTypeOK'
    BY <1>3, <2>1, SetPendingType DEF ServeCallResponse
  <2>. QED  BY <1>0, <2>1, <2>2, <2>3, CallsTypeUnchanged DEF CallsTypeOK
<1>4. ASSUME ServeCallResult(c) PROVE CallsTypeOK'
  <2>1. /\ m \in Message
        /\ sync_queue' \in [Client -> Seq(Message)]
        /\ WireTypeOK'
    BY <1>0, <1>4, ReadType DEF ServeCallResult
  <2>2. recv_queue' \in [Client -> Seq(Message)]
    BY <1>4, <2>1, ForwardType DEF ServeCallResult
  <2>3. PendingTypeOK'
    BY <1>4, <2>1, SetPendingType DEF ServeCallResult
  <2>. QED  BY <1>0, <2>1, <2>2, <2>3, CallsTypeUnchanged DEF CallsTypeOK
<1>. QED  BY <1>2, <1>3, <1>4 DEF Serve

LEMMA CloseType ==
    ASSUME CallsTypeOK, StoreTypeOK', NEW c \in Conn, Close(c)
    PROVE  CallsTypeOK'
<1>1. LinkTypeOK'
  BY DEF Close, onClose, CallsTypeOK, LinkTypeOK
<1>2. ASSUME NEW d \in Conn PROVE Aborts(c, d) \in Seq(Message)
  <2> DEFINE sent == {key \in DOMAIN pending_calls[c] :
                        /\ pending_calls[c][key].state # 0
                        /\ FoundConnected(key[1])
                        /\ clients_by_id[key[1]] = d
                        /\ d # c}
             msgs == {AbortMsg(c, key) : key \in sent}
  <2>1. Aborts(c, d) \in Seq(msgs)
    BY AbortsType DEF CallsTypeOK
  <2>2. msgs \subseteq Message
    BY AbortMsgType DEF CallsTypeOK
  <2>. QED  BY <2>1, <2>2, SeqMonotonic
<1>3. recv_queue' \in [Client -> Seq(Message)]
  BY <1>2, SendEachType DEF Close
<1>4. WireTypeOK'
  BY DEF Close, onClose, removeClient, CallsTypeOK, WireTypeOK, Held
<1>. QED  BY <1>1, <1>3, <1>4, CallsTypeUnchanged DEF Close, CallsTypeOK

LEMMA DisconnectType ==
    ASSUME CallsTypeOK, NEW p \in Client, Disconnect(p)
    PROVE  CallsTypeOK'
<1> DEFINE c == conn_of[p]
           q == sync_queue[p]
<1>1. c \in Conn /\ owner[c] = p /\ q \in Seq(Message)
  BY DEF Disconnect, disconnect, CallsTypeOK, LinkTypeOK
<1>2. PICK i, j \in 0..Len(q) :
         /\ i <= j
         /\ c \notin clients => i = 0
         /\ wire' = [wire EXCEPT ![c] = SubSeq(q, 1, i)]
         /\ sync_queue' = [sync_queue EXCEPT ![p] = SubSeq(q, j + 1, Len(q))]
  BY DEF Disconnect
<1>3. SubSeq(q, 1, i) \in Seq(Message) /\ SubSeq(q, j + 1, Len(q)) \in Seq(Message)
  BY <1>1, <1>2, SubSeqProperties, LenProperties
<1>4. i = 0 => SubSeq(q, 1, i) = <<>>
  BY <1>1, SubSeqEmpty
<1>5. LinkTypeOK'
  BY DEF Disconnect, disconnect, storeVars, CallsTypeOK, LinkTypeOK, StoreTypeOK
<1>6. WireTypeOK'
  <2>1. clients' = clients /\ conn_of' = [conn_of EXCEPT ![p] = NoConn]
    BY DEF Disconnect, disconnect, storeVars
  <2>2. wire' \in [Conn -> Seq(Message)]
    BY <1>2, <1>3 DEF CallsTypeOK, WireTypeOK
  <2>3. ASSUME NEW d \in Conn, wire'[d] # <<>> PROVE d \in clients' /\ ~Held(d)'
    <3>1. CASE d = c
      BY <1>1, <1>2, <1>4, <2>1, <2>3, <3>1, ClientAssumption
      DEF CallsTypeOK, WireTypeOK, LinkTypeOK, Held
    <3>2. CASE d # c
      BY <1>2, <2>1, <2>3, <3>2, ClientAssumption
      DEF CallsTypeOK, WireTypeOK, LinkTypeOK, Held
    <3>. QED  BY <3>1, <3>2
  <2>. QED  BY <2>2, <2>3 DEF WireTypeOK
<1>7. sync_queue' \in [Client -> Seq(Message)]
  BY <1>2, <1>3 DEF CallsTypeOK
<1>. QED  BY <1>5, <1>6, <1>7, CallsTypeUnchanged
          DEF Disconnect, disconnect, CallsTypeOK

LEMMA CallsTypeStep ==
    ASSUME StoreInv, StoreInv', CallsTypeOK, [CallsNext]_callsVars
    PROVE  CallsTypeOK'
<1>0. StoreTypeOK'
  BY DEF StoreInv
<1>1. CASE UNCHANGED callsVars
  BY <1>1, CallsTypeUnchanged DEF callsVars, linkVars, callVars, CallsTypeOK
<1>2. CASE CallsNext
  BY <1>0, <1>2, ConnectType, SyncInitType, AppType, runAsyncType, FinishCallType,
     DisconnectType, ServeType, CloseType DEF CallsNext
<1>. QED  BY <1>1, <1>2

\* The call protocol keeps the type invariant (CallsTypeOK).
THEOREM CallsTypeCorrect == CallsSpec => []CallsTypeOK
<1>1. CallsSpec => []StoreInv
  BY CallsImplementStore, RegistryConsistent, PTL
<1>. QED  BY <1>1, CallsInitType, CallsTypeStep, PTL DEF CallsSpec

----------------------------------------------------------------------------
(* Answers reach their caller.                                             *)

\* Once a process has used an id, it has used it forever.
LEMMA IdOfStable ==
    ASSUME StoreInv, [StoreNext]_storeVars, NEW i, NEW p, IdOf(i, p)
    PROVE  IdOf(i, p)'
<1>1. PICK d \in Conn : owner[d] = p /\ sync_init[d] /\ member_id[d] = i
  BY DEF IdOf
<1>2. sync_init'[d] /\ member_id'[d] = i
  <2>1. CASE UNCHANGED storeVars
    BY <1>1, <2>1 DEF storeVars
  <2>2. ASSUME NEW c \in Conn, newClient(c) PROVE sync_init'[d] /\ member_id'[d] = i
    BY <1>1, <2>2 DEF newClient, MemberData, StoreInv, StoreTypeOK, IdsBelowLast
  <2>3. ASSUME NEW c \in Conn, NEW n \in MName, NEW id \in AssignableId(c, n),
               registerClient(c, n, id)
        PROVE  sync_init'[d] /\ member_id'[d] = i
    BY <1>1, <2>3 DEF registerClient, StoreInv, StoreTypeOK
  <2>4. ASSUME NEW c \in Conn, removeClient(c) PROVE sync_init'[d] /\ member_id'[d] = i
    BY <1>1, <2>4 DEF removeClient
  <2>. QED  BY <2>1, <2>2, <2>3, <2>4 DEF StoreNext
<1>. QED  BY <1>1, <1>2 DEF IdOf

\* No two processes ever use the same id: a shared id means a shared name.
LEMMA IdOfOne ==
    ASSUME DistinctMemberNames, StoreInv, CallerKnown,
           NEW i, NEW p \in Client, NEW q \in Client, IdOf(i, p), IdOf(i, q)
    PROVE  p = q
<1>1. PICK c \in Conn : owner[c] = p /\ sync_init[c] /\ member_id[c] = i
  BY DEF IdOf
<1>2. PICK d \in Conn : owner[d] = q /\ sync_init[d] /\ member_id[d] = i
  BY DEF IdOf
<1>3. name[c] = MemberName[p] /\ name[d] = MemberName[q]
  BY <1>1, <1>2 DEF CallerKnown, OwnName
<1>4. name[c] = name[d] /\ (name[c] = NoName => c = d)
  BY <1>1, <1>2 DEF StoreInv, IdsShared
<1>. QED  BY <1>1, <1>2, <1>3, <1>4 DEF DistinctMemberNames

\* Whatever is found under an id is a connection of the process with that id.
LEMMA FoundIsOwner ==
    ASSUME DistinctMemberNames, StoreInv, CallerKnown,
           NEW i, NEW p \in Client, IdOf(i, p), Found(i)
    PROVE  clients_by_id[i] \in Conn /\ owner[clients_by_id[i]] = p
<1>1. clients_by_id[i] \in Conn /\ sync_init[clients_by_id[i]]
      /\ member_id[clients_by_id[i]] = i
  BY DEF Found, StoreInv, StoreTypeOK, EntryUnderOwnId
<1>2. IdOf(i, owner[clients_by_id[i]])
  BY <1>1 DEF IdOf
<1>3. owner[clients_by_id[i]] \in Client
  BY <1>1, ClientAssumption
<1>. QED  BY <1>1, <1>2, <1>3, IdOfOne

\* The conjuncts of CallerKnown for the new values of the variables, with the
\* ids that were known before the step.
CallerKnownAfter ==
    /\ \A c \in Conn : sync_init'[c] => name'[c] = OwnName(c)
    /\ \A p \in Client : /\ sync_queue'[p] \in Seq(FromClient(p))
                         /\ recv_queue'[p] \in Seq(ToClient(p))
                         /\ \A m \in running'[p] : IdOf(m.mid, m.by)
    /\ \A c \in Conn : /\ wire'[c] \in Seq(FromClient(owner[c]))
                       /\ \A key \in DOMAIN pending_calls'[c] :
                             IdOf(key[1], pending_calls'[c][key].by)

LEMMA CallerKnownPrime ==
    ASSUME StoreInv, [StoreNext]_storeVars, CallerKnownAfter
    PROVE  CallerKnown'
<1>1. \A p \in Client : /\ FromClient(p) \subseteq FromClient(p)'
                       /\ ToClient(p) \subseteq ToClient(p)'
  <2>1. ASSUME NEW p \in Client, NEW m \in FromClient(p) PROVE m \in FromClient(p)'
    BY <2>1, IdOfStable DEF FromClient
  <2>2. ASSUME NEW p \in Client, NEW m \in ToClient(p) PROVE m \in ToClient(p)'
    BY <2>2, IdOfStable DEF ToClient
  <2>. QED  BY <2>1, <2>2
<1>2. ASSUME NEW p \in Client
      PROVE  /\ sync_queue'[p] \in Seq(FromClient(p)')
             /\ recv_queue'[p] \in Seq(ToClient(p)')
             /\ \A m \in running'[p] : IdOf(m.mid, m.by)'
  BY <1>1, SeqMonotonic, IdOfStable DEF CallerKnownAfter
<1>3. ASSUME NEW c \in Conn
      PROVE  /\ wire'[c] \in Seq(FromClient(owner[c])')
             /\ \A key \in DOMAIN pending_calls'[c] :
                   IdOf(key[1], pending_calls[c][key].by)'
  <2>1. owner[c] \in Client
    BY ClientAssumption
  <2>2. wire'[c] \in Seq(FromClient(owner[c])')
    BY <1>1, <2>1, SeqMonotonic DEF CallerKnownAfter
  <2>3. ASSUME NEW key \in DOMAIN pending_calls'[c]
        PROVE  IdOf(key[1], pending_calls[c][key].by)'
    BY <2>3, IdOfStable DEF CallerKnownAfter
  <2>. QED  BY <2>2, <2>3
<1>. QED  BY <1>2, <1>3 DEF CallerKnown, CallerKnownAfter, OwnName

\* What a step leaves alone stays known.
LEMMA KnownUnchanged ==
    ASSUME CallerKnown
    PROVE  /\ UNCHANGED storeVars => \A c \in Conn : sync_init'[c] => name'[c] = OwnName(c)
           /\ UNCHANGED sync_queue => \A p \in Client : sync_queue'[p] \in Seq(FromClient(p))
           /\ UNCHANGED recv_queue => \A p \in Client : recv_queue'[p] \in Seq(ToClient(p))
           /\ UNCHANGED running =>
                 \A p \in Client : \A m \in running'[p] : IdOf(m.mid, m.by)
           /\ UNCHANGED wire => \A c \in Conn : wire'[c] \in Seq(FromClient(owner[c]))
           /\ UNCHANGED pending_calls =>
                 \A c \in Conn : \A key \in DOMAIN pending_calls'[c] :
                    IdOf(key[1], pending_calls'[c][key].by)
BY DEF CallerKnown, storeVars

LEMMA RegistryKnown ==
    ASSUME StoreInv, CallerKnown, NEW c \in Conn,
           \/ newClient(c)
           \/ removeClient(c)
           \/ \E id : registerClient(c, OwnName(c), id)
    PROVE  \A d \in Conn : sync_init'[d] => name'[d] = OwnName(d)
BY ZenonT(30) DEF CallerKnown, StoreInv, StoreTypeOK, newClient, MemberData, removeClient, registerClient

LEMMA ConnectKnown ==
    ASSUME StoreInv, CallerKnown, NEW p \in Client, NEW c \in Conn, Connect(p, c)
    PROVE  CallerKnownAfter
BY RegistryKnown, KnownUnchanged DEF Connect, connect, callVars, CallerKnownAfter

LEMMA SyncInitKnown ==
    ASSUME StoreInv, CallerKnown, NEW c \in Conn, SyncInit(c)
    PROVE  CallerKnownAfter
BY RegistryKnown, KnownUnchanged DEF SyncInit, syncInit, callVars, CallerKnownAfter

LEMMA pushKnown ==
    ASSUME CallsTypeOK, CallerKnown, NEW p \in Client, NEW m \in FromClient(p), push(p, m)
    PROVE  \A q \in Client : sync_queue'[q] \in Seq(FromClient(q))
BY AppendProperties DEF CallsTypeOK, CallerKnown, push

LEMMA TakeKnown ==
    ASSUME CallsTypeOK, CallerKnown, NEW p \in Client, NEW kind, Take(p, kind)
    PROVE  /\ Head(recv_queue[p]) \in ToClient(p)
           /\ \A q \in Client : recv_queue'[q] \in Seq(ToClient(q))
BY HeadTailProperties DEF CallsTypeOK, CallerKnown, Take

LEMMA runAsyncKnown ==
    ASSUME CallsTypeOK, CallerKnown, NEW p \in Client, NEW n \in Name, runAsync(p, n)
    PROVE  CallerKnownAfter
<1>1. Len(promise[p]) \in Nat /\ MemberIdFromName(n) \subseteq Nat
  BY LenProperties DEF CallsTypeOK, LinkTypeOK, StoreTypeOK, MemberIdFromName, SameName
<1>2. \A id \in MemberIdFromName(n) : CallMsg(0, Len(promise[p]), p, id) \in FromClient(p)
  BY <1>1 DEF CallMsg, Message, FromClient
<1>3. \A q \in Client : sync_queue'[q] \in Seq(FromClient(q))
  <2>1. CASE conn_of[p] # NoConn
    BY <1>2, <2>1, pushKnown DEF runAsync
  <2>2. CASE conn_of[p] = NoConn
    BY <2>2, KnownUnchanged DEF runAsync
  <2>. QED  BY <2>1, <2>2
<1>. QED  BY <1>3, KnownUnchanged DEF runAsync, linkVars, CallerKnownAfter

LEMMA AppKnown ==
    ASSUME CallsTypeOK, CallerKnown, NEW p \in Client, App(p)
    PROVE  CallerKnownAfter
<1> DEFINE m == Head(recv_queue[p])
<1>1. ASSUME RecvCall(p) PROVE CallerKnownAfter
  <2>1. /\ m \in ToClient(p) /\ m.kind = "call"
        /\ \A q \in Client : recv_queue'[q] \in Seq(ToClient(q))
    BY <1>1, TakeKnown DEF RecvCall, Take
  <2>2. m \in Message /\ IdOf(m.mid, m.by)
    BY <2>1 DEF ToClient
  <2>3. PICK found \in BOOLEAN :
           /\ push(p, CallResponseMsg(m.mid, m.cid, m.by, found))
           /\ running' = [running EXCEPT ![p] = IF found THEN @ \cup {m} ELSE @]
    BY <1>1 DEF RecvCall
  <2>4. CallResponseMsg(m.mid, m.cid, m.by, found) \in FromClient(p)
    BY <2>1, <2>2 DEF CallResponseMsg, Message, FromClient
  <2>5. \A q \in Client : sync_queue'[q] \in Seq(FromClient(q))
    BY <2>3, <2>4, pushKnown
  <2>6. \A q \in Client : \A r \in running'[q] : IdOf(r.mid, r.by)
    BY <2>2, <2>3 DEF CallsTypeOK, CallerKnown
  <2>. QED  BY <1>1, <2>1, <2>5, <2>6, KnownUnchanged DEF RecvCall, Take, CallerKnownAfter
<1>2. ASSUME RecvCallResponse(p) PROVE CallerKnownAfter
  BY <1>2, TakeKnown, KnownUnchanged DEF RecvCallResponse, Take, CallerKnownAfter
<1>3. ASSUME RecvCallResult(p) PROVE CallerKnownAfter
  BY <1>3, TakeKnown, KnownUnchanged DEF RecvCallResult, Take, CallerKnownAfter
<1>. QED  BY <1>1, <1>2, <1>3 DEF App

LEMMA FinishCallKnown ==
    ASSUME CallsTypeOK, CallerKnown, NEW p \in Client, FinishCall(p)
    PROVE  CallerKnownAfter
<1>1. PICK m \in running[p], error \in BOOLEAN :
         /\ push(p, CallResultMsg(m.mid, m.cid, m.by, error))
         /\ running' = [running EXCEPT ![p] = @ \ {m}]
  BY DEF FinishCall
<1>2. m \in Message /\ IdOf(m.mid, m.by)
  BY DEF CallsTypeOK, CallerKnown
<1>3. CallResultMsg(m.mid, m.cid, m.by, error) \in FromClient(p)
  BY <1>2 DEF CallResultMsg, Message, FromClient
<1>4. \A q \in Client : sync_queue'[q] \in Seq(FromClient(q))
  BY <1>1, <1>3, pushKnown
<1>5. \A q \in Client : \A r \in running'[q] : IdOf(r.mid, r.by)
  BY <1>1 DEF CallsTypeOK, CallerKnown
<1>. QED  BY <1>4, <1>5, KnownUnchanged DEF FinishCall, linkVars, CallerKnownAfter

LEMMA DisconnectKnown ==
    ASSUME CallsTypeOK, CallerKnown, NEW p \in Client, Disconnect(p)
    PROVE  CallerKnownAfter
<1> DEFINE c == conn_of[p]
           q == sync_queue[p]
<1>1. c \in Conn /\ owner[c] = p /\ q \in Seq(FromClient(p))
  BY DEF Disconnect, disconnect, CallsTypeOK, LinkTypeOK, CallerKnown
<1>2. PICK i, j \in 0..Len(q) :
         /\ wire' = [wire EXCEPT ![c] = SubSeq(q, 1, i)]
         /\ sync_queue' = [sync_queue EXCEPT ![p] = SubSeq(q, j + 1, Len(q))]
  BY DEF Disconnect
<1>3. SubSeq(q, 1, i) \in Seq(FromClient(p)) /\ SubSeq(q, j + 1, Len(q)) \in Seq(FromClient(p))
  BY <1>1, <1>2, SubSeqProperties, LenProperties
<1>4. \A d \in Conn : wire'[d] \in Seq(FromClient(owner[d]))
  BY <1>1, <1>2, <1>3 DEF CallsTypeOK, WireTypeOK, CallerKnown
<1>5. \A r \in Client : sync_queue'[r] \in Seq(FromClient(r))
  BY <1>2, <1>3 DEF CallsTypeOK, CallerKnown
<1>. QED  BY <1>4, <1>5, KnownUnchanged DEF Disconnect, disconnect, CallerKnownAfter

LEMMA ReadKnown ==
    ASSUME CallsTypeOK, CallerKnown, NEW c \in Conn, NEW kind, Read(c, kind)
    PROVE  /\ Head(Uplink(c)) \in FromClient(owner[c])
           /\ Head(Uplink(c)).kind = kind
           /\ \A p \in Client : sync_queue'[p] \in Seq(FromClient(p))
           /\ \A d \in Conn : wire'[d] \in Seq(FromClient(owner[d]))
<1> DEFINE from == FromClient(owner[c])
<1>1. owner[c] \in Client /\ Uplink(c) \in Seq(from) /\ Uplink(c) # <<>>
  BY ClientAssumption DEF CallerKnown, Uplink, Read
<1>2. Head(Uplink(c)) \in from /\ Tail(Uplink(c)) \in Seq(from)
  BY <1>1, HeadTailProperties
<1>3. CASE Held(c)
  BY <1>1, <1>2, <1>3 DEF CallsTypeOK, CallerKnown, Read, Uplink
<1>4. CASE ~Held(c)
  BY <1>1, <1>2, <1>4 DEF CallsTypeOK, WireTypeOK, CallerKnown, Read, Uplink
<1>. QED  BY <1>2, <1>3, <1>4 DEF Read

\* What is sent to one connection is for the process that opened it.
LEMMA SendToKnown ==
    ASSUME CallsTypeOK, CallerKnown, NEW d \in Conn, NEW m \in ToClient(owner[d]),
           SendTo(d, m)
    PROVE  \A p \in Client : recv_queue'[p] \in Seq(ToClient(p))
<1>1. \A p \in Client : conn_of[p] = d => owner[d] = p
  BY ClientAssumption DEF CallsTypeOK, LinkTypeOK
<1>. QED  BY <1>1, AppendProperties DEF CallerKnown, SendTo

LEMMA ForwardKnown ==
    ASSUME DistinctMemberNames, StoreInv, CallsTypeOK, CallerKnown,
           NEW m \in Message, m.kind # "call", IdOf(m.mid, m.by), Forward(m.mid, m)
    PROVE  \A p \in Client : recv_queue'[p] \in Seq(ToClient(p))
<1>1. CASE Found(m.mid)
  <2>1. m.by \in Client
    BY DEF Message
  <2>2. clients_by_id[m.mid] \in Conn /\ owner[clients_by_id[m.mid]] = m.by
    BY <1>1, <2>1, FoundIsOwner
  <2>3. m \in ToClient(m.by)
    BY DEF ToClient
  <2>. QED  BY <1>1, <2>2, <2>3, SendToKnown DEF Forward
<1>2. CASE ~Found(m.mid)
  BY <1>2, KnownUnchanged DEF Forward
<1>. QED  BY <1>1, <1>2

LEMMA SetPendingKnown ==
    ASSUME CallsTypeOK, CallerKnown, NEW d \in Conn, NEW m \in Message, NEW state,
           IdOf(m.mid, m.by), SetPending(d, m, state)
    PROVE  \A c \in Conn : \A key \in DOMAIN pending_calls'[c] :
              IdOf(key[1], pending_calls'[c][key].by)
BY DEF SetPending, Overwrite, CallsTypeOK, PendingTypeOK, CallerKnown

LEMMA ServeKnown ==
    ASSUME DistinctMemberNames, StoreInv, CallsTypeOK, CallerKnown,
           NEW c \in Conn, Serve(c)
    PROVE  CallerKnownAfter
<1> DEFINE m == Head(Uplink(c))
<1>0. UNCHANGED <<storeVars, conn_of, promise, running>>
  BY DEF Serve, ServeCall, ServeCallResponse, ServeCallResult
<1>1. \A id \in DOMAIN clients_by_id : clients_by_id[id] \in Conn
  BY DEF StoreInv, StoreTypeOK
<1>2. ASSUME ServeCall(c) PROVE CallerKnownAfter
  <2> DEFINE call == [m EXCEPT !.mid = member_id[c]]
             refusal == CallResponseMsg(call.mid, call.cid, call.by, FALSE)
  <2>1. /\ m \in FromClient(owner[c]) /\ m.kind = "call"
        /\ \A p \in Client : sync_queue'[p] \in Seq(FromClient(p))
        /\ \A d \in Conn : wire'[d] \in Seq(FromClient(owner[d]))
    BY <1>2, ReadKnown DEF ServeCall
  <2>2. m \in Message /\ m.by = owner[c]
    BY <2>1 DEF FromClient
  <2>3. /\ call \in Message /\ call.kind = "call" /\ call.by = owner[c]
        /\ call.mid = member_id[c]
    BY <2>1, <2>2 DEF Message, StoreInv, StoreTypeOK
  <2>4. IdOf(call.mid, call.by)
    BY <1>2, <2>3 DEF ServeCall, Read, IdOf
  <2>5. refusal \in ToClient(owner[c])
    BY <2>3 DEF CallResponseMsg, Message, ToClient
  <2>6. \A p \in Client : call \in ToClient(p)
    BY <2>3, <2>4 DEF ToClient
  <2>7. CASE FoundConnected(call.target)
    <3> DEFINE d == clients_by_id[call.target]
    <3>1. d \in Conn /\ SendTo(d, call) /\ SetPending(d, call, 2)
      BY <1>1, <1>2, <2>7 DEF ServeCall, FoundConnected, Found
    <3>2. call \in Message /\ IdOf(call.mid, call.by) /\ call \in ToClient(owner[d])
      BY <2>3, <2>4, <2>6, <3>1, ClientAssumption
    <3> HIDE DEF d, call
    <3>3. \A p \in Client : recv_queue'[p] \in Seq(ToClient(p))
      BY <3>1, <3>2, SendToKnown
    <3>4. \A e \in Conn : \A key \in DOMAIN pending_calls'[e] :
             IdOf(key[1], pending_calls'[e][key].by)
      BY <3>1, <3>2, SetPendingKnown
    <3>. QED  BY <1>0, <2>1, <3>3, <3>4, KnownUnchanged DEF CallerKnownAfter
  <2>8. CASE ~FoundConnected(call.target)
    <3>1. SendTo(c, refusal) /\ UNCHANGED pending_calls
      BY <1>2, <2>8 DEF ServeCall
    <3>2. \A p \in Client : recv_queue'[p] \in Seq(ToClient(p))
      BY <2>5, <3>1, SendToKnown
    <3>. QED  BY <1>0, <2>1, <3>1, <3>2, KnownUnchanged DEF CallerKnownAfter
  <2>. QED  BY <2>7, <2>8
<1>3. ASSUME NEW kind \in {"call_response", "call_result"}, NEW state \in 0..2,
             Read(c, kind), SetPending(c, m, state), Forward(m.mid, m)
      PROVE  CallerKnownAfter
  <2>1. /\ m \in FromClient(owner[c]) /\ m.kind = kind
        /\ \A p \in Client : sync_queue'[p] \in Seq(FromClient(p))
        /\ \A d \in Conn : wire'[d] \in Seq(FromClient(owner[d]))
    BY <1>3, ReadKnown
  <2>2. m \in Message /\ m.kind # "call" /\ IdOf(m.mid, m.by)
    BY <2>1 DEF FromClient
  <2>3. \A p \in Client : recv_queue'[p] \in Seq(ToClient(p))
    BY <1>3, <2>2, ForwardKnown
  <2>4. \A e \in Conn : \A key \in DOMAIN pending_calls'[e] :
           IdOf(key[1], pending_calls'[e][key].by)
    BY <1>3, <2>2, SetPendingKnown
  <2>. QED  BY <1>0, <2>1, <2>3, <2>4, KnownUnchanged DEF CallerKnownAfter
<1>. QED  BY <1>2, <1>3 DEF Serve, ServeCallResponse, ServeCallResult

LEMMA CloseKnown ==
    ASSUME DistinctMemberNames, StoreInv, CallsTypeOK, CallerKnown,
           NEW c \in Conn, Close(c)
    PROVE  CallerKnownAfter
<1>1. ASSUME NEW d \in Conn PROVE Aborts(c, d) \in Seq(ToClient(owner[d]))
  <2> DEFINE sent == {key \in DOMAIN pending_calls[c] :
                        /\ pending_calls[c][key].state # 0
                        /\ FoundConnected(key[1])
                        /\ clients_by_id[key[1]] = d
                        /\ d # c}
             msgs == {AbortMsg(c, key) : key \in sent}
  <2>1. Aborts(c, d) \in Seq(msgs)
    BY AbortsType DEF CallsTypeOK
  <2>2. ASSUME NEW key \in sent PROVE AbortMsg(c, key) \in ToClient(owner[d])
    <3>1. AbortMsg(c, key) \in Message
      BY AbortMsgType DEF CallsTypeOK
    <3>2. pending_calls[c][key].by \in Client /\ IdOf(key[1], pending_calls[c][key].by)
      BY DEF CallsTypeOK, PendingTypeOK, CallerKnown
    <3>3. owner[d] = pending_calls[c][key].by
      BY <3>2, FoundIsOwner DEF FoundConnected
    <3>4. AbortMsg(c, key).kind # "call" /\ AbortMsg(c, key).by = pending_calls[c][key].by
      BY DEF AbortMsg, CallResponseMsg, CallResultMsg
    <3>. QED  BY <3>1, <3>3, <3>4 DEF ToClient
  <2>. QED  BY <2>1, <2>2, SeqMonotonic
<1>2. \A p \in Client : recv_queue'[p] \in Seq(ToClient(p))
  <2>1. ASSUME NEW p \in Client, conn_of[p] # NoConn
        PROVE  recv_queue[p] \o Aborts(c, conn_of[p]) \in Seq(ToClient(p))
    <3>1. conn_of[p] \in Conn /\ owner[conn_of[p]] = p
      BY <2>1 DEF CallsTypeOK, LinkTypeOK
    <3>2. Aborts(c, conn_of[p]) \in Seq(ToClient(p))
      BY <1>1, <3>1
    <3>3. recv_queue[p] \in Seq(ToClient(p))
      BY DEF CallerKnown
    <3>. QED  BY <3>2, <3>3, ConcatProperties
  <2>2. ASSUME NEW p \in Client
        PROVE  recv_queue'[p] = IF conn_of[p] = NoConn THEN recv_queue[p]
                                ELSE recv_queue[p] \o Aborts(c, conn_of[p])
    <3>1. SendEach([d \in Conn |-> Aborts(c, d)])
      BY DEF Close
    <3>2. conn_of[p] # NoConn => conn_of[p] \in Conn
      BY DEF CallsTypeOK, LinkTypeOK
    <3>. QED  BY <3>1, <3>2 DEF SendEach
  <2>. QED  BY <2>1, <2>2 DEF CallerKnown
<1>3. \A d \in Conn : wire'[d] \in Seq(FromClient(owner[d]))
  BY EmptySeq DEF Close, CallsTypeOK, WireTypeOK, CallerKnown
<1>4. \A d \in Conn : sync_init'[d] => name'[d] = OwnName(d)
  BY RegistryKnown DEF Close, onClose
<1>. QED  BY <1>2, <1>3, <1>4, KnownUnchanged DEF Close, CallerKnownAfter

LEMMA CallerKnownStep ==
    ASSUME DistinctMemberNames, StoreInv, CallsTypeOK, CallerKnown, [CallsNext]_callsVars
    PROVE  CallerKnown'
<1>1. CallerKnownAfter
  <2>1. CASE UNCHANGED callsVars
    BY <2>1, KnownUnchanged DEF callsVars, linkVars, callVars, CallerKnownAfter
  <2>2. CASE CallsNext
    BY <2>2, ConnectKnown, SyncInitKnown, AppKnown, runAsyncKnown, FinishCallKnown,
       DisconnectKnown, ServeKnown, CloseKnown DEF CallsNext
  <2>. QED  BY <2>1, <2>2
<1>. QED  BY <1>1, CallsStoreStep, CallerKnownPrime

\* Callers are told apart by their member id and caller_id alone; answers still
\* only reach the process that made the call, provided that member names are
\* distinct (AnswerReachesItsCaller).
THEOREM AnswersReachCaller ==
    ASSUME DistinctMemberNames
    PROVE  CallsSpec => []AnswerReachesItsCaller
<1>1. CallsInit => CallerKnown
  BY EmptySeq DEF CallsInit, LinkInit, StoreInit, CallerKnown
<1>2. CallsSpec => []StoreInv
  BY CallsImplementStore, RegistryConsistent, PTL
<1>3. CallsSpec => []CallerKnown
  <2>1. ASSUME StoreInv, CallsTypeOK, CallerKnown, [CallsNext]_callsVars
        PROVE  CallerKnown'
    BY <2>1, CallerKnownStep
  <2>. QED  BY <1>1, <1>2, <2>1, CallsTypeCorrect, PTL DEF CallsSpec
<1>4. CallerKnown => AnswerReachesItsCaller
  <2>1. ASSUME CallerKnown, NEW p \in Client, NEW k \in 1..Len(recv_queue[p])
        PROVE  recv_queue[p][k] \in ToClient(p)
    BY <2>1, ElementOfSeq DEF CallerKnown
  <2>. QED  BY <2>1 DEF ToClient, AnswerReachesItsCaller
<1>. QED  BY <1>3, <1>4, PTL

----------------------------------------------------------------------------
(* Promises settle once.                                                   *)

\* A promise that has finished without having been reached is not in the store
\* any more, so a late call_response does not find it.
FinishedIsReached ==
    \A p \in Client : \A k \in 1..Len(promise[p]) :
        promise[p][k].stored /\ promise[p][k].finished => promise[p][k].reached

Settled(old, new) ==
    /\ old.reached => new.reached /\ new.found = old.found
    /\ old.finished => new.finished /\ new.is_error = old.is_error

\* A step keeps the promises it leaves alone, and changes the others forward.
MovesForward(p, k) ==
    /\ Settled(promise[p][k], promise'[p][k])
    /\ promise'[p][k].stored /\ promise'[p][k].finished => promise'[p][k].reached

LEMMA runAsyncSettles ==
    ASSUME CallsTypeOK, FinishedIsReached, NEW q \in Client, NEW n \in Name, runAsync(q, n)
    PROVE  /\ FinishedIsReached'
           /\ \A p \in Client : \A k \in 1..Len(promise[p]) : MovesForward(p, k)
<1> DEFINE new == IF conn_of[q] # NoConn THEN addResult ELSE reach(addResult, FALSE)
<1>1. promise' = [promise EXCEPT ![q] = Append(@, new)]
  BY DEF runAsync
<1>2. ASSUME NEW p \in Client
      PROVE  /\ p # q => promise'[p] = promise[p]
             /\ p = q => promise'[p] = Append(promise[p], new)
             /\ promise[p] \in Seq(PromiseData)
  BY <1>1 DEF CallsTypeOK
<1>3. ASSUME NEW p \in Client
      PROVE  /\ \A k \in 1..Len(promise[p]) : promise'[p][k] = promise[p][k]
             /\ Len(promise'[p]) # Len(promise[p]) =>
                   /\ Len(promise'[p]) = Len(promise[p]) + 1
                   /\ promise'[p][Len(promise'[p])] = new
             /\ Len(promise[p]) \in Nat
  <2>1. new \in PromiseData
    BY DEF PromiseData, addResult, reach
  <2> HIDE DEF new
  <2>2. CASE p = q
    <3>1. promise[p] \in Seq(PromiseData) /\ promise'[p] = Append(promise[p], new)
      BY <1>2, <2>2
    <3>2. /\ Len(promise'[p]) = Len(promise[p]) + 1
          /\ promise'[p][Len(promise[p]) + 1] = new
          /\ \A k \in 1..Len(promise[p]) : promise'[p][k] = promise[p][k]
      BY <2>1, <3>1, AppendProperties
    <3>. QED  BY <3>1, <3>2, LenProperties
  <2>3. CASE p # q
    BY <1>2, <2>3, LenProperties
  <2>. QED  BY <2>2, <2>3
<1>4. FinishedIsReached'
  <2>1. ASSUME NEW p \in Client, NEW k \in 1..Len(promise[p])',
               promise'[p][k].stored, promise'[p][k].finished
        PROVE  promise'[p][k].reached
    <3> HIDE DEF new
    <3>1. CASE k \in 1..Len(promise[p])
      BY <1>3, <2>1, <3>1 DEF FinishedIsReached
    <3>2. CASE k \notin 1..Len(promise[p])
      <4>1. promise'[p][k] = new
        BY <1>3, <2>1, <3>2
      <4>. QED  BY <2>1, <4>1 DEF new, addResult, reach
    <3>. QED  BY <3>1, <3>2
  <2>. QED  BY <2>1 DEF FinishedIsReached
<1>5. ASSUME NEW p \in Client, NEW k \in 1..Len(promise[p]) PROVE MovesForward(p, k)
  BY <1>3, <1>5 DEF MovesForward, Settled, FinishedIsReached
<1>. QED  BY <1>4, <1>5

\* One promise is replaced by an e that has settled on what it had settled on.
LEMMA ReplaceSettles ==
    ASSUME CallsTypeOK, FinishedIsReached, NEW q \in Client,
           NEW i \in 1..Len(promise[q]), NEW e \in PromiseData,
           Settled(promise[q][i], e), e.stored /\ e.finished => e.reached,
           promise' = [promise EXCEPT ![q][i] = e]
    PROVE  /\ FinishedIsReached'
           /\ \A p \in Client : \A k \in 1..Len(promise[p]) : MovesForward(p, k)
<1>1. ASSUME NEW p \in Client
      PROVE  /\ Len(promise'[p]) = Len(promise[p])
             /\ \A k \in 1..Len(promise[p]) :
                   promise'[p][k] = IF p = q /\ k = i THEN e ELSE promise[p][k]
  BY ExceptSeq DEF CallsTypeOK
<1>. QED  BY <1>1 DEF FinishedIsReached, MovesForward, Settled

LEMMA UnchangedSettles ==
    ASSUME FinishedIsReached, promise' = promise
    PROVE  /\ FinishedIsReached'
           /\ \A p \in Client : \A k \in 1..Len(promise[p]) : MovesForward(p, k)
BY DEF FinishedIsReached, MovesForward, Settled

LEMMA AppSettles ==
    ASSUME CallsTypeOK, FinishedIsReached, NEW q \in Client, App(q)
    PROVE  /\ FinishedIsReached'
           /\ \A p \in Client : \A k \in 1..Len(promise[p]) : MovesForward(p, k)
<1> DEFINE m == Head(recv_queue[q])
           i == m.cid + 1
           old == promise[q][i]
<1>1. CASE RecvCall(q)
  BY <1>1, UnchangedSettles DEF RecvCall
<1>2. ASSUME m.cid \in Nat, Stored(q, m.cid)
      PROVE  i \in 1..Len(promise[q]) /\ old \in PromiseData
  <2>1. promise[q] \in Seq(PromiseData) /\ i \in 1..Len(promise[q])
    BY <1>2, LenProperties DEF CallsTypeOK, Stored
  <2>. QED  BY <2>1, ElementOfSeq
<1>3. CASE RecvCallResponse(q)
  <2>1. m.cid \in Nat /\ m.started \in BOOLEAN
    BY <1>3, TakeType DEF RecvCallResponse, Message
  <2>2. CASE Stored(q, m.cid) /\ ~old.reached
    <3> DEFINE e == Reached(old, m.started)
    <3>1. i \in 1..Len(promise[q]) /\ old \in PromiseData
      BY <1>2, <2>1, <2>2
    <3>2. ~old.finished
      BY <2>2, <3>1 DEF FinishedIsReached, Stored
    <3>3. e \in PromiseData /\ Settled(old, e) /\ (e.stored /\ e.finished => e.reached)
      BY <2>1, <2>2, <3>1, <3>2 DEF PromiseData, Settled, Reached, reach, removeResult
    <3>4. promise' = [promise EXCEPT ![q][i] = e]
      BY <1>3, <2>2 DEF RecvCallResponse
    <3> HIDE DEF e, i
    <3>. QED  BY <3>1, <3>3, <3>4, ReplaceSettles
  <2>3. CASE ~(Stored(q, m.cid) /\ ~old.reached)
    BY <1>3, <2>3, UnchangedSettles DEF RecvCallResponse
  <2>. QED  BY <2>2, <2>3
<1>4. CASE RecvCallResult(q)
  <2>1. m.cid \in Nat /\ m.is_error \in BOOLEAN
    BY <1>4, TakeType DEF RecvCallResult, Message
  <2>2. CASE Stored(q, m.cid) /\ ~old.finished
    <3> DEFINE e == removeResult(respond(old, m.is_error))
    <3>1. i \in 1..Len(promise[q]) /\ old \in PromiseData
      BY <1>2, <2>1, <2>2
    <3>3. e \in PromiseData /\ Settled(old, e) /\ (e.stored /\ e.finished => e.reached)
      BY <2>1, <2>2, <3>1 DEF PromiseData, Settled, respond, removeResult
    <3>4. promise' = [promise EXCEPT ![q][i] = e]
      BY <1>4, <2>2 DEF RecvCallResult
    <3> HIDE DEF e, i
    <3>. QED  BY <3>1, <3>3, <3>4, ReplaceSettles
  <2>3. CASE ~(Stored(q, m.cid) /\ ~old.finished)
    BY <1>4, <2>3, UnchangedSettles DEF RecvCallResult
  <2>. QED  BY <2>2, <2>3
<1>. QED  BY <1>1, <1>3, <1>4 DEF App

LEMMA CallsSettle ==
    ASSUME CallsTypeOK, FinishedIsReached, [CallsNext]_callsVars
    PROVE  /\ FinishedIsReached'
           /\ \A p \in Client : \A k \in 1..Len(promise[p]) : MovesForward(p, k)
<1>1. CASE UNCHANGED promise
  BY <1>1, UnchangedSettles
<1>2. CASE CallsNext /\ promise' # promise
  <2>1. ASSUME NEW c \in Conn, Serve(c) PROVE FALSE
    BY <1>2, <2>1 DEF Serve, ServeCall, ServeCallResponse, ServeCallResult
  <2>2. ASSUME NEW c \in Conn, SyncInit(c) \/ Close(c) PROVE FALSE
    BY <1>2, <2>2 DEF SyncInit, Close, callVars
  <2>3. ASSUME NEW p \in Client, NEW c \in Conn, Connect(p, c) PROVE FALSE
    BY <1>2, <2>3 DEF Connect, callVars
  <2>4. ASSUME NEW p \in Client, FinishCall(p) \/ Disconnect(p) PROVE FALSE
    BY <1>2, <2>4 DEF FinishCall, Disconnect
  <2>. QED  BY <1>2, <2>1, <2>2, <2>3, <2>4, runAsyncSettles, AppSettles DEF CallsNext
<1>. QED  BY <1>1, <1>2 DEF callsVars, callVars

\* Whatever answers arrive, late, repeated or generated by the server, a promise
\* keeps what it has settled on (PromiseSettles).
THEOREM PromisesSettle == CallsSpec => PromiseSettles
<1> DEFINE Keep == \A p \in Client : \A k \in 1..Len(promise[p]) :
                      LET old == promise[p][k]
                          new == promise'[p][k]
                      IN /\ old.reached => new.reached /\ new.found = old.found
                         /\ old.finished => new.finished /\ new.is_error = old.is_error
<1>1. CallsInit => FinishedIsReached
  BY DEF CallsInit, FinishedIsReached
<1>2. ASSUME CallsTypeOK, FinishedIsReached, [CallsNext]_callsVars
      PROVE  FinishedIsReached' /\ [Keep]_callsVars
  BY <1>2, CallsSettle DEF MovesForward, Settled
<1>. QED  BY <1>1, <1>2, CallsTypeCorrect, PTL DEF CallsSpec, PromiseSettles
=============================================================================
