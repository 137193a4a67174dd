---------------------------- MODULE PubSub_proofs ----------------------------
(***************************************************************************)
(* Proofs about the relay of data: whatever a client has requested, and    *)
(* whatever there is to request, it knows once everything is delivered.    *)
(*                                                                         *)
(* The invariant says what a client will know when it has handled the      *)
(* batches that wait for it; each step of the server appends a batch that  *)
(* keeps this right (ToldClient), each Recv takes one off (RecvData), and  *)
(* a client that is not told of a change is one for which nothing changes  *)
(* (UntouchedClient).                                                      *)
(***************************************************************************)
EXTENDS PubSub, ServerStore_proofs, SequenceTheorems, FiniteSetTheorems

LEMMA PubSubStoreStep == [PubSubNext]_pubSubVars => [StoreNext]_storeVars
<1> SUFFICES ASSUME [PubSubNext]_pubSubVars PROVE [StoreNext]_storeVars
  OBVIOUS
<1>1. CASE UNCHANGED pubSubVars
  BY <1>1 DEF pubSubVars
<1>2. ASSUME NEW p \in Client, NEW c \in Conn, Connect(p, c) PROVE StoreNext
  BY <1>2 DEF Connect, connect, StoreNext
<1>3. ASSUME NEW p \in Client, Disconnect(p) PROVE UNCHANGED storeVars
  BY <1>3 DEF Disconnect, disconnect
<1>4. ASSUME NEW p \in Client, NEW F \in Published[p], sync(p, F)
      PROVE  UNCHANGED storeVars
  BY <1>4 DEF sync
<1>5. ASSUME NEW p \in Client, NEW k \in Wanted[p], request(p, k) \/ free(p, k)
      PROVE  UNCHANGED storeVars
  BY <1>5 DEF request, free
<1>6. ASSUME NEW p \in Client, Recv(p) PROVE UNCHANGED storeVars
  BY <1>6 DEF Recv
<1>7. ASSUME NEW c \in Conn, SyncInit(c) PROVE StoreNext
  BY <1>7, ClientAssumption DEF SyncInit, syncInit, OwnName, StoreNext
<1>8. ASSUME NEW c \in Conn, ServeSync(c) \/ ServeReq(c) PROVE UNCHANGED storeVars
  BY <1>8 DEF ServeSync, ServeReq
<1>9. ASSUME NEW c \in Conn, Close(c) PROVE StoreNext
  BY <1>9 DEF Close, onClose, StoreNext
<1>. QED
  BY <1>1, <1>2, <1>3, <1>4, <1>5, <1>6, <1>7, <1>8, <1>9 DEF PubSubNext

\* The server that stores and relays data implements the registry (StoreSpec): the
\* entries and values it announces are those of members registered as proved there.
THEOREM PubSubImplementsStore == PubSubSpec => StoreSpec
<1>1. PubSubInit => StoreInit
  BY DEF PubSubInit, LinkInit
<1>. QED  BY <1>1, PubSubStoreStep, PTL DEF PubSubSpec, StoreSpec

----------------------------------------------------------------------------
(* Sequences of messages.                                                  *)

LEMMA SequenceSet ==
    ASSUME NEW q, IsSequence(q)
    PROVE  q \in Seq({q[i] : i \in DOMAIN q}) /\ DOMAIN q = 1 .. Len(q) /\ Len(q) \in Nat
<1> DEFINE S == {q[i] : i \in DOMAIN q}
           n == Len(q)
<1>1. n \in Nat /\ q = [i \in 1 .. n |-> q[i]]
  BY DEF IsSequence
<1> HIDE DEF n
<1>2. DOMAIN q = 1 .. n
  BY <1>1
<1>3. \A i \in 1 .. n : q[i] \in S
  BY <1>2
<1> HIDE DEF S
<1>4. q \in [1 .. n -> S]
  BY <1>1, <1>3
<1>. QED  BY <1>1, <1>2, <1>4 DEF S, n

LEMMA IsSequenceOf ==
    ASSUME NEW S, NEW q \in Seq(S)
    PROVE  IsSequence(q) /\ DOMAIN q = 1 .. Len(q)
BY DEF IsSequence

LEMMA AppendSequence ==
    ASSUME NEW q, IsSequence(q), NEW m
    PROVE  /\ IsSequence(Append(q, m)) /\ q \o <<m>> = Append(q, m) /\ q \o <<>> = q
           /\ Len(Append(q, m)) = Len(q) + 1 /\ DOMAIN Append(q, m) = 1 .. Len(q) + 1
           /\ Append(q, m)[Len(q) + 1] = m /\ \A i \in 1 .. Len(q) : Append(q, m)[i] = q[i]
<1> DEFINE S == {q[i] : i \in DOMAIN q} \cup {m}
<1>1. q \in Seq({q[i] : i \in DOMAIN q})
  BY SequenceSet
<1>2. q \in Seq(S)
  BY <1>1
<1>3. m \in S
  OBVIOUS
<1> HIDE DEF S
<1>4. Append(q, m) \in Seq(S)
  BY <1>2, <1>3
<1>5. IsSequence(Append(q, m))
  BY <1>4, IsSequenceOf
<1>6. /\ Len(Append(q, m)) = Len(q) + 1 /\ DOMAIN Append(q, m) = 1 .. Len(q) + 1
      /\ Append(q, m)[Len(q) + 1] = m /\ \A i \in 1 .. Len(q) : Append(q, m)[i] = q[i]
  BY <1>2, <1>3
<1>7. q \o <<m>> = Append(q, m) /\ q \o <<>> = q
  BY <1>2, <1>3
<1>. QED  BY <1>5, <1>6, <1>7

LEMMA TailSequence ==
    ASSUME NEW q, IsSequence(q), q # <<>>
    PROVE  /\ IsSequence(Tail(q)) /\ Len(q) \in Nat \ {0} /\ Head(q) = q[1] /\ 1 \in DOMAIN q
           /\ DOMAIN q = 1 .. Len(q) /\ DOMAIN Tail(q) = 1 .. Len(q) - 1
           /\ \A i \in 1 .. Len(q) - 1 : Tail(q)[i] = q[i + 1]
<1> DEFINE S == {q[i] : i \in DOMAIN q}
<1>1. q \in Seq(S)
  BY SequenceSet
<1> HIDE DEF S
<1>2. Tail(q) \in Seq(S)
  BY <1>1
<1>3. IsSequence(Tail(q))
  BY <1>2, IsSequenceOf
<1>. QED  BY <1>1, <1>3

LEMMA PrefixSequence ==
    ASSUME NEW q, IsSequence(q), NEW k \in 0 .. Len(q)
    PROVE  /\ IsSequence(SubSeq(q, 1, k)) /\ DOMAIN SubSeq(q, 1, k) = 1 .. k /\ DOMAIN q = 1 .. Len(q)
           /\ \A i \in 1 .. k : SubSeq(q, 1, k)[i] = q[i] /\ i \in 1 .. Len(q)
<1> DEFINE S == {q[i] : i \in DOMAIN q}
<1>1. q \in Seq(S) /\ Len(q) \in Nat
  BY SequenceSet
<1> HIDE DEF S
<1>2. SubSeq(q, 1, k) \in Seq(S)
  BY <1>1
<1>3. IsSequence(SubSeq(q, 1, k))
  BY <1>2, IsSequenceOf
<1>. QED  BY <1>1, <1>3

----------------------------------------------------------------------------
(* A queue that grows by a batch, and one whose first batch is handled.    *)

\* q2 is q and b; or just q, if nothing is in b.
Grows(q, q2, b) ==
    /\ IsSequence(q2) /\ Len(q) \in Nat /\ DOMAIN q = 1 .. Len(q)
    /\ \A i \in DOMAIN q : i \in DOMAIN q2 /\ q2[i] = q[i]
    /\ \A i \in DOMAIN q2 : i \in DOMAIN q \/ (i = Len(q) + 1 /\ q2[i] = b)
    /\ \/ Len(q) + 1 \in DOMAIN q2
       \/ q2 = q /\ b.init = {} /\ b.entry = {} /\ b.res = {}

LEMMA QueueGrows ==
    ASSUME NEW q, IsSequence(q), NEW b
    PROVE  Grows(q, q \o <<b>>, b) /\ Grows(q, q \o OneBatch(b), b)
<1>1. IsSequence(q \o <<b>>) /\ IsSequence(q \o <<>>) /\ q \o <<>> = q
  BY AppendSequence
<1>2. /\ Len(q) \in Nat /\ DOMAIN q = 1 .. Len(q) /\ DOMAIN (q \o <<b>>) = 1 .. Len(q) + 1
      /\ (q \o <<b>>)[Len(q) + 1] = b /\ \A i \in 1 .. Len(q) : (q \o <<b>>)[i] = q[i]
  BY AppendSequence, SequenceSet
<1>3. Grows(q, q \o <<b>>, b)
  <2> DEFINE q2 == q \o <<b>>
             n == Len(q)
  <2>1. IsSequence(q2) /\ n \in Nat /\ DOMAIN q = 1 .. n /\ DOMAIN q2 = 1 .. n + 1 /\ q2[n + 1] = b
        /\ \A i \in 1 .. n : q2[i] = q[i]
    BY <1>1, <1>2
  <2> HIDE DEF q2, n
  <2>2. /\ \A i \in DOMAIN q : i \in DOMAIN q2 /\ q2[i] = q[i]
        /\ \A i \in DOMAIN q2 : i \in DOMAIN q \/ (i = n + 1 /\ q2[i] = b)
        /\ n + 1 \in DOMAIN q2
    BY <2>1
  <2>. QED  BY <2>1, <2>2 DEF Grows, q2, n
<1>4. b = EmptyBatch => b.init = {} /\ b.entry = {} /\ b.res = {}
  BY DEF EmptyBatch, Batch
<1>5. b = EmptyBatch => Grows(q, q \o <<>>, b)
  BY <1>1, <1>2, <1>4 DEF Grows
<1>. QED  BY <1>3, <1>5 DEF OneBatch

LEMMA KeptGrows ==
    ASSUME NEW q, NEW q2, NEW b, Grows(q, q2, b), NEW n
    PROVE  /\ \A j \in {0} \cup DOMAIN q : Kept(q2, n, j) <=> Kept(q, n, j) /\ n \notin b.init
           /\ Kept(q2, n, Len(q) + 1)
<1>1. ASSUME NEW j \in {0} \cup DOMAIN q PROVE Kept(q2, n, j) <=> Kept(q, n, j) /\ n \notin b.init
  <2>1. CASE Len(q) + 1 \in DOMAIN q2
    <3>1. q2[Len(q) + 1] = b /\ Len(q) + 1 > j
      BY <2>1 DEF Grows
    <3>. QED  BY <2>1, <3>1 DEF Grows, Kept
  <2>2. CASE q2 = q /\ b.init = {}
    BY <2>2
  <2>. QED  BY <2>1, <2>2 DEF Grows
<1>2. Kept(q2, n, Len(q) + 1)
  BY DEF Kept, Grows
<1>. QED  BY <1>1, <1>2

LEMMA WillListGrows ==
    ASSUME NEW q, NEW q2, NEW b, Grows(q, q2, b), NEW E, NEW e
    PROVE  WillList(q2, E, e) <=> e \in b.entry \/ (WillList(q, E, e) /\ e[1] \notin b.init)
<1>1. ASSUME WillList(q2, E, e), e \notin b.entry PROVE WillList(q, E, e) /\ e[1] \notin b.init
  <2>1. CASE e \in E /\ Kept(q2, e[1], 0)
    BY <2>1, KeptGrows DEF WillList
  <2>2. CASE \E j \in DOMAIN q2 : e \in q2[j].entry /\ Kept(q2, e[1], j)
    <3>1. PICK j \in DOMAIN q2 : e \in q2[j].entry /\ Kept(q2, e[1], j)
      BY <2>2
    <3>2. j \in DOMAIN q /\ q2[j] = q[j]
      BY <1>1, <3>1 DEF Grows
    <3>. QED  BY <3>1, <3>2, KeptGrows DEF WillList
  <2>. QED  BY <1>1, <2>1, <2>2 DEF WillList
<1>2. ASSUME WillList(q, E, e), e[1] \notin b.init PROVE WillList(q2, E, e)
  <2>1. CASE e \in E /\ Kept(q, e[1], 0)
    BY <1>2, <2>1, KeptGrows DEF WillList
  <2>2. CASE \E j \in DOMAIN q : e \in q[j].entry /\ Kept(q, e[1], j)
    <3>1. PICK j \in DOMAIN q : e \in q[j].entry /\ Kept(q, e[1], j)
      BY <2>2
    <3>2. j \in DOMAIN q2 /\ q2[j] = q[j]
      BY <3>1 DEF Grows
    <3>. QED  BY <1>2, <3>1, <3>2, KeptGrows DEF WillList
  <2>. QED  BY <1>2, <2>1, <2>2 DEF WillList
<1>3. ASSUME e \in b.entry PROVE WillList(q2, E, e)
  <2>1. Len(q) + 1 \in DOMAIN q2 /\ Len(q) + 1 \notin DOMAIN q
    BY <1>3 DEF Grows
  <2>2. q2[Len(q) + 1] = b
    BY <2>1 DEF Grows
  <2>. QED  BY <1>3, <2>1, <2>2, KeptGrows DEF WillList
<1>. QED  BY <1>1, <1>2, <1>3

LEMMA WillHaveGrows ==
    ASSUME NEW q, NEW q2, NEW b, Grows(q, q2, b), NEW G, NEW D, NEW k, WillHave(q2, G, D, k)
    PROVE  (\E r \in b.res : About(G, r, k)) \/ (WillHave(q, G, D, k) /\ k[1] \notin b.init)
<1>1. CASE k \in D /\ Kept(q2, k[1], 0)
  BY <1>1, KeptGrows DEF WillHave
<1>2. CASE \E j \in DOMAIN q2 : (\E r \in q2[j].res : About(G, r, k)) /\ Kept(q2, k[1], j)
  <2>1. PICK j \in DOMAIN q2 : (\E r \in q2[j].res : About(G, r, k)) /\ Kept(q2, k[1], j)
    BY <1>2
  <2>2. (j \in DOMAIN q /\ q2[j] = q[j]) \/ q2[j] = b
    BY <2>1 DEF Grows
  <2>. QED  BY <2>1, <2>2, KeptGrows DEF WillHave
<1>. QED  BY <1>1, <1>2 DEF WillHave

LEMMA WillReadGrows ==
    ASSUME NEW q, NEW q2, NEW b, Grows(q, q2, b), NEW G, NEW recv, NEW k, NEW id, NEW v,
           \A r \in b.res : About(G, r, k) => r.val = v,
           \/ WillRead(q, G, recv, k, id, v) /\ k[1] \notin b.init
           \/ \E r \in b.res : r.id = id /\ r.sub = <<>> /\ r.val = v
    PROVE  WillRead(q2, G, recv, k, id, v)
<1>1. ASSUME NEW r \in b.res, r.id = id, r.sub = <<>>, r.val = v PROVE WillRead(q2, G, recv, k, id, v)
  <2> DEFINE j == Len(q) + 1
  <2>1. j \in DOMAIN q2 /\ j \notin DOMAIN q /\ j # 0
    BY <1>1 DEF Grows
  <2>2. q2[j] = b /\ \A i \in DOMAIN q2 : i >= j => i = j
    BY <2>1 DEF Grows
  <2>3. Kept(q2, k[1], j)
    BY KeptGrows
  <2> HIDE DEF j
  <2>. QED  BY <1>1, <2>1, <2>2, <2>3 DEF WillRead
<1>2. ASSUME WillRead(q, G, recv, k, id, v), k[1] \notin b.init PROVE WillRead(q2, G, recv, k, id, v)
  <2>1. PICK j \in {0} \cup DOMAIN q :
            /\ IF j = 0 THEN k \in DOMAIN recv /\ recv[k] = v
               ELSE \E r \in q[j].res : r.id = id /\ r.sub = <<>> /\ r.val = v
            /\ Kept(q, k[1], j)
            /\ \A i \in DOMAIN q : i >= j => \A r \in q[i].res : About(G, r, k) => r.val = v
    BY <1>2 DEF WillRead
  <2>2. j \in {0} \cup DOMAIN q2 /\ (j # 0 => q2[j] = q[j])
    BY <2>1 DEF Grows
  <2>3. Kept(q2, k[1], j)
    BY <1>2, <2>1, KeptGrows
  <2>4. \A i \in DOMAIN q2 : i >= j => \A r \in q2[i].res : About(G, r, k) => r.val = v
    BY <2>1 DEF Grows
  <2>. QED  BY <2>1, <2>2, <2>3, <2>4 DEF WillRead
<1>. QED  BY <1>1, <1>2

LEMMA KeptTail ==
    ASSUME NEW q, IsSequence(q), q # <<>>, NEW n
    PROVE  /\ Kept(q, n, 0) <=> Kept(Tail(q), n, 0) /\ n \notin q[1].init
           /\ \A j \in DOMAIN Tail(q) : Kept(q, n, j + 1) <=> Kept(Tail(q), n, j)
           /\ Kept(q, n, 1) <=> Kept(Tail(q), n, 0)
<1> DEFINE t == Tail(q)
           m == Len(q)
<1>1. /\ m \in Nat \ {0} /\ DOMAIN q = 1 .. m /\ DOMAIN t = 1 .. m - 1
      /\ \A i \in 1 .. m - 1 : t[i] = q[i + 1]
  BY TailSequence
<1> HIDE DEF t, m
<1>2. \A i \in DOMAIN t : i + 1 \in DOMAIN q /\ t[i].init = q[i + 1].init /\ i > 0 /\ i \in Nat
  BY <1>1
<1>3. \A i \in DOMAIN q : i \in Nat /\ (i = 1 \/ (i - 1 \in DOMAIN t /\ q[i].init = t[i - 1].init /\ i > 1))
  BY <1>1
<1>4. 1 \in DOMAIN q
  BY <1>1
<1>5. Kept(q, n, 0) <=> Kept(t, n, 0) /\ n \notin q[1].init
  BY <1>2, <1>3, <1>4 DEF Kept
<1>6. \A j \in Nat : Kept(q, n, j + 1) <=> Kept(t, n, j)
  <2> SUFFICES ASSUME NEW j \in Nat PROVE Kept(q, n, j + 1) <=> Kept(t, n, j)
    OBVIOUS
  <2>1. ASSUME Kept(q, n, j + 1), NEW i \in DOMAIN t, i > j PROVE n \notin t[i].init
    BY <1>2, <2>1 DEF Kept
  <2>2. ASSUME Kept(t, n, j), NEW i \in DOMAIN q, i > j + 1 PROVE n \notin q[i].init
    BY <1>3, <2>2 DEF Kept
  <2>. QED  BY <2>1, <2>2 DEF Kept
<1>7. \A j \in DOMAIN t : Kept(q, n, j + 1) <=> Kept(t, n, j)
  BY <1>2, <1>6
<1>8. Kept(q, n, 0 + 1) <=> Kept(t, n, 0)
  BY <1>6
<1>9. 0 + 1 = 1
  OBVIOUS
<1>10. Kept(q, n, 1) <=> Kept(t, n, 0)
  BY <1>8, <1>9
<1>. QED  BY <1>5, <1>7, <1>10 DEF t

LEMMA WillListTail ==
    ASSUME NEW q, IsSequence(q), q # <<>>, NEW E, NEW e, NEW E2,
           e \in E2 <=> (e \in E /\ e[1] \notin q[1].init) \/ e \in q[1].entry
    PROVE  WillList(Tail(q), E2, e) <=> WillList(q, E, e)
<1> DEFINE t == Tail(q)
           m == Len(q)
<1>1. /\ m \in Nat \ {0} /\ DOMAIN q = 1 .. m /\ DOMAIN t = 1 .. m - 1
      /\ \A i \in 1 .. m - 1 : t[i] = q[i + 1]
  BY TailSequence
<1>2. /\ Kept(q, e[1], 0) <=> Kept(t, e[1], 0) /\ e[1] \notin q[1].init
      /\ \A j \in DOMAIN t : Kept(q, e[1], j + 1) <=> Kept(t, e[1], j)
      /\ Kept(q, e[1], 1) <=> Kept(t, e[1], 0)
  BY KeptTail
<1> HIDE DEF t, m
<1>3. \A i \in DOMAIN t : i + 1 \in DOMAIN q /\ t[i] = q[i + 1]
  BY <1>1
<1>4. \A i \in DOMAIN q : i = 1 \/ (i - 1 \in DOMAIN t /\ q[i] = t[i - 1] /\ i - 1 + 1 = i)
  BY <1>1
<1>5. ASSUME WillList(t, E2, e) PROVE WillList(q, E, e)
  <2>1. CASE e \in E2 /\ Kept(t, e[1], 0)
    BY <1>1, <1>2, <2>1 DEF WillList
  <2>2. CASE \E j \in DOMAIN t : e \in t[j].entry /\ Kept(t, e[1], j)
    <3>1. PICK j \in DOMAIN t : e \in t[j].entry /\ Kept(t, e[1], j)
      BY <2>2
    <3>2. j + 1 \in DOMAIN q /\ e \in q[j + 1].entry /\ Kept(q, e[1], j + 1)
      BY <1>2, <1>3, <3>1
    <3>. QED  BY <3>2 DEF WillList
  <2>. QED  BY <1>5, <2>1, <2>2 DEF WillList
<1>6. ASSUME WillList(q, E, e) PROVE WillList(t, E2, e)
  <2>1. CASE e \in E /\ Kept(q, e[1], 0)
    BY <1>2, <2>1 DEF WillList
  <2>2. CASE \E j \in DOMAIN q : e \in q[j].entry /\ Kept(q, e[1], j)
    <3>1. PICK j \in DOMAIN q : e \in q[j].entry /\ Kept(q, e[1], j)
      BY <2>2
    <3>2. CASE j = 1
      BY <1>2, <3>1, <3>2 DEF WillList
    <3>3. CASE j # 1
      <4>1. j - 1 \in DOMAIN t /\ e \in t[j - 1].entry /\ Kept(t, e[1], j - 1)
        BY <1>2, <1>4, <3>1, <3>3
      <4>. QED  BY <4>1 DEF WillList
    <3>. QED  BY <3>2, <3>3
  <2>. QED  BY <1>6, <2>1, <2>2 DEF WillList
<1>. QED  BY <1>5, <1>6 DEF t

LEMMA WillHaveTail ==
    ASSUME NEW q, IsSequence(q), q # <<>>, NEW G, NEW D, NEW k, NEW D2,
           k \in D2 => (k \in D /\ k[1] \notin q[1].init) \/ \E r \in q[1].res : About(G, r, k),
           WillHave(Tail(q), G, D2, k)
    PROVE  WillHave(q, G, D, k)
<1> DEFINE t == Tail(q)
<1>1. /\ 1 \in DOMAIN q /\ \A j \in DOMAIN t : j + 1 \in DOMAIN q /\ t[j] = q[j + 1]
  BY TailSequence
<1>2. /\ Kept(q, k[1], 0) <=> Kept(t, k[1], 0) /\ k[1] \notin q[1].init
      /\ \A j \in DOMAIN t : Kept(q, k[1], j + 1) <=> Kept(t, k[1], j)
      /\ Kept(q, k[1], 1) <=> Kept(t, k[1], 0)
  BY KeptTail
<1>3. CASE k \in D2 /\ Kept(t, k[1], 0)
  BY <1>1, <1>2, <1>3 DEF WillHave
<1>4. CASE \E j \in DOMAIN t : (\E r \in t[j].res : About(G, r, k)) /\ Kept(t, k[1], j)
  <2>1. PICK j \in DOMAIN t : (\E r \in t[j].res : About(G, r, k)) /\ Kept(t, k[1], j)
    BY <1>4
  <2>2. /\ j + 1 \in DOMAIN q /\ Kept(q, k[1], j + 1)
        /\ \E r \in q[j + 1].res : About(G, r, k)
    BY <1>1, <1>2, <2>1
  <2>. QED  BY <2>2 DEF WillHave
<1>. QED  BY <1>3, <1>4 DEF WillHave

\* The field k is given a value by the first batch if a result is for it, and keeps it
\* otherwise.
LEMMA WillReadTail ==
    ASSUME NEW q, IsSequence(q), q # <<>>, NEW G, NEW recv, NEW k, NEW id, NEW v, NEW recv2,
           NEW got \in BOOLEAN,
           got => k \in DOMAIN recv2 /\ \E r \in q[1].res : About(G, r, k) /\ recv2[k] = r.val,
           ~got /\ k[1] \notin q[1].init /\ k \in DOMAIN recv => k \in DOMAIN recv2 /\ recv2[k] = recv[k],
           (\E r \in q[1].res : r.id = id /\ r.sub = <<>> /\ r.val = v) => got,
           WillRead(q, G, recv, k, id, v)
    PROVE  WillRead(Tail(q), G, recv2, k, id, v)
<1> DEFINE t == Tail(q)
           m == Len(q)
<1>1. /\ m \in Nat \ {0} /\ DOMAIN q = 1 .. m /\ DOMAIN t = 1 .. m - 1
      /\ \A i \in 1 .. m - 1 : t[i] = q[i + 1]
  BY TailSequence
<1>2. /\ Kept(q, k[1], 0) <=> Kept(t, k[1], 0) /\ k[1] \notin q[1].init
      /\ \A j \in DOMAIN t : Kept(q, k[1], j + 1) <=> Kept(t, k[1], j)
      /\ Kept(q, k[1], 1) <=> Kept(t, k[1], 0)
  BY KeptTail
<1> HIDE DEF t, m
<1>3. PICK j \in {0} \cup DOMAIN q :
          /\ IF j = 0 THEN k \in DOMAIN recv /\ recv[k] = v
             ELSE \E r \in q[j].res : r.id = id /\ r.sub = <<>> /\ r.val = v
          /\ Kept(q, k[1], j)
          /\ \A i \in DOMAIN q : i >= j => \A r \in q[i].res : About(G, r, k) => r.val = v
  BY DEF WillRead
<1>4. ASSUME j \in {0, 1} PROVE WillRead(t, G, recv2, k, id, v)
  <2>1. \A i \in DOMAIN q : \A r \in q[i].res : About(G, r, k) => r.val = v
    BY <1>1, <1>3, <1>4
  <2>2. Kept(t, k[1], 0)
    BY <1>2, <1>3, <1>4
  <2>3. \A i \in DOMAIN t : \A r \in t[i].res : About(G, r, k) => r.val = v
    <3>1. \A i \in DOMAIN t : i + 1 \in DOMAIN q /\ t[i] = q[i + 1]
      BY <1>1
    <3>. QED  BY <2>1, <3>1
  <2>4. k \in DOMAIN recv2 /\ recv2[k] = v
    <3>1. CASE got
      BY <1>1, <2>1, <3>1
    <3>2. CASE ~got
      BY <1>2, <1>3, <1>4, <3>2
    <3>. QED  BY <3>1, <3>2
  <2>5. \A i \in DOMAIN t : i >= 0 => \A r \in t[i].res : About(G, r, k) => r.val = v
    BY <2>3
  <2>6. 0 \in {0} \cup DOMAIN t
    OBVIOUS
  <2>. QED  BY <2>2, <2>4, <2>5, <2>6 DEF WillRead
<1>5. ASSUME j \notin {0, 1} PROVE WillRead(t, G, recv2, k, id, v)
  <2>1. j - 1 \in DOMAIN t /\ t[j - 1] = q[j] /\ j - 1 # 0 /\ j - 1 + 1 = j
    BY <1>1, <1>3, <1>5
  <2>2. Kept(t, k[1], j - 1)
    BY <1>2, <1>3, <2>1
  <2>3. \A i \in DOMAIN t : i >= j - 1 => \A r \in t[i].res : About(G, r, k) => r.val = v
    <3>1. \A i \in DOMAIN t : i >= j - 1 => i + 1 \in DOMAIN q /\ t[i] = q[i + 1] /\ i + 1 >= j
      BY <1>1, <1>3
    <3>. QED  BY <1>3, <3>1
  <2>4. \E r \in t[j - 1].res : r.id = id /\ r.sub = <<>> /\ r.val = v
    BY <1>3, <1>5, <2>1
  <2> DEFINE h == j - 1
  <2>5. /\ h \in {0} \cup DOMAIN t /\ h # 0
        /\ \E r \in t[h].res : r.id = id /\ r.sub = <<>> /\ r.val = v
        /\ Kept(t, k[1], h)
        /\ \A i \in DOMAIN t : i >= h => \A r \in t[i].res : About(G, r, k) => r.val = v
    BY <2>1, <2>2, <2>3, <2>4
  <2> HIDE DEF h
  <2>. QED  BY <2>5 DEF WillRead
<1>. QED  BY <1>4, <1>5 DEF t

----------------------------------------------------------------------------
(* What a result is about.                                                 *)

LEMMA SuffixCompletes ==
    ASSUME NEW f \in Seq(Word), NEW g \in Seq(Word), IsPrefix(f, g)
    PROVE  f \o Suffix(f, g) = g /\ Suffix(f, g) \in Seq(Word)
<1> DEFINE m == Len(f)
           n == Len(g)
           s == SubSeq(g, m + 1, n)
<1>1. m \in Nat /\ n \in Nat /\ m <= n /\ SubSeq(f, 1, m) = SubSeq(g, 1, m)
  BY DEF IsPrefix
<1>2. (\A i \in 1 .. m : f[i] \in Word) /\ (\A i \in 1 .. n : g[i] \in Word)
  OBVIOUS
<1>3. s \in Seq(Word) /\ Len(s) = n - m /\ \A i \in 1 .. n - m : s[i] = g[m + i]
  <2>1. \A i \in m + 1 .. n : g[i] \in Word
    BY <1>1, <1>2
  <2>2. s \in Seq(Word) /\ Len(s) = IF m + 1 <= n THEN n - (m + 1) + 1 ELSE 0
    BY <1>1, <2>1, SubSeqProperties
  <2>3. \A i \in 1 .. n - (m + 1) + 1 : s[i] = g[m + 1 + i - 1]
    BY <1>1, <2>1, SubSeqProperties
  <2> HIDE DEF m, n, s
  <2>. QED  BY <1>1, <2>2, <2>3
<1>4. \A i \in 1 .. m : f[i] = g[i]
  <2>1. (\A i \in 1 .. m : g[i] \in Word) /\ m - 1 + 1 = m
    BY <1>1, <1>2
  <2>2. \A i \in 1 .. m : SubSeq(f, 1, m)[i] = f[1 + i - 1] /\ SubSeq(g, 1, m)[i] = g[1 + i - 1]
    BY <1>1, <1>2, <2>1, SubSeqProperties
  <2> HIDE DEF m, n, s
  <2>. QED  BY <1>1, <2>2
<1>5. /\ f \o s \in Seq(Word) /\ Len(f \o s) = m + Len(s)
      /\ \A i \in 1 .. m + Len(s) : (f \o s)[i] = IF i <= m THEN f[i] ELSE s[i - m]
  BY <1>3, ConcatProperties
<1> HIDE DEF s
<1>6. Len(f \o s) = n
  BY <1>1, <1>3, <1>5
<1>7. ASSUME NEW i \in 1 .. n PROVE (f \o s)[i] = g[i]
  <2>1. (f \o s)[i] = IF i <= m THEN f[i] ELSE s[i - m]
    BY <1>1, <1>3, <1>5
  <2> HIDE DEF m, n
  <2>2. CASE i <= m
    BY <1>1, <1>4, <2>1, <2>2
  <2>3. CASE ~(i <= m)
    <3>1. i - m \in 1 .. n - m /\ m + (i - m) = i
      BY <1>1, <2>3
    <3>. QED  BY <1>3, <2>1, <2>3, <3>1
  <2>. QED  BY <2>2, <2>3
<1>8. f \o s = g
  BY <1>5, <1>6, <1>7, SeqEqual
<1>. QED  BY <1>3, <1>8 DEF Suffix, s

LEMMA SuffixOfItself ==
    ASSUME NEW f \in Seq(Word)
    PROVE  Suffix(f, f) = <<>> /\ f \o <<>> = f /\ IsPrefix(f, f)
BY DEF Suffix, IsPrefix

\* A result of the field g, for a request for f, is for g unless it is taken for another.
LEMMA ResultField ==
    ASSUME NEW p \in Client, NEW f \in Field, NEW g \in Field, NEW n, <<n, f>> \in Wanted[p], NEW sub,
           ~TakenFor(p, <<n, f \o sub>>),
           \/ IsPrefix(f, g) /\ sub = Suffix(f, g)
           \/ IsPrefix(g, f) /\ sub = Suffix(g, f)
    PROVE  f \o sub = g
<1>1. f \in Seq(Word) /\ g \in Seq(Word)
  BY FieldAssumption
<1>2. CASE IsPrefix(f, g) /\ sub = Suffix(f, g)
  BY <1>1, <1>2, SuffixCompletes
<1>3. CASE IsPrefix(g, f) /\ sub = Suffix(g, f) /\ f # g
  <2>1. IsStrictPrefix(g, f)
    BY <1>3 DEF IsStrictPrefix
  <2>2. PICK q : q = <<n, f>> /\ q[1] = n /\ q[2] = f
    OBVIOUS
  <2>3. PICK h : h = f \o Suffix(g, f)
    OBVIOUS
  <2>4. PICK k : k = <<n, h>> /\ k[1] = n /\ k[2] = h
    <3>1. <<n, h>>[1] = n /\ <<n, h>>[2] = h
      OBVIOUS
    <3>. QED  BY <3>1
  <2>5. TakenFor(p, k)
    BY <2>1, <2>2, <2>3, <2>4 DEF TakenFor
  <2>. QED  BY <1>3, <2>3, <2>4, <2>5
<1>4. CASE f = g /\ sub = Suffix(f, f)
  BY <1>1, <1>4, SuffixOfItself
<1>. QED  BY <1>2, <1>3, <1>4

LEMMA GetReqAbout ==
    ASSUME NEW p \in Client, IsReq(p, req[p]), given[p] \subseteq Nat \X Wanted[p],
           GivenTo(given[p], req[p]), IdsDiffer(p), NEW r, IsResult(given[p], r),
           r.val.field \in Field, NEW k \in Name \X Field, getReq(p, r) = k
    PROVE  FoundName(k[1]) # {} /\ (~TakenFor(p, k) => About(given[p], r, k))
<1> DEFINE ks == {x \in DOMAIN req[p] : req[p][x] = r.id}
           h == CHOOSE x \in ks : TRUE
<1>1. ks # {}
  BY NoNameAssumption DEF getReq
<1>2. h \in DOMAIN req[p] /\ req[p][h] = r.id /\ k[1] = h[1] /\ k[2] = h[2] \o r.sub
  <2> DEFINE g == h[2] \o r.sub
  <2>1. h \in ks
    BY <1>1
  <2>2. getReq(p, r) = <<h[1], g>>
    BY <1>1 DEF getReq
  <2> HIDE DEF g
  <2>3. k[1] = h[1] /\ k[2] = g
    BY <2>2
  <2>. QED  BY <2>1, <2>3 DEF g
<1> HIDE DEF ks, h
<1>3. <<r.id, h>> \in given[p] /\ h \in Name \X Field
  BY <1>2, PubSubAssumption DEF GivenTo, IsReq, IsMap
<1>4. PICK x \in given[p] : LET f == x[2][2] IN
        /\ x[1] = r.id
        /\ FoundName(x[2][1]) # {}
        /\ \/ IsPrefix(f, r.val.field) /\ r.sub = Suffix(f, r.val.field)
           \/ IsPrefix(r.val.field, f) /\ r.sub = Suffix(r.val.field, f)
  BY DEF IsResult
<1>5. x = <<r.id, h>>
  BY <1>3, <1>4 DEF IdsDiffer
<1>6. h \in Wanted[p] /\ h = <<h[1], h[2]>> /\ k = <<h[1], h[2] \o r.sub>> /\ h[2] \in Field
  BY <1>2, <1>3 DEF IsReq, IsMap
<1>7. ASSUME ~TakenFor(p, k) PROVE h[2] \o r.sub = r.val.field
  <2>1. \/ IsPrefix(h[2], r.val.field) /\ r.sub = Suffix(h[2], r.val.field)
        \/ IsPrefix(r.val.field, h[2]) /\ r.sub = Suffix(r.val.field, h[2])
    BY <1>4, <1>5
  <2>2. PICK n, f, sub : n = h[1] /\ f = h[2] /\ sub = r.sub
    OBVIOUS
  <2>3. f \in Field /\ <<n, f>> \in Wanted[p] /\ ~TakenFor(p, <<n, f \o sub>>)
    BY <1>6, <1>7, <2>2
  <2>4. f \o sub = r.val.field
    BY <2>1, <2>2, <2>3, ResultField
  <2>. QED  BY <2>2, <2>4
<1>8. k[1] = h[1] /\ FoundName(h[1]) # {}
  BY <1>2, <1>4, <1>5
<1>. QED  BY <1>2, <1>3, <1>7, <1>8 DEF About

LEMMA ReqResult ==
    ASSUME NEW p \in Client, IsReq(p, req[p]), GivenTo(given[p], req[p]), IdsDiffer(p),
           NEW r, r.sub = <<>>, NEW k \in DOMAIN req[p], req[p][k] = r.id
    PROVE  getReq(p, r) = k
<1> DEFINE ks == {x \in DOMAIN req[p] : req[p][x] = r.id}
           h == CHOOSE x \in ks : TRUE
<1>1. \A x \in ks : x = k
  BY DEF GivenTo, IdsDiffer
<1>2. h = k /\ ks # {}
  BY <1>1
<1>3. k \in Name \X Field
  BY PubSubAssumption DEF IsReq, IsMap
<1>4. k[2] \o <<>> = k[2]
  <2>1. k[2] \in Seq(Word)
    BY <1>3, FieldAssumption
  <2>. QED  BY <2>1, ConcatEmptySeq
<1>5. getReq(p, r) = <<h[1], h[2] \o r.sub>>
  BY <1>2 DEF getReq
<1>6. k = <<k[1], k[2]>>
  BY <1>3
<1>. QED  BY <1>2, <1>4, <1>5, <1>6

\* An id that is given now is of no result that has been sent before.
LEMMA AboutGiven ==
    ASSUME NEW G, NEW H, G \subseteq H, \A x, y \in H : x[1] = y[1] => x = y, NEW r, IsResult(G, r), NEW k
    PROVE  (About(H, r, k) <=> About(G, r, k)) /\ IsResult(H, r)
<1>1. PICK x \in G : x[1] = r.id
  BY DEF IsResult
<1>2. \A y \in H : y[1] = r.id => y = x
  BY <1>1
<1>3. About(H, r, k) <=> About(G, r, k)
  BY <1>1, <1>2 DEF About
<1>4. IsResult(H, r)
  BY DEF IsResult
<1>. QED  BY <1>3, <1>4

LEMMA OneField == ASSUME NEW f PROVE FirstOf({f}) = f /\ LastOf({f}) = f
BY DEF FirstOf, LastOf

\* What Recv does to the data of p, as far as the fields of others are concerned.
LEMMA RecvData ==
    ASSUME NEW p \in Client, PubSubTypeOK, IdsGiven, ResultsRequested(p), IdsDiffer(p), Recv(p),
           NEW k \in Name \X Field
    PROVE  LET m == recv_queue[p][1]
               got == \E r \in m.res : getReq(p, r) = k
           IN  /\ k \in DOMAIN data_recv'[p] <=> (k \in DOMAIN data_recv[p] /\ k[1] \notin m.init) \/ got
               /\ got /\ ~TakenFor(p, k) =>
                     \E r \in m.res : About(given[p], r, k) /\ data_recv'[p][k] = r.val
               /\ ~got /\ k[1] \notin m.init /\ k \in DOMAIN data_recv[p] =>
                     data_recv'[p][k] = data_recv[p][k]
               /\ got => FoundName(k[1]) # {}
<1> DEFINE m == recv_queue[p][1]
           got == \E r \in m.res : getReq(p, r) = k
           for(j) == {r \in m.res : getReq(p, r) = j}
           lastFor(j) == LET f == LastOf({r.val.field : r \in for(j)}) IN
                         (CHOOSE r \in for(j) : r.val.field = f).val
           old == Without(data_recv[p], m.init \X Seq(Word))
           new == [j \in {getReq(p, r) : r \in m.res} |-> lastFor(j)]
<1>0. IsSequence(recv_queue[p]) /\ recv_queue[p] # <<>> /\ ToClient(p, m)
  <2>1. IsSequence(recv_queue[p]) /\ recv_queue[p] # <<>>
        /\ \A i \in DOMAIN recv_queue[p] : ToClient(p, recv_queue[p][i])
    BY DEF PubSubTypeOK, Recv
  <2>2. 1 \in DOMAIN recv_queue[p]
    BY <2>1, TailSequence
  <2>. QED  BY <2>1, <2>2
<1>1. Head(recv_queue[p]) = m /\ 1 \in DOMAIN recv_queue[p]
  BY <1>0, TailSequence
<1>2. data_recv'[p] = Overwrite(old, new)
  <2> DEFINE All(b) == LET for2(j) == {r \in b.res : getReq(p, r) = j}
                           last2(j) == LET f == LastOf({r.val.field : r \in for2(j)}) IN
                                       (CHOOSE r \in for2(j) : r.val.field = f).val
                       IN  Overwrite(Without(data_recv[p], b.init \X Seq(Word)),
                                     [j \in {getReq(p, r) : r \in b.res} |-> last2(j)])
  <2>1. data_recv'[p] = All(Head(recv_queue[p]))
    BY DEF Recv, PubSubTypeOK
  <2>2. All(m) = Overwrite(old, new)
    OBVIOUS
  <2> HIDE DEF All
  <2>. QED  BY <1>1, <2>1, <2>2
<1>3. ASSUME NEW r \in m.res, getReq(p, r) = k
      PROVE  FoundName(k[1]) # {} /\ (~TakenFor(p, k) => About(given[p], r, k))
  <2>1. IsReq(p, req[p]) /\ given[p] \subseteq Nat \X Wanted[p] /\ r.val.field \in Field
    BY <1>0 DEF PubSubTypeOK, ToClient
  <2>2. GivenTo(given[p], req[p]) /\ IsResult(given[p], r)
    BY <1>1 DEF IdsGiven, ResultsRequested
  <2>. QED  BY <1>3, <2>1, <2>2, GetReqAbout
<1>4. ASSUME got, ~TakenFor(p, k) PROVE \E r \in m.res : getReq(p, r) = k /\ lastFor(k) = r.val
  <2>1. \A r \in for(k) : r.val.field = k[2]
    BY <1>3, <1>4 DEF About
  <2>2. for(k) # {}
    BY <1>4
  <2>3. {r.val.field : r \in for(k)} = {k[2]}
    BY <2>1, <2>2
  <2>4. LastOf({r.val.field : r \in for(k)}) = k[2]
    BY <2>3, OneField
  <2>5. lastFor(k) = (CHOOSE r \in for(k) : r.val.field = k[2]).val
    BY <2>4
  <2>6. (CHOOSE r \in for(k) : r.val.field = k[2]) \in for(k)
    BY <2>1, <2>2
  <2>. QED  BY <2>5, <2>6
<1>5. k[2] \in Seq(Word) /\ k = <<k[1], k[2]>>
  BY FieldAssumption
<1>6. k \in DOMAIN old <=> k \in DOMAIN data_recv[p] /\ k[1] \notin m.init
  BY <1>5 DEF Without
<1>7. k \in DOMAIN old => old[k] = data_recv[p][k]
  BY DEF Without
<1>8. k \in DOMAIN new <=> got
  OBVIOUS
<1>9. got => new[k] = lastFor(k)
  BY <1>8
<1> HIDE DEF old, new, lastFor
<1>10. /\ k \in DOMAIN data_recv'[p] <=> k \in DOMAIN old \/ k \in DOMAIN new
       /\ k \in DOMAIN data_recv'[p] => data_recv'[p][k] = IF k \in DOMAIN new THEN new[k] ELSE old[k]
  BY <1>2 DEF Overwrite
<1>11. got => data_recv'[p][k] = lastFor(k)
  BY <1>8, <1>9, <1>10
<1>12. got /\ ~TakenFor(p, k) => \E r \in m.res : About(given[p], r, k) /\ data_recv'[p][k] = r.val
  BY <1>3, <1>4, <1>11
<1>13. got => FoundName(k[1]) # {}
  BY <1>3
<1>. QED  BY <1>6, <1>7, <1>8, <1>10, <1>12, <1>13

----------------------------------------------------------------------------
(* What a step that does not concern a client leaves as it is.             *)

LEMMA SameValues ==
    ASSUME UNCHANGED <<clients_by_id, name, sync_init, value>>, NEW n, NEW f
    PROVE  /\ FoundName(n)' = FoundName(n) /\ (HasValue(n, f)' <=> HasValue(n, f))
           /\ ValueOf(n, f)' = ValueOf(n, f)
BY SameEntry DEF HasValue, ValueOf

\* What there is of n is as it was.
SameOf(n) ==
    /\ FoundName(n)' = FoundName(n)
    /\ \A f \in Field : HasValue(n, f)' <=> HasValue(n, f)
    /\ \A f \in Field : HasValue(n, f) => ValueOf(n, f)' = ValueOf(n, f)

LEMMA SameOfAll ==
    ASSUME UNCHANGED <<clients_by_id, name, sync_init, value>>, NEW n
    PROVE  SameOf(n)
BY SameValues DEF SameOf

\* Nothing more is asked for with what waits on q2 than with what waits on q.
SameAsking(q2, q) ==
    \A k : Asking(q2, k) = Asking(q, k) /\ \A i \in Asking(q, k) : q2[i] = q[i]

\* The client p neither asks for anything nor is told anything.
Untouched(p) ==
    /\ conn_of'[p] = conn_of[p] /\ recv_queue'[p] = recv_queue[p] /\ entry'[p] = entry[p]
    /\ data_recv'[p] = data_recv[p] /\ given'[p] = given[p] /\ req'[p] = req[p]
    /\ conn_of[p] # NoConn => /\ SameAsking(sent'[conn_of[p]], sent[conn_of[p]])
                              /\ value_req'[conn_of[p]] = value_req[conn_of[p]]
    /\ mixed \subseteq mixed'
    /\ \A n \in Name : FoundName(n) # {} => FoundName(n)' # {}
    /\ Initialised(p)' => Initialised(p) /\ \A n \in Name \ mixed' : SameOf(n)

LEMMA UntouchedClient ==
    ASSUME NEW p \in Client, ClientInv(p), Untouched(p), PubSubTypeOK
    PROVE  ClientInv(p)'
<1>1. \A x \in given[p] : x[2][1] \in Name
  BY PubSubAssumption DEF PubSubTypeOK
<1>2. /\ conn_of'[p] = conn_of[p] /\ recv_queue'[p] = recv_queue[p] /\ entry'[p] = entry[p]
      /\ data_recv'[p] = data_recv[p] /\ given'[p] = given[p] /\ req'[p] = req[p]
      /\ mixed \subseteq mixed'
      /\ \A n \in Name : FoundName(n) # {} => FoundName(n)' # {}
  BY DEF Untouched
<1>3. IdsDiffer(p)' <=> IdsDiffer(p)
  BY <1>2 DEF IdsDiffer
<1>4. ResultsRequested(p)'
  <2>1. \A j \in DOMAIN recv_queue[p] : \A r \in recv_queue[p][j].res : IsResult(given[p], r)
    BY DEF ClientInv, ResultsRequested
  <2>2. ASSUME NEW r, IsResult(given[p], r) PROVE IsResult(given[p], r)'
    BY <1>1, <1>2, <2>2 DEF IsResult
  <2>3. \A j \in DOMAIN recv_queue'[p] : \A r \in recv_queue'[p][j].res : IsResult(given[p], r)'
    BY <1>2, <2>1, <2>2
  <2>. QED  BY <2>3 DEF ResultsRequested
<1>5. RequestsUnderWay(p)'
  <2>1. CASE conn_of[p] = NoConn
    BY <1>2, <2>1 DEF RequestsUnderWay
  <2>2. CASE conn_of[p] # NoConn
    <3>1. SameAsking(sent'[conn_of[p]], sent[conn_of[p]]) /\ value_req'[conn_of[p]] = value_req[conn_of[p]]
      BY <2>2 DEF Untouched
    <3>2. RequestsUnderWay(p)
      BY DEF ClientInv
    <3>3. SUFFICES ASSUME NEW k \in DOMAIN req[p], req[p][k] > 0
                   PROVE  \E i \in {0} \cup Asking(sent'[conn_of[p]], k) :
                            /\ \A j \in Asking(sent'[conn_of[p]], k) : j <= i
                            /\ IF i = 0 THEN IdIn(value_req[conn_of[p]], k, req[p][k])
                               ELSE IF sent'[conn_of[p]][i].kind = "first"
                                    THEN IdIn(sent'[conn_of[p]][i].req, k, req[p][k])
                                    ELSE sent'[conn_of[p]][i].id = req[p][k]
      BY <1>2, <3>1 DEF RequestsUnderWay
    <3>4. PICK i \in {0} \cup Asking(sent[conn_of[p]], k) :
                            /\ \A j \in Asking(sent[conn_of[p]], k) : j <= i
                            /\ IF i = 0 THEN IdIn(value_req[conn_of[p]], k, req[p][k])
                               ELSE IF sent[conn_of[p]][i].kind = "first"
                                    THEN IdIn(sent[conn_of[p]][i].req, k, req[p][k])
                                    ELSE sent[conn_of[p]][i].id = req[p][k]
      BY <2>2, <3>2, <3>3 DEF RequestsUnderWay
    <3>5. Asking(sent'[conn_of[p]], k) = Asking(sent[conn_of[p]], k)
          /\ \A j \in Asking(sent[conn_of[p]], k) : sent'[conn_of[p]][j] = sent[conn_of[p]][j]
      BY <3>1 DEF SameAsking
    <3>6. i = 0 \/ sent'[conn_of[p]][i] = sent[conn_of[p]][i]
      BY <3>4, <3>5
    <3>. QED  BY <3>4, <3>5, <3>6
  <2>. QED  BY <2>1, <2>2
<1>6. WillListAll(p)'
  BY <1>2 DEF ClientInv, WillListAll, Untouched, SameOf
<1>7. OnlyOfFound(p)'
  BY <1>2, <1>3 DEF ClientInv, OnlyOfFound
<1>8. NothingOld(p)'
  BY <1>2, <1>3 DEF ClientInv, NothingOld, Untouched, SameOf
<1>9. WillReadAll(p)'
  <2> SUFFICES ASSUME Initialised(p)', IdsDiffer(p)', NEW k \in DOMAIN req[p], req[p][k] > 0, k[1] \notin mixed',
                      ~TakenFor(p, k), Asking(sent'[conn_of[p]], k) = {}, HasValue(k[1], k[2])'
               PROVE  WillRead(recv_queue[p], given[p], data_recv[p], k, req[p][k], ValueOf(k[1], k[2])')
    BY <1>2 DEF WillReadAll
  <2>1. Initialised(p) /\ \A n \in Name \ mixed' : SameOf(n)
    BY DEF Untouched
  <2>2. conn_of[p] # NoConn
    BY <2>1, ClientAssumption DEF Initialised, PubSubTypeOK, LinkTypeOK, StoreTypeOK
  <2>3. k \in Name \X Field
    BY PubSubAssumption DEF PubSubTypeOK, IsReq, IsMap
  <2>4. HasValue(k[1], k[2]) /\ ValueOf(k[1], k[2])' = ValueOf(k[1], k[2])
    BY <2>1, <2>3 DEF SameOf
  <2>5. k[1] \notin mixed /\ Asking(sent[conn_of[p]], k) = {}
    BY <1>2, <2>2 DEF Untouched, SameAsking
  <2>6. WillRead(recv_queue[p], given[p], data_recv[p], k, req[p][k], ValueOf(k[1], k[2]))
    BY <1>3, <2>1, <2>4, <2>5 DEF ClientInv, WillReadAll
  <2>. QED  BY <2>4, <2>6
<1>. QED  BY <1>4, <1>5, <1>6, <1>7, <1>8, <1>9 DEF ClientInv

----------------------------------------------------------------------------
(* Maps.                                                                   *)

LEMMA OverwriteMap ==
    ASSUME NEW S, NEW T, NEW f, NEW g, IsMap(f, S, T), IsMap(g, S, T)
    PROVE  IsMap(Overwrite(f, g), S, T)
BY DEF IsMap, Overwrite

LEMMA OverwriteData ==
    ASSUME NEW f, NEW g, IsData(f), IsData(g)
    PROVE  IsData(Overwrite(f, g))
<1>1. IsMap(Overwrite(f, g), Field, [field : Field, n : Nat])
  BY OverwriteMap DEF IsData
<1>2. \A h \in DOMAIN Overwrite(f, g) : Overwrite(f, g)[h].field = h
  BY DEF IsData, Overwrite
<1>. QED  BY <1>1, <1>2 DEF IsData

----------------------------------------------------------------------------
(* What a client sends.                                                    *)

LEMMA ConnOf ==
    ASSUME PubSubTypeOK, NEW p \in Client
    PROVE  /\ conn_of[p] # NoConn => conn_of[p] \in Conn /\ owner[conn_of[p]] = p
           /\ Initialised(p) => conn_of[p] # NoConn
           /\ \A q \in Client : conn_of[q] = conn_of[p] /\ conn_of[p] # NoConn => p = q
BY ClientAssumption DEF PubSubTypeOK, LinkTypeOK, StoreTypeOK, Initialised

LEMMA TypeDomains ==
    PubSubTypeOK =>
        /\ DOMAIN own = Client /\ DOMAIN req = Client /\ DOMAIN data_recv = Client
        /\ DOMAIN entry = Client /\ DOMAIN sync_time = Client /\ DOMAIN given = Client
        /\ DOMAIN recv_queue = Client
        /\ DOMAIN value = Conn /\ DOMAIN value_req = Conn /\ DOMAIN sent = Conn
        /\ DOMAIN conn_of = Client /\ DOMAIN writes = Client /\ DOMAIN frees = Client
<1> SUFFICES ASSUME PubSubTypeOK
             PROVE  /\ DOMAIN own = Client /\ DOMAIN req = Client /\ DOMAIN data_recv = Client
                    /\ DOMAIN entry = Client /\ DOMAIN sync_time = Client /\ DOMAIN given = Client
                    /\ DOMAIN recv_queue = Client
                    /\ DOMAIN value = Conn /\ DOMAIN value_req = Conn /\ DOMAIN sent = Conn
                    /\ DOMAIN conn_of = Client /\ DOMAIN writes = Client /\ DOMAIN frees = Client
  OBVIOUS
<1>1. /\ {DOMAIN own, DOMAIN req, DOMAIN data_recv, DOMAIN entry, DOMAIN sync_time, DOMAIN given,
          DOMAIN recv_queue} = {Client}
      /\ {DOMAIN value, DOMAIN value_req, DOMAIN sent} = {Conn}
      /\ conn_of \in [Client -> Conn \cup {NoConn}] /\ writes \in [Client -> Nat] /\ frees \in [Client -> Nat]
  BY DEF PubSubTypeOK, LinkTypeOK
<1>. QED  BY <1>1

LEMMA SentMessage ==
    ASSUME PubSubTypeOK, NEW p \in Client, NEW m, SendToServer(p, m)
    PROVE  /\ DOMAIN sent' = Conn
           /\ \A c \in Conn \ {conn_of[p]} : sent'[c] = sent[c]
           /\ conn_of[p] # NoConn => sent'[conn_of[p]] = Append(sent[conn_of[p]], m)
           /\ \A c \in Conn : IsSequence(sent'[c])
           /\ ToServer(p, m) => \A c \in Conn : \A i \in DOMAIN sent'[c] : ToServer(owner[c], sent'[c][i])
           /\ \A c \in Conn : \A i \in DOMAIN sent'[c] :
                 \/ i \in DOMAIN sent[c] /\ sent'[c][i] = sent[c][i]
                 \/ owner[c] = p /\ sent'[c][i] = m
<1>1. /\ DOMAIN sent' = Conn
      /\ \A c \in Conn \ {conn_of[p]} : sent'[c] = sent[c]
      /\ conn_of[p] # NoConn => sent'[conn_of[p]] = Append(sent[conn_of[p]], m)
  BY ConnOf, TypeDomains DEF SendToServer
<1>2. ASSUME NEW c \in Conn
      PROVE  /\ IsSequence(sent'[c])
             /\ ToServer(p, m) => \A i \in DOMAIN sent'[c] : ToServer(owner[c], sent'[c][i])
             /\ \A i \in DOMAIN sent'[c] :
                   \/ i \in DOMAIN sent[c] /\ sent'[c][i] = sent[c][i]
                   \/ owner[c] = p /\ sent'[c][i] = m
  <2>1. IsSequence(sent[c]) /\ \A i \in DOMAIN sent[c] : ToServer(owner[c], sent[c][i])
    BY DEF PubSubTypeOK
  <2>2. CASE c # conn_of[p]
    BY <1>1, <2>1, <2>2
  <2>3. CASE c = conn_of[p]
    <3>1. sent'[c] = Append(sent[c], m) /\ owner[c] = p
      BY <1>1, <2>3, ConnOf, ClientAssumption
    <3>2. /\ IsSequence(Append(sent[c], m)) /\ DOMAIN Append(sent[c], m) = 1 .. Len(sent[c]) + 1
          /\ Append(sent[c], m)[Len(sent[c]) + 1] = m
          /\ \A i \in 1 .. Len(sent[c]) : Append(sent[c], m)[i] = sent[c][i]
          /\ DOMAIN sent[c] = 1 .. Len(sent[c]) /\ Len(sent[c]) \in Nat
      BY <2>1, AppendSequence, SequenceSet
    <3>. QED  BY <2>1, <3>1, <3>2
  <2>. QED  BY <2>2, <2>3
<1>. QED  BY <1>1, <1>2

LEMMA AppendAsking ==
    ASSUME NEW q, IsSequence(q), NEW m, NEW k
    PROVE  /\ ~(m.kind = "first" \/ (m.kind = "req" /\ m.key = k)) => Asking(Append(q, m), k) = Asking(q, k)
           /\ Asking(q, k) \subseteq Asking(Append(q, m), k)
           /\ m.kind = "req" /\ m.key = k => Len(q) + 1 \in Asking(Append(q, m), k)
           /\ \A i \in Asking(Append(q, m), k) : i <= Len(q) + 1
           /\ \A i \in Asking(q, k) : Append(q, m)[i] = q[i] /\ i \in 1 .. Len(q)
<1>1. /\ DOMAIN Append(q, m) = 1 .. Len(q) + 1 /\ Append(q, m)[Len(q) + 1] = m
      /\ \A i \in 1 .. Len(q) : Append(q, m)[i] = q[i]
      /\ DOMAIN q = 1 .. Len(q) /\ Len(q) \in Nat
  BY AppendSequence, SequenceSet
<1>. QED  BY <1>1 DEF Asking

\* A client step of p, after which the others are as they were.
LEMMA OthersUntouched ==
    ASSUME PubSubInv, NEW p \in Client, UNCHANGED <<clients, clients_by_id, name, sync_init, value, value_req, mixed>>,
           \A q \in Client \ {p} :
               /\ conn_of'[q] = conn_of[q] /\ recv_queue'[q] = recv_queue[q] /\ entry'[q] = entry[q]
               /\ data_recv'[q] = data_recv[q] /\ given'[q] = given[q] /\ req'[q] = req[q],
           \A c \in Conn : owner[c] # p => sent'[c] = sent[c],
           NEW q \in Client, q # p
    PROVE  ClientInv(q)'
<1>1. ClientInv(q) /\ PubSubTypeOK
  BY DEF PubSubInv
<1>2. conn_of[q] # NoConn => sent'[conn_of[q]] = sent[conn_of[q]]
  BY <1>1, ConnOf
<1>3. conn_of[q] # NoConn => SameAsking(sent'[conn_of[q]], sent[conn_of[q]])
  BY <1>2 DEF SameAsking
<1>4. \A n \in Name : SameOf(n)
  BY SameOfAll DEF serverVars
<1>5. Untouched(q)
  BY <1>3, <1>4 DEF Untouched, Initialised, serverVars, SameOf
<1>. QED  BY <1>1, <1>5, UntouchedClient

LEMMA syncStep ==
    ASSUME PubSubInv, StoreInv', NEW p \in Client, NEW F \in Published[p], sync(p, F)
    PROVE  PubSubInv'
<1> DEFINE n == writes[p] + 1
           data == [f \in F |-> Val(f, n)]
           m == SyncMsg(data, n)
<1>1. PubSubTypeOK /\ IdsGiven /\ ClientInv(p)
  BY DEF PubSubInv
<1>2. F \subseteq Field /\ n \in Nat
  BY <1>1, PubSubAssumption DEF PubSubTypeOK
<1>3. /\ own' = [own EXCEPT ![p] = Overwrite(@, data)] /\ writes' = [writes EXCEPT ![p] = n]
      /\ SendToServer(p, m)
      /\ UNCHANGED <<storeVars, linkVars, req, data_recv, entry, sync_time, frees, given, serverVars>>
  BY DEF sync
<1> HIDE DEF n
<1>4. IsData(data) /\ ToServer(p, m) /\ m.kind = "sync"
  BY <1>2 DEF IsData, IsMap, Val, ToServer, SyncMsg
<1> HIDE DEF data, m
<1>5. /\ DOMAIN sent' = Conn
      /\ \A c \in Conn \ {conn_of[p]} : sent'[c] = sent[c]
      /\ conn_of[p] # NoConn => sent'[conn_of[p]] = Append(sent[conn_of[p]], m)
      /\ \A c \in Conn : IsSequence(sent'[c])
      /\ \A c \in Conn : \A i \in DOMAIN sent'[c] : ToServer(owner[c], sent'[c][i])
      /\ \A c \in Conn : \A i \in DOMAIN sent'[c] :
            \/ i \in DOMAIN sent[c] /\ sent'[c][i] = sent[c][i]
            \/ owner[c] = p /\ sent'[c][i] = m
  BY <1>1, <1>3, <1>4, SentMessage
<1>6. PubSubTypeOK'
  <2>1. \A q \in Client : IsData(own'[q])
    BY <1>1, <1>3, <1>4, OverwriteData DEF PubSubTypeOK
  <2>2. writes' \in [Client -> Nat] /\ DOMAIN own' = DOMAIN own
    BY <1>1, <1>2, <1>3 DEF PubSubTypeOK
  <2>3. LinkTypeOK'
    BY <1>1, <1>3 DEF PubSubTypeOK, LinkTypeOK, StoreTypeOK, storeVars, linkVars
  <2>. QED  BY <1>1, <1>3, <1>5, <2>1, <2>2, <2>3, TypeDomains
         DEF PubSubTypeOK, storeVars, linkVars, serverVars, IsReq
<1>7. IdsGiven'
  <2>1. ASSUME NEW c \in Conn, NEW i \in DOMAIN sent'[c]
        PROVE  /\ sent'[c][i].kind = "first" => GivenTo(given[owner[c]], sent'[c][i].req)
               /\ sent'[c][i].kind = "req" => <<sent'[c][i].id, sent'[c][i].key>> \in given[owner[c]]
    BY <1>1, <1>4, <1>5 DEF IdsGiven
  <2>2. given' = given /\ req' = req /\ value_req' = value_req
    BY <1>3 DEF serverVars
  <2>. QED  BY <1>1, <2>1, <2>2 DEF IdsGiven
<1>8. \A q \in Client \ {p} : ClientInv(q)'
  <2>1. /\ UNCHANGED <<clients, clients_by_id, name, sync_init, value, value_req, mixed>>
        /\ UNCHANGED <<conn_of, recv_queue, entry, data_recv, given, req>>
    BY <1>3 DEF storeVars, linkVars, serverVars
  <2>2. \A c \in Conn : owner[c] # p => sent'[c] = sent[c]
    <3>1. \A c \in Conn : owner[c] # p => c # conn_of[p]
      BY <1>1, ConnOf, ClientAssumption
    <3>. QED  BY <1>5, <3>1
  <2>. QED  BY <2>1, <2>2, OthersUntouched
<1>9. ClientInv(p)'
  <2>1. conn_of[p] # NoConn => SameAsking(sent'[conn_of[p]], sent[conn_of[p]])
    <3>1. SUFFICES ASSUME conn_of[p] # NoConn, NEW k
                   PROVE  LET q == sent[conn_of[p]] IN
                          /\ Asking(Append(q, m), k) = Asking(q, k)
                          /\ \A i \in Asking(q, k) : Append(q, m)[i] = q[i]
      BY <1>5 DEF SameAsking
    <3>2. IsSequence(sent[conn_of[p]])
      BY <1>1, <3>1, ConnOf DEF PubSubTypeOK
    <3>. QED  BY <1>4, <3>2, AppendAsking
  <2>2. \A x \in Name : SameOf(x)
    BY <1>3, SameOfAll DEF storeVars, serverVars
  <2>3. Untouched(p)
    BY <1>3, <2>1, <2>2 DEF Untouched, Initialised, storeVars, linkVars, serverVars, SameOf
  <2>. QED  BY <1>1, <2>3, UntouchedClient
<1>. QED  BY <1>6, <1>7, <1>8, <1>9 DEF PubSubInv

\* Client p asks for the field k0, or does not want it any more: what it will know of the
\* other fields is as before.
LEMMA AskedClient ==
    ASSUME PubSubTypeOK, NEW p \in Client, ClientInv(p), NEW k0,
           UNCHANGED <<clients, clients_by_id, name, sync_init, value, value_req, mixed>>,
           conn_of'[p] = conn_of[p], recv_queue'[p] = recv_queue[p], entry'[p] = entry[p],
           given[p] \subseteq given'[p],
           DOMAIN data_recv'[p] \subseteq DOMAIN data_recv[p],
           \A k \in DOMAIN data_recv[p] \ {k0} : k \in DOMAIN data_recv'[p] /\ data_recv'[p][k] = data_recv[p][k],
           \A k \in DOMAIN req'[p] \ {k0} : k \in DOMAIN req[p] /\ req'[p][k] = req[p][k],
           conn_of[p] # NoConn => \A k : k # k0 =>
                /\ Asking(sent'[conn_of[p]], k) = Asking(sent[conn_of[p]], k)
                /\ \A i \in Asking(sent[conn_of[p]], k) : sent'[conn_of[p]][i] = sent[conn_of[p]][i],
           conn_of[p] # NoConn /\ k0 \in DOMAIN req'[p] /\ req'[p][k0] > 0 =>
                \E i \in Asking(sent'[conn_of[p]], k0) :
                    /\ \A j \in Asking(sent'[conn_of[p]], k0) : j <= i
                    /\ i # 0 /\ sent'[conn_of[p]][i].kind = "req" /\ sent'[conn_of[p]][i].id = req'[p][k0]
    PROVE  ClientInv(p)'
<1> DEFINE q == recv_queue[p]
           G == given[p]
           H == given'[p]
<1>1. \A n \in Name : SameOf(n)
  BY SameOfAll
<1>2. \A n : FoundName(n)' = FoundName(n)
  BY SameEntry
<1>3. \A j \in DOMAIN q : \A r \in q[j].res : IsResult(G, r)
  BY DEF ClientInv, ResultsRequested
<1>4. ASSUME IdsDiffer(p)' PROVE IdsDiffer(p) /\ \A x, y \in H : x[1] = y[1] => x = y
  BY <1>4 DEF IdsDiffer
<1>5. ASSUME IdsDiffer(p)', NEW j \in DOMAIN q, NEW r \in q[j].res, NEW k PROVE About(H, r, k) <=> About(G, r, k)
  BY <1>3, <1>4, <1>5, AboutGiven
<1>6. ResultsRequested(p)'
  <2>1. ASSUME NEW r, IsResult(G, r) PROVE IsResult(given[p], r)'
    BY <1>2, <2>1 DEF IsResult
  <2>2. \A j \in DOMAIN recv_queue'[p] : \A r \in recv_queue'[p][j].res : IsResult(given[p], r)'
    BY <1>3, <2>1
  <2>. QED  BY <2>2 DEF ResultsRequested
<1>7. RequestsUnderWay(p)'
  <2> SUFFICES ASSUME conn_of[p] # NoConn, NEW k \in DOMAIN req'[p], req'[p][k] > 0
               PROVE  \E i \in {0} \cup Asking(sent'[conn_of[p]], k) :
                            /\ \A j \in Asking(sent'[conn_of[p]], k) : j <= i
                            /\ IF i = 0 THEN IdIn(value_req[conn_of[p]], k, req'[p][k])
                               ELSE IF sent'[conn_of[p]][i].kind = "first"
                                    THEN IdIn(sent'[conn_of[p]][i].req, k, req'[p][k])
                                    ELSE sent'[conn_of[p]][i].id = req'[p][k]
    BY DEF RequestsUnderWay
  <2>1. CASE k = k0
    <3>1. PICK i \in Asking(sent'[conn_of[p]], k0) :
                    /\ \A j \in Asking(sent'[conn_of[p]], k0) : j <= i
                    /\ i # 0 /\ sent'[conn_of[p]][i].kind = "req" /\ sent'[conn_of[p]][i].id = req'[p][k0]
      BY <2>1
    <3>2. sent'[conn_of[p]][i].kind # "first"
      BY <3>1
    <3>. QED  BY <2>1, <3>1, <3>2
  <2>2. CASE k # k0
    <3>1. k \in DOMAIN req[p] /\ req'[p][k] = req[p][k]
      BY <2>2
    <3>2. PICK i \in {0} \cup Asking(sent[conn_of[p]], k) :
                            /\ \A j \in Asking(sent[conn_of[p]], k) : j <= i
                            /\ IF i = 0 THEN IdIn(value_req[conn_of[p]], k, req[p][k])
                               ELSE IF sent[conn_of[p]][i].kind = "first"
                                    THEN IdIn(sent[conn_of[p]][i].req, k, req[p][k])
                                    ELSE sent[conn_of[p]][i].id = req[p][k]
      BY <3>1 DEF ClientInv, RequestsUnderWay
    <3>3. /\ Asking(sent'[conn_of[p]], k) = Asking(sent[conn_of[p]], k)
          /\ i = 0 \/ sent'[conn_of[p]][i] = sent[conn_of[p]][i]
      BY <2>2, <3>2
    <3>. QED  BY <3>1, <3>2, <3>3
  <2>. QED  BY <2>1, <2>2
<1>8. WillListAll(p)'
  <2>1. Initialised(p)' <=> Initialised(p)
    BY DEF Initialised
  <2>2. WillListAll(p)
    BY DEF ClientInv
  <2>. QED  BY <1>1, <2>1, <2>2 DEF WillListAll, SameOf
<1>9. OnlyOfFound(p)'
  BY <1>2, <1>4 DEF ClientInv, OnlyOfFound
<1>10. NothingOld(p)'
  <2> SUFFICES ASSUME Initialised(p)', IdsDiffer(p)', NEW n \in Name \ (mixed \cup {MemberName[p]}), NEW f \in Field,
                      WillHave(q, H, DOMAIN data_recv'[p], <<n, f>>), ~TakenFor(p, <<n, f>>)
               PROVE  HasValue(n, f)'
    BY DEF NothingOld
  <2>1. WillHave(q, G, DOMAIN data_recv[p], <<n, f>>)
    BY <1>5 DEF WillHave
  <2>2. Initialised(p) /\ IdsDiffer(p)
    BY <1>4 DEF Initialised
  <2>. QED  BY <1>1, <2>1, <2>2 DEF ClientInv, NothingOld, SameOf
<1>11. WillReadAll(p)'
  <2> SUFFICES ASSUME Initialised(p)', IdsDiffer(p)', NEW k \in DOMAIN req'[p], req'[p][k] > 0, k[1] \notin mixed,
                      ~TakenFor(p, k), Asking(sent'[conn_of[p]], k) = {}, HasValue(k[1], k[2])'
               PROVE  WillRead(q, H, data_recv'[p], k, req'[p][k], ValueOf(k[1], k[2])')
    BY DEF WillReadAll
  <2>1. Initialised(p) /\ IdsDiffer(p) /\ conn_of[p] # NoConn
    BY <1>4, ConnOf DEF Initialised
  <2>2. k # k0
    BY <2>1
  <2>3. k \in DOMAIN req[p] /\ req'[p][k] = req[p][k] /\ Asking(sent[conn_of[p]], k) = {}
    BY <2>1, <2>2
  <2>4. HasValue(k[1], k[2]) /\ ValueOf(k[1], k[2])' = ValueOf(k[1], k[2])
    BY SameValues
  <2>5. WillRead(q, G, data_recv[p], k, req[p][k], ValueOf(k[1], k[2]))
    BY <2>1, <2>3, <2>4 DEF ClientInv, WillReadAll
  <2> DEFINE v == ValueOf(k[1], k[2])
  <2>6. WillRead(q, H, data_recv'[p], k, req[p][k], v)
    <3> HIDE DEF v
    <3>1. PICK j \in {0} \cup DOMAIN q :
        /\ IF j = 0 THEN k \in DOMAIN data_recv[p] /\ data_recv[p][k] = v
           ELSE \E r \in q[j].res : r.id = req[p][k] /\ r.sub = <<>> /\ r.val = v
        /\ Kept(q, k[1], j)
        /\ \A i \in DOMAIN q : i >= j => \A r \in q[i].res : About(G, r, k) => r.val = v
      BY <2>5 DEF WillRead, v
    <3>2. \A i \in DOMAIN q : i >= j => \A r \in q[i].res : About(H, r, k) => r.val = v
      BY <1>5, <3>1
    <3>. QED  BY <2>2, <3>1, <3>2 DEF WillRead
  <2>. QED  BY <2>3, <2>4, <2>6
<1>. QED  BY <1>6, <1>7, <1>8, <1>9, <1>10, <1>11 DEF ClientInv

\* Of finitely many things that are ordered by R one is the first.
LEMMA FirstOfFinite ==
    ASSUME NEW S, IsFiniteSet(S), S # {}, NEW R,
           \A x, y \in S : x = y \/ <<x, y>> \in R \/ <<y, x>> \in R,
           \A x, y, z \in S : <<x, y>> \in R /\ <<y, z>> \in R => <<x, z>> \in R
    PROVE  \E x \in S : \A y \in S \ {x} : <<x, y>> \in R
<1> DEFINE Has(T) == \E x \in T : \A y \in T \ {x} : <<x, y>> \in R
           Bad == {T \in SUBSET S : T # {} /\ ~Has(T)}
           sizes == {Cardinality(T) : T \in Bad}
<1> SUFFICES ASSUME ~Has(S) PROVE FALSE
  OBVIOUS
<1>1. S \in Bad
  OBVIOUS
<1>2. \A T \in SUBSET S : IsFiniteSet(T) /\ Cardinality(T) \in Nat
  <2> SUFFICES ASSUME NEW T \in SUBSET S PROVE IsFiniteSet(T) /\ Cardinality(T) \in Nat
    OBVIOUS
  <2>1. IsFiniteSet(T)
    BY FS_Subset
  <2>. QED  BY <2>1, FS_CardinalityType
<1>3. sizes \subseteq Nat
  BY SMTT(30), <1>2
<1>4. Cardinality(S) \in sizes
  BY <1>1
<1>40. \A T \in Bad : Cardinality(T) \in sizes
  OBVIOUS
<1> HIDE DEF sizes
<1>5. PICK n \in sizes : \A m \in sizes : n <= m
  BY <1>3, <1>4, SmallestOf
<1>6. PICK T \in Bad : Cardinality(T) = n
  BY DEF sizes
<1>7. PICK x \in T : TRUE
  BY <1>6
<1> DEFINE U == T \ {x}
<1>8. Cardinality(U) = n - 1 /\ n \in Nat /\ U \in SUBSET S
  <2>1. IsFiniteSet(T) /\ n \in Nat /\ T \in SUBSET S
    BY <1>2, <1>6
  <2>2. Cardinality(U) = Cardinality(T) - 1
    BY <1>7, <2>1, FS_RemoveElement
  <2>. QED  BY <1>6, <2>1, <2>2
<1>9. U \notin Bad
  <2>1. n - 1 < n
    BY <1>8
  <2>2. n - 1 \notin sizes
    BY <1>5, <1>8, <2>1
  <2> HIDE DEF Bad, U
  <2>. QED  BY <1>8, <1>40, <2>2
<1>10. U # {}
  BY <1>6, <1>7
<1>11. PICK y \in U : \A z \in U \ {y} : <<y, z>> \in R
  BY <1>8, <1>9, <1>10
<1>12. CASE <<x, y>> \in R
  <2>1. \A z \in T \ {x} : <<x, z>> \in R
    BY <1>6, <1>7, <1>11, <1>12
  <2>. QED  BY <1>6, <1>7, <2>1
<1>13. CASE <<y, x>> \in R
  <2>1. \A z \in T \ {y} : <<y, z>> \in R
    BY <1>11, <1>13
  <2>. QED  BY <1>6, <1>11, <2>1
<1>. QED  BY <1>6, <1>7, <1>11, <1>12, <1>13

LEMMA maxReqType ==
    ASSUME NEW p \in Client, IsReq(p, req[p])
    PROVE  maxReq(p) \in Nat
<1> DEFINE ids == {req[p][k] : k \in DOMAIN req[p]}
           R == {x \in Nat \X Nat : x[2] < x[1]}
<1>1. CASE ids = {}
  BY <1>1 DEF maxReq
<1>2. CASE ids # {}
  <2>1. DOMAIN req[p] \in SUBSET Wanted[p] /\ IsFiniteSet(Wanted[p]) /\ ids \subseteq Nat
    BY PubSubAssumption DEF IsReq, IsMap
  <2>2. IsFiniteSet(DOMAIN req[p])
    BY <2>1, FS_Subset
  <2>3. IsFiniteSet(ids)
    <3>1. req[p] \in [DOMAIN req[p] -> Nat]
      BY DEF IsReq, IsMap
    <3>2. req[p] \in Surjection(DOMAIN req[p], ids)
      BY <3>1 DEF Surjection
    <3>. QED  BY <2>2, <3>2, FS_Surjection
  <2>4. \A x, y \in Nat : <<x, y>> \in R <=> y < x
    OBVIOUS
  <2> HIDE DEF R, ids
  <2>5. \A x, y \in ids : x = y \/ <<x, y>> \in R \/ <<y, x>> \in R
    <3> SUFFICES ASSUME NEW x \in ids, NEW y \in ids PROVE x = y \/ <<x, y>> \in R \/ <<y, x>> \in R
      OBVIOUS
    <3>1. x \in Nat /\ y \in Nat
      BY <2>1
    <3>2. x = y \/ y < x \/ x < y
      BY <3>1
    <3>. QED  BY <2>4, <3>1, <3>2
  <2>6. \A x, y, z \in ids : <<x, y>> \in R /\ <<y, z>> \in R => <<x, z>> \in R
    <3> SUFFICES ASSUME NEW x \in ids, NEW y \in ids, NEW z \in ids, <<x, y>> \in R, <<y, z>> \in R
                 PROVE  <<x, z>> \in R
      OBVIOUS
    <3>1. x \in Nat /\ y \in Nat /\ z \in Nat /\ y < x /\ z < y
      BY <2>1, <2>4
    <3>2. z < x
      BY <3>1
    <3>. QED  BY <2>4, <3>1, <3>2
  <2>7. PICK x \in ids : \A y \in ids \ {x} : <<x, y>> \in R
    BY SMTT(30), <1>2, <2>3, <2>5, <2>6, FirstOfFinite
  <2>8. \A y \in ids : y <= x
    <3> SUFFICES ASSUME NEW y \in ids PROVE y <= x
      OBVIOUS
    <3>1. x \in Nat /\ y \in Nat
      BY <2>1
    <3>2. y = x \/ y < x
      BY <2>4, <2>7, <3>1
    <3>. QED  BY <3>1, <3>2
  <2>9. (CHOOSE i \in ids : \A j \in ids : j <= i) \in ids
    BY <2>8
  <2>. QED  BY <1>2, <2>1, <2>9 DEF maxReq, ids
<1>. QED  BY <1>1, <1>2

\* What addReq does to the requests and ids of p.
LEMMA addReqStep ==
    ASSUME PubSubTypeOK, NEW p \in Client, NEW k0 \in Wanted[p], NEW id \in Nat, addReq(p, k0, id)
    PROVE  /\ \A q \in Client \ {p} : req'[q] = req[q] /\ given'[q] = given[q]
           /\ \A q \in Client : given[q] \subseteq given'[q]
           /\ given'[p] = given[p] \cup {<<id, k0>>}
           /\ DOMAIN req'[p] = DOMAIN req[p] \cup {k0} /\ req'[p][k0] = id
           /\ \A k \in DOMAIN req[p] \ {k0} : req'[p][k] = req[p][k]
           /\ \A q \in Client : IsReq(q, req'[q]) /\ given'[q] \subseteq Nat \X Wanted[q]
           /\ DOMAIN req' = Client /\ DOMAIN given' = Client
           /\ GivenTo(given[p], req[p]) => GivenTo(given'[p], req'[p])
<1>1. DOMAIN req = Client /\ DOMAIN given = Client
  BY TypeDomains
<1> DEFINE new == [x \in {k0} |-> id]
<1>2. req'[p] = Overwrite(req[p], new) /\ given'[p] = given[p] \cup {<<id, k0>>}
      /\ DOMAIN req' = Client /\ DOMAIN given' = Client
      /\ \A q \in Client \ {p} : req'[q] = req[q] /\ given'[q] = given[q]
  BY <1>1 DEF addReq
<1>3. DOMAIN new = {k0} /\ new[k0] = id
  OBVIOUS
<1>4. IsMap(new, Wanted[p], Nat) /\ IsMap(req[p], Wanted[p], Nat)
  BY DEF IsMap, PubSubTypeOK, IsReq
<1> HIDE DEF new
<1>5. DOMAIN req'[p] = DOMAIN req[p] \cup {k0} /\ req'[p][k0] = id
      /\ \A k \in DOMAIN req[p] \ {k0} : req'[p][k] = req[p][k]
  BY <1>2, <1>3 DEF Overwrite
<1>6. IsReq(p, req'[p])
  BY <1>2, <1>4, OverwriteMap DEF IsReq
<1>7. \A q \in Client : IsReq(q, req'[q]) /\ given'[q] \subseteq Nat \X Wanted[q]
  <2> SUFFICES ASSUME NEW q \in Client PROVE IsReq(q, req'[q]) /\ given'[q] \subseteq Nat \X Wanted[q]
    OBVIOUS
  <2>1. IsReq(q, req[q]) /\ given[q] \subseteq Nat \X Wanted[q]
    BY DEF PubSubTypeOK
  <2>2. CASE q # p
    BY <1>2, <2>1, <2>2
  <2>3. CASE q = p
    <3>1. <<id, k0>> \in Nat \X Wanted[p]
      OBVIOUS
    <3>. QED  BY <1>2, <1>6, <2>1, <2>3, <3>1
  <2>. QED  BY <2>2, <2>3
<1>8. GivenTo(given[p], req[p]) => GivenTo(given'[p], req'[p])
  BY <1>2, <1>5 DEF GivenTo
<1>. QED  BY <1>2, <1>5, <1>7, <1>8

LEMMA requestStep ==
    ASSUME PubSubInv, StoreInv', NEW p \in Client, NEW k0 \in Wanted[p], request(p, k0)
    PROVE  PubSubInv'
<1> DEFINE id == maxReq(p) + 1
           m == ReqMsg(k0, id)
<1>1. PubSubTypeOK /\ IdsGiven /\ ClientInv(p)
  BY DEF PubSubInv
<1>2. id \in Nat /\ id > 0
  <2>1. maxReq(p) \in Nat
    BY <1>1, maxReqType DEF PubSubTypeOK
  <2>. QED  BY <2>1
<1>3. /\ addReq(p, k0, id) /\ SendToServer(p, m)
      /\ UNCHANGED <<storeVars, linkVars, own, data_recv, entry, sync_time, writes, frees, serverVars>>
  BY DEF request
<1> HIDE DEF id
<1>4. ToServer(p, m) /\ m.kind = "req" /\ m.key = k0 /\ m.id = id
  BY <1>2 DEF ToServer, ReqMsg
<1> HIDE DEF m
<1>5. /\ DOMAIN sent' = Conn
      /\ \A c \in Conn \ {conn_of[p]} : sent'[c] = sent[c]
      /\ conn_of[p] # NoConn => sent'[conn_of[p]] = Append(sent[conn_of[p]], m)
      /\ \A c \in Conn : IsSequence(sent'[c])
      /\ \A c \in Conn : \A i \in DOMAIN sent'[c] : ToServer(owner[c], sent'[c][i])
      /\ \A c \in Conn : \A i \in DOMAIN sent'[c] :
            \/ i \in DOMAIN sent[c] /\ sent'[c][i] = sent[c][i]
            \/ owner[c] = p /\ sent'[c][i] = m
  BY <1>1, <1>3, <1>4, SentMessage
<1>6. /\ \A q \in Client \ {p} : req'[q] = req[q] /\ given'[q] = given[q]
      /\ \A q \in Client : given[q] \subseteq given'[q]
      /\ given'[p] = given[p] \cup {<<id, k0>>}
      /\ DOMAIN req'[p] = DOMAIN req[p] \cup {k0} /\ req'[p][k0] = id
      /\ \A k \in DOMAIN req[p] \ {k0} : req'[p][k] = req[p][k]
      /\ \A q \in Client : IsReq(q, req'[q]) /\ given'[q] \subseteq Nat \X Wanted[q]
      /\ DOMAIN req' = Client /\ DOMAIN given' = Client
      /\ GivenTo(given[p], req[p]) => GivenTo(given'[p], req'[p])
  BY <1>1, <1>2, <1>3, addReqStep
<1>7. PubSubTypeOK'
  <2>1. LinkTypeOK'
    BY <1>1, <1>3 DEF PubSubTypeOK, LinkTypeOK, StoreTypeOK, storeVars, linkVars
  <2>. QED  BY <1>1, <1>3, <1>5, <1>6, <2>1, TypeDomains
         DEF PubSubTypeOK, storeVars, linkVars, serverVars, IsReq
<1>8. IdsGiven'
  <2>1. ASSUME NEW c \in Conn, NEW i \in DOMAIN sent'[c]
        PROVE  /\ sent'[c][i].kind = "first" => GivenTo(given'[owner[c]], sent'[c][i].req)
               /\ sent'[c][i].kind = "req" => <<sent'[c][i].id, sent'[c][i].key>> \in given'[owner[c]]
    <3>1. given[owner[c]] \subseteq given'[owner[c]]
      BY <1>6, ClientAssumption
    <3>2. CASE i \in DOMAIN sent[c] /\ sent'[c][i] = sent[c][i]
      BY <1>1, <3>1, <3>2 DEF IdsGiven, GivenTo
    <3>3. CASE owner[c] = p /\ sent'[c][i] = m
      BY <1>4, <1>6, <3>3
    <3>. QED  BY <1>5, <3>2, <3>3
  <2>2. ASSUME NEW q \in Client PROVE GivenTo(given'[q], req'[q])
    <3>1. GivenTo(given[q], req[q])
      BY <1>1 DEF IdsGiven
    <3>. QED  BY <1>6, <3>1
  <2>3. ASSUME NEW c \in Conn PROVE GivenTo(given'[owner[c]], value_req'[c])
    <3>1. given[owner[c]] \subseteq given'[owner[c]] /\ value_req'[c] = value_req[c]
      BY <1>3, <1>6, ClientAssumption DEF serverVars
    <3>. QED  BY <1>1, <3>1 DEF IdsGiven, GivenTo
  <2>. QED  BY <2>1, <2>2, <2>3 DEF IdsGiven
<1>9. \A q \in Client \ {p} : ClientInv(q)'
  <2>1. /\ UNCHANGED <<clients, clients_by_id, name, sync_init, value, value_req, mixed>>
        /\ UNCHANGED <<conn_of, recv_queue, entry, data_recv>>
    BY <1>3 DEF storeVars, linkVars, serverVars
  <2>2. \A c \in Conn : owner[c] # p => sent'[c] = sent[c]
    <3>1. \A c \in Conn : owner[c] # p => c # conn_of[p]
      BY <1>1, ConnOf, ClientAssumption
    <3>. QED  BY <1>5, <3>1
  <2>. QED  BY <1>6, <2>1, <2>2, OthersUntouched
<1>10. ClientInv(p)'
  <2>1. UNCHANGED <<clients, clients_by_id, name, sync_init, value, value_req, mixed, conn_of, recv_queue, entry, data_recv>>
    BY <1>3 DEF storeVars, linkVars, serverVars
  <2>2. ASSUME conn_of[p] # NoConn
        PROVE  LET q == sent[conn_of[p]] IN
               /\ \A k : k # k0 => /\ Asking(Append(q, m), k) = Asking(q, k)
                                   /\ \A i \in Asking(q, k) : Append(q, m)[i] = q[i]
               /\ Len(q) + 1 \in Asking(Append(q, m), k0)
               /\ \A i \in Asking(Append(q, m), k0) : i <= Len(q) + 1
               /\ Append(q, m)[Len(q) + 1] = m /\ Len(q) + 1 # 0
    <3>1. IsSequence(sent[conn_of[p]])
      BY <1>1, <2>2, ConnOf DEF PubSubTypeOK
    <3>2. Len(sent[conn_of[p]]) \in Nat
      BY <3>1, SequenceSet
    <3> DEFINE q == sent[conn_of[p]]
               a == Append(q, m)
    <3>3. \A k : k # k0 => Asking(a, k) = Asking(q, k)
      BY <1>4, <3>1, AppendAsking
    <3>4. \A k : \A i \in Asking(q, k) : a[i] = q[i]
      BY <3>1, AppendAsking
    <3>5. Len(q) + 1 \in Asking(a, k0)
      BY <1>4, <3>1, AppendAsking
    <3>6. \A i \in Asking(a, k0) : i <= Len(q) + 1
      BY <3>1, AppendAsking
    <3>7. a[Len(q) + 1] = m
      BY <3>1, AppendSequence
    <3>8. Len(q) + 1 # 0
      BY <3>2
    <3> HIDE DEF q, a
    <3>9. /\ \A k : k # k0 => /\ Asking(a, k) = Asking(q, k)
                              /\ \A i \in Asking(q, k) : a[i] = q[i]
          /\ Len(q) + 1 \in Asking(a, k0) /\ \A i \in Asking(a, k0) : i <= Len(q) + 1
          /\ a[Len(q) + 1] = m /\ Len(q) + 1 # 0
      BY <3>3, <3>4, <3>5, <3>6, <3>7, <3>8
    <3>. QED  BY <3>9 DEF q, a
  <2>3. conn_of[p] # NoConn => \A k : k # k0 =>
                /\ Asking(sent'[conn_of[p]], k) = Asking(sent[conn_of[p]], k)
                /\ \A i \in Asking(sent[conn_of[p]], k) : sent'[conn_of[p]][i] = sent[conn_of[p]][i]
    BY <1>5, <2>2
  <2>4. conn_of[p] # NoConn =>
                \E i \in Asking(sent'[conn_of[p]], k0) :
                    /\ \A j \in Asking(sent'[conn_of[p]], k0) : j <= i
                    /\ i # 0 /\ sent'[conn_of[p]][i].kind = "req" /\ sent'[conn_of[p]][i].id = req'[p][k0]
    <3> SUFFICES ASSUME conn_of[p] # NoConn
                 PROVE  \E i \in Asking(sent'[conn_of[p]], k0) :
                            /\ \A j \in Asking(sent'[conn_of[p]], k0) : j <= i
                            /\ i # 0 /\ sent'[conn_of[p]][i].kind = "req" /\ sent'[conn_of[p]][i].id = req'[p][k0]
      OBVIOUS
    <3> DEFINE i == Len(sent[conn_of[p]]) + 1
               a == sent'[conn_of[p]]
    <3>1. i \in Asking(a, k0) /\ (\A j \in Asking(a, k0) : j <= i) /\ i # 0 /\ a[i] = m
      BY <1>5, <2>2
    <3> HIDE DEF i, a
    <3>2. a[i].kind = "req" /\ a[i].id = req'[p][k0]
      BY <1>4, <1>6, <3>1
    <3>. QED  BY <3>1, <3>2 DEF a
  <2>5. given[p] \subseteq given'[p] /\ \A k \in DOMAIN req'[p] \ {k0} : k \in DOMAIN req[p] /\ req'[p][k] = req[p][k]
    BY <1>6
  <2>. QED  BY <1>1, <2>1, <2>3, <2>4, <2>5, AskedClient
<1>. QED  BY <1>7, <1>8, <1>9, <1>10 DEF PubSubInv

LEMMA freeStep ==
    ASSUME PubSubInv, StoreInv', NEW p \in Client, NEW k0 \in Wanted[p], free(p, k0)
    PROVE  PubSubInv'
<1>1. PubSubTypeOK /\ IdsGiven /\ ClientInv(p)
  BY DEF PubSubInv
<1>2. /\ frees' = [frees EXCEPT ![p] = @ + 1]
      /\ data_recv' = [data_recv EXCEPT ![p] = Without(@, {k0})]
      /\ UNCHANGED <<storeVars, linkVars, own, entry, sync_time, writes, sent, serverVars>>
  BY DEF free
<1>3. /\ \A q \in Client \ {p} : req'[q] = req[q] /\ given'[q] = given[q]
      /\ \A q \in Client : given[q] \subseteq given'[q]
      /\ k0 \in DOMAIN req'[p] => req'[p][k0] = 0
      /\ \A k \in DOMAIN req'[p] \ {k0} : k \in DOMAIN req[p] /\ req'[p][k] = req[p][k]
      /\ \A q \in Client : IsReq(q, req'[q]) /\ given'[q] \subseteq Nat \X Wanted[q]
      /\ DOMAIN req' = Client /\ DOMAIN given' = Client
      /\ GivenTo(given'[p], req'[p])
  <2>1. GivenTo(given[p], req[p])
    BY <1>1 DEF IdsGiven
  <2>2. CASE k0 \in DOMAIN req[p] /\ req[p][k0] > 0
    <3> DEFINE new == Without(req[p], {k0})
    <3>1. req' = [req EXCEPT ![p] = new] /\ given' = given
      BY <2>2 DEF free
    <3>2. DOMAIN new = DOMAIN req[p] \ {k0} /\ \A k \in DOMAIN new : new[k] = req[p][k]
      BY DEF Without
    <3>3. IsReq(p, req[p]) /\ DOMAIN req = Client /\ DOMAIN given = Client
      BY <1>1, TypeDomains DEF PubSubTypeOK
    <3>4. new \in [DOMAIN new -> Nat]
      BY <3>3 DEF Without, IsReq, IsMap
    <3> HIDE DEF new
    <3>5. IsReq(p, new)
      BY <3>2, <3>3, <3>4 DEF IsReq, IsMap
    <3>6. \A q \in Client : IsReq(q, req'[q])
      BY <1>1, <3>1, <3>3, <3>5 DEF PubSubTypeOK
    <3>7. GivenTo(given[p], new)
      BY <2>1, <3>2 DEF GivenTo
    <3>8. \A q \in Client : given[q] \subseteq Nat \X Wanted[q]
      BY <1>1 DEF PubSubTypeOK
    <3>. QED  BY <3>1, <3>2, <3>3, <3>6, <3>7, <3>8
  <2>3. CASE ~(k0 \in DOMAIN req[p] /\ req[p][k0] > 0)
    <3>1. addReq(p, k0, 0)
      BY <2>3 DEF free
    <3>2. 0 \in Nat
      OBVIOUS
    <3>3. /\ \A q \in Client \ {p} : req'[q] = req[q] /\ given'[q] = given[q]
          /\ \A q \in Client : given[q] \subseteq given'[q]
          /\ given'[p] = given[p] \cup {<<0, k0>>}
          /\ DOMAIN req'[p] = DOMAIN req[p] \cup {k0} /\ req'[p][k0] = 0
          /\ \A k \in DOMAIN req[p] \ {k0} : req'[p][k] = req[p][k]
          /\ \A q \in Client : IsReq(q, req'[q]) /\ given'[q] \subseteq Nat \X Wanted[q]
          /\ DOMAIN req' = Client /\ DOMAIN given' = Client
          /\ GivenTo(given[p], req[p]) => GivenTo(given'[p], req'[p])
      BY <1>1, <3>1, <3>2, addReqStep
    <3>. QED  BY <2>1, <3>3
  <2>. QED  BY <2>2, <2>3
<1>4. /\ DOMAIN data_recv' = Client /\ \A q \in Client \ {p} : data_recv'[q] = data_recv[q]
      /\ DOMAIN data_recv'[p] = DOMAIN data_recv[p] \ {k0}
      /\ \A k \in DOMAIN data_recv[p] \ {k0} : data_recv'[p][k] = data_recv[p][k]
  BY <1>1, <1>2, TypeDomains DEF Without
<1>5. PubSubTypeOK'
  <2>1. LinkTypeOK'
    BY <1>1, <1>2 DEF PubSubTypeOK, LinkTypeOK, StoreTypeOK, storeVars, linkVars
  <2>2. \A q \in Client : DOMAIN data_recv'[q] \subseteq MName \X Seq(Word)
    BY <1>1, <1>4 DEF PubSubTypeOK
  <2>3. frees' \in [Client -> Nat]
    BY <1>1, <1>2 DEF PubSubTypeOK
  <2>. QED  BY <1>1, <1>2, <1>3, <1>4, <2>1, <2>2, <2>3, TypeDomains
         DEF PubSubTypeOK, storeVars, linkVars, serverVars, IsReq
<1>6. IdsGiven'
  <2>1. \A c \in Conn : given[owner[c]] \subseteq given'[owner[c]]
    BY <1>3, ClientAssumption
  <2>2. ASSUME NEW q \in Client PROVE GivenTo(given'[q], req'[q])
    <3>1. GivenTo(given[q], req[q])
      BY <1>1 DEF IdsGiven
    <3>. QED  BY <1>3, <3>1
  <2>. QED  BY <1>1, <1>2, <2>1, <2>2 DEF IdsGiven, GivenTo, serverVars
<1>7. /\ UNCHANGED <<clients, clients_by_id, name, sync_init, value, value_req, mixed>>
      /\ UNCHANGED <<conn_of, recv_queue, entry, sent>>
  BY <1>2 DEF storeVars, linkVars, serverVars
<1>8. \A q \in Client \ {p} : ClientInv(q)'
  BY <1>3, <1>4, <1>7, OthersUntouched
<1>9. ClientInv(p)'
  <2>1. conn_of[p] # NoConn => \A k : k # k0 =>
                /\ Asking(sent'[conn_of[p]], k) = Asking(sent[conn_of[p]], k)
                /\ \A i \in Asking(sent[conn_of[p]], k) : sent'[conn_of[p]][i] = sent[conn_of[p]][i]
    BY <1>7
  <2>2. ~(conn_of[p] # NoConn /\ k0 \in DOMAIN req'[p] /\ req'[p][k0] > 0)
    BY <1>3
  <2>3. /\ DOMAIN data_recv'[p] \subseteq DOMAIN data_recv[p]
        /\ \A k \in DOMAIN data_recv[p] \ {k0} : k \in DOMAIN data_recv'[p] /\ data_recv'[p][k] = data_recv[p][k]
    BY <1>4
  <2>. QED  BY <1>1, <1>3, <1>7, <2>1, <2>2, <2>3, AskedClient
<1>. QED  BY <1>5, <1>6, <1>8, <1>9 DEF PubSubInv

LEMMA ConnectStep ==
    ASSUME PubSubInv, StoreInv', NEW p \in Client, NEW c \in Conn, Connect(p, c)
    PROVE  PubSubInv'
<1> DEFINE m == FirstMsg(req[p], own[p], writes[p])
<1>1. PubSubTypeOK /\ IdsGiven /\ ClientInv(p) /\ StoreInv
  BY DEF PubSubInv
<1>2. /\ conn_of[p] = NoConn /\ owner[c] = p /\ newClient(c) /\ conn_of' = [conn_of EXCEPT ![p] = c]
      /\ sent' = [sent EXCEPT ![c] = <<m>>]
      /\ UNCHANGED <<recv_queue, clientVars, serverVars>>
  BY DEF Connect, connect
<1>3. ToServer(p, m) /\ m.kind = "first" /\ m.req = req[p]
  BY <1>1 DEF ToServer, FirstMsg, PubSubTypeOK
<1> HIDE DEF m
<1>4. UNCHANGED <<clients_by_id, name, sync_init>> /\ clients' = clients \cup {c} /\ ~sync_init[c]
  BY <1>1, <1>2 DEF newClient, StoreInv, StoreTypeOK, IdsBelowLast
<1>5. /\ DOMAIN sent' = Conn /\ sent'[c] = <<m>> /\ \A d \in Conn \ {c} : sent'[d] = sent[d]
      /\ conn_of'[p] = c /\ \A q \in Client \ {p} : conn_of'[q] = conn_of[q]
      /\ IsSequence(<<m>>) /\ DOMAIN <<m>> = {1} /\ <<m>>[1] = m
  BY <1>1, <1>2, TypeDomains DEF IsSequence
<1>6. PubSubTypeOK'
  <2>1. LinkTypeOK'
    BY <1>1, <1>2, <1>5 DEF PubSubTypeOK, LinkTypeOK, StoreInv
  <2>2. \A d \in Conn : IsSequence(sent'[d]) /\ \A i \in DOMAIN sent'[d] : ToServer(owner[d], sent'[d][i])
    BY <1>1, <1>2, <1>3, <1>5 DEF PubSubTypeOK
  <2>. QED  BY <1>1, <1>2, <1>4, <1>5, <2>1, <2>2, TypeDomains
         DEF PubSubTypeOK, clientVars, serverVars, IsReq
<1>7. IdsGiven'
  <2>1. ASSUME NEW d \in Conn, NEW i \in DOMAIN sent'[d]
        PROVE  /\ sent'[d][i].kind = "first" => GivenTo(given[owner[d]], sent'[d][i].req)
               /\ sent'[d][i].kind = "req" => <<sent'[d][i].id, sent'[d][i].key>> \in given[owner[d]]
    BY <1>1, <1>2, <1>3, <1>5 DEF IdsGiven
  <2>2. given' = given /\ req' = req /\ value_req' = value_req
    BY <1>2 DEF serverVars, clientVars
  <2>. QED  BY <1>1, <2>1, <2>2 DEF IdsGiven
<1>8. ASSUME NEW q \in Client, q # p PROVE ClientInv(q)'
  <2>1. conn_of[q] # NoConn => SameAsking(sent'[conn_of[q]], sent[conn_of[q]]) /\ conn_of[q] # c
    BY <1>1, <1>2, <1>5, <1>8, ConnOf DEF SameAsking
  <2>2. \A n \in Name : SameOf(n)
    BY <1>2, <1>4, SameOfAll DEF serverVars
  <2>3. Initialised(q)' => Initialised(q)
    BY <1>1, <1>4, <1>5, <1>8, <2>1, ConnOf, ClientAssumption DEF Initialised, StoreInv, StoreTypeOK
  <2>4. Untouched(q)
    BY <1>2, <1>5, <1>8, <2>1, <2>2, <2>3 DEF Untouched, clientVars, serverVars, SameOf
  <2>. QED  BY <1>1, <2>4, UntouchedClient DEF PubSubInv
<1>9. ClientInv(p)'
  <2>1. UNCHANGED <<recv_queue, given, req, entry, data_recv, value, value_req, mixed>>
    BY <1>2 DEF clientVars, serverVars
  <2>2. ~Initialised(p)'
    BY <1>4, <1>5 DEF Initialised
  <2>3. \A n : FoundName(n)' = FoundName(n)
    BY <1>4, SameEntry
  <2>4. ResultsRequested(p)'
    BY <1>1, <2>1, <2>3 DEF ClientInv, ResultsRequested, IsResult
  <2>5. OnlyOfFound(p)'
    BY <1>1, <2>1, <2>3 DEF ClientInv, OnlyOfFound, IdsDiffer
  <2>6. RequestsUnderWay(p)'
    <3> SUFFICES ASSUME NEW k \in DOMAIN req[p], req[p][k] > 0
                 PROVE  \E i \in {0} \cup Asking(sent'[c], k) :
                            /\ \A j \in Asking(sent'[c], k) : j <= i
                            /\ IF i = 0 THEN IdIn(value_req[c], k, req[p][k])
                               ELSE IF sent'[c][i].kind = "first" THEN IdIn(sent'[c][i].req, k, req[p][k])
                               ELSE sent'[c][i].id = req[p][k]
      BY <1>5, <2>1 DEF RequestsUnderWay
    <3>1. Asking(sent'[c], k) = {1} /\ sent'[c][1] = m
      BY <1>3, <1>5 DEF Asking
    <3>2. IdIn(m.req, k, req[p][k])
      BY <1>3 DEF IdIn
    <3>. QED  BY <1>3, <3>1, <3>2
  <2>. QED  BY <2>2, <2>4, <2>5, <2>6 DEF ClientInv, WillListAll, NothingOld, WillReadAll
<1>. QED  BY <1>6, <1>7, <1>8, <1>9 DEF PubSubInv

LEMMA DisconnectStep ==
    ASSUME PubSubInv, StoreInv', NEW p \in Client, Disconnect(p)
    PROVE  PubSubInv'
<1> DEFINE c == conn_of[p]
<1>1. PubSubTypeOK /\ IdsGiven /\ ClientInv(p)
  BY DEF PubSubInv
<1>2. /\ c # NoConn /\ conn_of' = [conn_of EXCEPT ![p] = NoConn]
      /\ UNCHANGED <<storeVars, recv_queue, clientVars, serverVars>>
  BY DEF Disconnect, disconnect
<1>3. c \in Conn /\ owner[c] = p
  BY <1>1, <1>2, ConnOf
<1>4. PICK k \in 0 .. Len(sent[c]) : sent' = [sent EXCEPT ![c] = SubSeq(@, 1, k)]
  BY DEF Disconnect
<1>5. /\ DOMAIN sent' = Conn /\ \A d \in Conn \ {c} : sent'[d] = sent[d]
      /\ IsSequence(sent'[c]) /\ \A i \in DOMAIN sent'[c] : i \in DOMAIN sent[c] /\ sent'[c][i] = sent[c][i]
      /\ conn_of'[p] = NoConn /\ \A q \in Client \ {p} : conn_of'[q] = conn_of[q]
  <2> DEFINE s == sent[c]
  <2>1. IsSequence(s) /\ k \in 0 .. Len(s)
    BY <1>1, <1>3 DEF PubSubTypeOK
  <2> HIDE DEF s
  <2>2. IsSequence(SubSeq(s, 1, k)) /\ \A i \in DOMAIN SubSeq(s, 1, k) : i \in DOMAIN s /\ SubSeq(s, 1, k)[i] = s[i]
    BY <2>1, PrefixSequence
  <2>3. sent'[c] = SubSeq(s, 1, k)
    BY <1>1, <1>3, <1>4, TypeDomains DEF s
  <2>4. DOMAIN sent' = Conn /\ (\A d \in Conn \ {c} : sent'[d] = sent[d])
        /\ conn_of'[p] = NoConn /\ \A q \in Client \ {p} : conn_of'[q] = conn_of[q]
    BY <1>1, <1>2, <1>4, TypeDomains
  <2>. QED  BY <2>2, <2>3, <2>4 DEF s
<1> HIDE DEF c
<1>6. PubSubTypeOK'
  <2>1. LinkTypeOK'
    BY <1>1, <1>2, <1>5 DEF PubSubTypeOK, LinkTypeOK, StoreTypeOK, storeVars
  <2>2. \A d \in Conn : IsSequence(sent'[d]) /\ \A i \in DOMAIN sent'[d] : ToServer(owner[d], sent'[d][i])
    BY <1>1, <1>3, <1>5 DEF PubSubTypeOK
  <2>. QED  BY <1>1, <1>2, <1>5, <2>1, <2>2, TypeDomains
         DEF PubSubTypeOK, storeVars, clientVars, serverVars, IsReq
<1>7. IdsGiven'
  BY <1>1, <1>2, <1>5 DEF IdsGiven, clientVars, serverVars
<1>8. ASSUME NEW q \in Client, q # p PROVE ClientInv(q)'
  <2>1. conn_of[q] # NoConn => SameAsking(sent'[conn_of[q]], sent[conn_of[q]])
    BY <1>1, <1>3, <1>5, <1>8, ConnOf DEF SameAsking
  <2>2. \A n \in Name : SameOf(n)
    BY <1>2, SameOfAll DEF storeVars, serverVars
  <2>3. Untouched(q)
    BY <1>2, <1>5, <1>8, <2>1, <2>2 DEF Untouched, Initialised, storeVars, clientVars, serverVars, SameOf
  <2>. QED  BY <1>1, <2>3, UntouchedClient DEF PubSubInv
<1>9. ClientInv(p)'
  <2>1. UNCHANGED <<recv_queue, given, req, entry, data_recv, value, value_req, mixed, clients, clients_by_id, name, sync_init>>
    BY <1>2 DEF clientVars, serverVars, storeVars
  <2>2. ~Initialised(p)'
    BY <1>1, <1>5, <2>1, ClientAssumption DEF Initialised, PubSubTypeOK, LinkTypeOK, StoreTypeOK
  <2>3. \A n : FoundName(n)' = FoundName(n)
    BY <2>1, SameEntry
  <2>4. ResultsRequested(p)'
    BY <1>1, <2>1, <2>3 DEF ClientInv, ResultsRequested, IsResult
  <2>5. OnlyOfFound(p)'
    BY <1>1, <2>1, <2>3 DEF ClientInv, OnlyOfFound, IdsDiffer
  <2>6. RequestsUnderWay(p)'
    BY <1>5 DEF RequestsUnderWay
  <2>. QED  BY <2>2, <2>4, <2>5, <2>6 DEF ClientInv, WillListAll, NothingOld, WillReadAll
<1>. QED  BY <1>6, <1>7, <1>8, <1>9 DEF PubSubInv

LEMMA CloseStep ==
    ASSUME PubSubInv, StoreInv', NEW c \in Conn, Close(c)
    PROVE  PubSubInv'
<1>1. PubSubTypeOK /\ IdsGiven /\ StoreInv
  BY DEF PubSubInv
<1>2. removeClient(c) /\ UNCHANGED <<conn_of, recv_queue, clientVars, sent, serverVars>>
  BY DEF Close, onClose
<1>3. UNCHANGED <<conn_of, recv_queue, sent, value, value_req, mixed, own, req, data_recv, entry, sync_time,
                  writes, frees, given>>
  BY <1>2 DEF clientVars, serverVars
<1>4. clients' \subseteq clients /\ UNCHANGED <<name, sync_init>>
  BY <1>2 DEF removeClient
<1>5. PubSubTypeOK'
  <2>1. LinkTypeOK'
    BY <1>1, <1>3 DEF PubSubTypeOK, LinkTypeOK, StoreInv
  <2>. QED  BY <1>1, <1>3, <1>4, <2>1 DEF PubSubTypeOK, IsReq
<1>6. IdsGiven'
  BY <1>1, <1>3 DEF IdsGiven
<1>7. ASSUME NEW n \in Name PROVE SameOf(n) /\ FoundName(n)' = FoundName(n)
  BY <1>1, <1>2, <1>3, RemovedEntry DEF SameOf, HasValue, ValueOf
<1>8. ASSUME NEW q \in Client PROVE ClientInv(q)'
  <2>1. conn_of[q] # NoConn => SameAsking(sent'[conn_of[q]], sent[conn_of[q]])
    BY <1>3 DEF SameAsking
  <2>2. Initialised(q)' => Initialised(q)
    BY <1>3, <1>4 DEF Initialised
  <2>3. Untouched(q)
    BY <1>3, <1>7, <2>1, <2>2 DEF Untouched
  <2>. QED  BY <1>1, <2>3, UntouchedClient DEF PubSubInv
<1>. QED  BY <1>5, <1>6, <1>8 DEF PubSubInv

LEMMA GetReqType ==
    ASSUME NEW p \in Client, IsReq(p, req[p]), NEW r, r.sub \in Seq(Word)
    PROVE  getReq(p, r) \in MName \X Seq(Word)
<1> DEFINE ks == {x \in DOMAIN req[p] : req[p][x] = r.id}
           h == CHOOSE x \in ks : TRUE
           g == h[2] \o r.sub
<1>1. CASE ks = {}
  <2>1. getReq(p, r) = <<NoName, <<>>>>
    BY <1>1 DEF getReq
  <2> DEFINE none == <<>>
  <2>2. none \in Seq(Word)
    OBVIOUS
  <2> HIDE DEF none
  <2>3. <<NoName, none>> \in MName \X Seq(Word)
    BY <2>2 DEF MName
  <2>. QED  BY <2>1, <2>3 DEF none
<1>2. CASE ks # {}
  <2>1. h \in DOMAIN req[p]
    BY <1>2
  <2>2. getReq(p, r) = <<h[1], g>>
    BY <1>2 DEF getReq
  <2> HIDE DEF h
  <2>3. h[1] \in Name /\ h[2] \in Seq(Word)
    BY <2>1, PubSubAssumption, FieldAssumption DEF IsReq, IsMap
  <2>4. g \in Seq(Word)
    BY <2>3, ConcatProperties
  <2> HIDE DEF g
  <2>. QED  BY <2>2, <2>3, <2>4 DEF MName
<1>. QED  BY <1>1, <1>2

LEMMA RecvTypes ==
    ASSUME PubSubInv, NEW p \in Client, Recv(p)
    PROVE  /\ PubSubTypeOK'
           /\ \A q \in Client \ {p} : /\ recv_queue'[q] = recv_queue[q] /\ entry'[q] = entry[q]
                                      /\ data_recv'[q] = data_recv[q]
           /\ recv_queue[p] # <<>> /\ recv_queue'[p] = Tail(recv_queue[p])
           /\ entry'[p] = {e \in entry[p] : e[1] \notin recv_queue[p][1].init} \cup recv_queue[p][1].entry
<1> DEFINE q == recv_queue[p]
<1>1. PubSubTypeOK
  BY DEF PubSubInv
<1>2. /\ q # <<>> /\ recv_queue' = [recv_queue EXCEPT ![p] = Tail(@)]
      /\ entry' = [entry EXCEPT ![p] = {e \in @ : e[1] \notin Head(q).init} \cup Head(q).entry]
      /\ sync_time' = [sync_time EXCEPT ![p] = Overwrite(@, Head(q).sync)]
      /\ UNCHANGED <<storeVars, conn_of, own, req, writes, frees, given, sent, serverVars>>
  BY DEF Recv
<1>3. IsSequence(q) /\ \A i \in DOMAIN q : ToClient(p, q[i])
  BY <1>1 DEF PubSubTypeOK
<1>4. /\ Head(q) = q[1] /\ 1 \in DOMAIN q /\ IsSequence(Tail(q)) /\ ToClient(p, q[1])
      /\ \A i \in DOMAIN Tail(q) : ToClient(p, Tail(q)[i])
  <2>1. /\ IsSequence(Tail(q)) /\ Len(q) \in Nat \ {0} /\ Head(q) = q[1] /\ 1 \in DOMAIN q
        /\ DOMAIN q = 1 .. Len(q) /\ DOMAIN Tail(q) = 1 .. Len(q) - 1
        /\ \A i \in 1 .. Len(q) - 1 : Tail(q)[i] = q[i + 1]
    BY <1>2, <1>3, TailSequence
  <2> HIDE DEF q
  <2>2. \A i \in DOMAIN Tail(q) : i + 1 \in DOMAIN q
    BY <2>1
  <2>. QED  BY <1>3, <2>1, <2>2
<1>5. /\ DOMAIN recv_queue' = Client /\ DOMAIN entry' = Client /\ DOMAIN sync_time' = Client
      /\ recv_queue'[p] = Tail(q) /\ \A r \in Client \ {p} : recv_queue'[r] = recv_queue[r]
      /\ entry'[p] = {e \in entry[p] : e[1] \notin q[1].init} \cup q[1].entry
      /\ \A r \in Client \ {p} : entry'[r] = entry[r] /\ sync_time'[r] = sync_time[r]
      /\ sync_time'[p] = Overwrite(sync_time[p], q[1].sync)
  BY <1>1, <1>2, <1>4, TypeDomains
<1>6. /\ DOMAIN data_recv' = Client /\ \A r \in Client \ {p} : data_recv'[r] = data_recv[r]
      /\ \A k \in DOMAIN data_recv'[p] : k \in DOMAIN data_recv[p] \/ \E r \in q[1].res : k = getReq(p, r)
  <2> DEFINE old(b) == Without(data_recv[p], b.init \X Seq(Word))
             for(b, k) == {r \in b.res : getReq(p, r) = k}
             lastFor(b, k) == LET f == LastOf({r.val.field : r \in for(b, k)}) IN
                              (CHOOSE r \in for(b, k) : r.val.field = f).val
             new(b) == [k \in {getReq(p, r) : r \in b.res} |-> lastFor(b, k)]
  <2>1. data_recv' = [data_recv EXCEPT ![p] = Overwrite(old(Head(q)), new(Head(q)))]
    BY DEF Recv
  <2>2. DOMAIN old(q[1]) \subseteq DOMAIN data_recv[p] /\ DOMAIN new(q[1]) = {getReq(p, r) : r \in q[1].res}
    BY DEF Without
  <2> HIDE DEF old, new
  <2>3. data_recv'[p] = Overwrite(old(q[1]), new(q[1]))
        /\ DOMAIN data_recv' = Client /\ \A r \in Client \ {p} : data_recv'[r] = data_recv[r]
    BY <1>1, <1>4, <2>1, TypeDomains
  <2>4. DOMAIN data_recv'[p] = DOMAIN old(q[1]) \cup DOMAIN new(q[1])
    BY <2>3 DEF Overwrite
  <2>. QED  BY <2>2, <2>3, <2>4
<1>7. \A r \in Client : DOMAIN data_recv'[r] \subseteq MName \X Seq(Word)
  <2>1. \A r \in q[1].res : getReq(p, r) \in MName \X Seq(Word)
    BY <1>1, <1>4, GetReqType DEF PubSubTypeOK, ToClient
  <2>2. \A r \in Client : DOMAIN data_recv[r] \subseteq MName \X Seq(Word)
    BY <1>1 DEF PubSubTypeOK
  <2> HIDE DEF q
  <2>3. DOMAIN data_recv'[p] \subseteq MName \X Seq(Word)
    BY <1>6, <2>1, <2>2
  <2>. QED  BY <1>6, <2>2, <2>3
<1>8. \A r \in Client : entry'[r] \subseteq (MName \ {MemberName[r]}) \X Field
  BY <1>1, <1>4, <1>5 DEF PubSubTypeOK, ToClient
<1>9. \A r \in Client : IsMap(sync_time'[r], MName, Nat)
  <2>1. IsMap(q[1].sync, MName, Nat)
    BY <1>4 DEF ToClient
  <2>2. \A r \in Client : IsMap(sync_time[r], MName, Nat)
    BY <1>1 DEF PubSubTypeOK
  <2> HIDE DEF q
  <2>3. IsMap(sync_time'[p], MName, Nat)
    BY <1>5, <2>1, <2>2, OverwriteMap
  <2>. QED  BY <1>5, <2>2, <2>3
<1>10. \A r \in Client : IsSequence(recv_queue'[r]) /\ \A i \in DOMAIN recv_queue'[r] : ToClient(r, recv_queue'[r][i])
  <2> SUFFICES ASSUME NEW r \in Client
               PROVE  IsSequence(recv_queue'[r]) /\ \A i \in DOMAIN recv_queue'[r] : ToClient(r, recv_queue'[r][i])
    OBVIOUS
  <2>1. IsSequence(recv_queue[r]) /\ \A i \in DOMAIN recv_queue[r] : ToClient(r, recv_queue[r][i])
    BY <1>1 DEF PubSubTypeOK
  <2>2. CASE r # p
    BY <1>5, <2>1, <2>2
  <2>3. CASE r = p
    <3>1. IsSequence(Tail(q)) /\ \A i \in DOMAIN Tail(q) : ToClient(p, Tail(q)[i])
      BY <1>4
    <3> HIDE DEF q
    <3>. QED  BY <1>5, <2>3, <3>1
  <2>. QED  BY <2>2, <2>3
<1>11. LinkTypeOK'
  BY <1>1, <1>2 DEF PubSubTypeOK, LinkTypeOK, StoreTypeOK, storeVars
<1>12. PubSubTypeOK'
  BY <1>1, <1>2, <1>5, <1>6, <1>7, <1>8, <1>9, <1>10, <1>11, TypeDomains
     DEF PubSubTypeOK, storeVars, serverVars, IsReq
<1>. QED  BY <1>2, <1>5, <1>6, <1>12

LEMMA RecvStep ==
    ASSUME PubSubInv, StoreInv', NEW p \in Client, Recv(p)
    PROVE  PubSubInv'
<1> DEFINE q == recv_queue[p]
           G == given[p]
           b == q[1]
<1>1. PubSubTypeOK /\ IdsGiven /\ ClientInv(p)
  BY DEF PubSubInv
<1>2. /\ PubSubTypeOK'
      /\ \A r \in Client \ {p} : /\ recv_queue'[r] = recv_queue[r] /\ entry'[r] = entry[r]
                                 /\ data_recv'[r] = data_recv[r]
      /\ q # <<>> /\ recv_queue'[p] = Tail(q)
      /\ entry'[p] = {e \in entry[p] : e[1] \notin b.init} \cup b.entry
  BY RecvTypes
<1>3. /\ UNCHANGED <<clients, clients_by_id, name, sync_init, value, value_req, mixed>>
      /\ UNCHANGED <<conn_of, req, given, sent>>
  BY DEF Recv, storeVars, serverVars
<1>4. IdsGiven'
  BY <1>1, <1>3 DEF IdsGiven
<1>5. \A r \in Client \ {p} : ClientInv(r)'
  BY <1>2, <1>3, OthersUntouched
<1>6. IsSequence(q) /\ 1 \in DOMAIN q /\ \A i \in DOMAIN Tail(q) : \E j \in DOMAIN q : Tail(q)[i] = q[j]
  <2>1. IsSequence(q)
    BY <1>1 DEF PubSubTypeOK
  <2>2. /\ Len(q) \in Nat \ {0} /\ 1 \in DOMAIN q
        /\ DOMAIN q = 1 .. Len(q) /\ DOMAIN Tail(q) = 1 .. Len(q) - 1
        /\ \A i \in 1 .. Len(q) - 1 : Tail(q)[i] = q[i + 1]
    BY <1>2, <2>1, TailSequence
  <2> HIDE DEF q
  <2>3. \A i \in DOMAIN Tail(q) : i + 1 \in DOMAIN q
    BY <2>2
  <2>. QED  BY <2>1, <2>2, <2>3
<1>7. /\ \A x : FoundName(x)' = FoundName(x)
      /\ \A k \in Name : SameOf(k)
      /\ (Initialised(p)' <=> Initialised(p)) /\ (IdsDiffer(p)' <=> IdsDiffer(p))
  BY <1>3, SameEntry, SameOfAll DEF Initialised, IdsDiffer
<1>8. ResultsRequested(p)'
  <2>1. \A j \in DOMAIN q : \A r \in q[j].res : IsResult(G, r)
    BY <1>1 DEF ClientInv, ResultsRequested
  <2>2. ASSUME NEW r, IsResult(G, r) PROVE IsResult(given[p], r)'
    BY <1>3, <1>7, <2>2 DEF IsResult
  <2>3. \A j \in DOMAIN recv_queue'[p] : \A r \in recv_queue'[p][j].res : IsResult(given[p], r)'
    BY <1>2, <1>6, <2>1, <2>2
  <2>. QED  BY <2>3 DEF ResultsRequested
<1>9. RequestsUnderWay(p)'
  BY <1>1, <1>3 DEF ClientInv, RequestsUnderWay
<1>10. WillListAll(p)'
  <2> SUFFICES ASSUME Initialised(p)', NEW n \in Name \ (mixed \cup {MemberName[p]}), FoundName(n) # {}, NEW f \in Field
               PROVE  WillList(Tail(q), entry'[p], <<n, f>>) <=> HasValue(n, f)' /\ Visible(f)
    BY <1>2, <1>3, <1>7 DEF WillListAll
  <2> DEFINE e == <<n, f>>
  <2>1. e \in entry'[p] <=> (e \in entry[p] /\ e[1] \notin b.init) \/ e \in b.entry
    BY <1>2
  <2>2. WillList(Tail(q), entry'[p], e) <=> WillList(q, entry[p], e)
    <3> HIDE DEF e, q
    <3>. QED  BY <1>2, <1>6, <2>1, WillListTail
  <2>3. WillList(q, entry[p], e) <=> HasValue(n, f) /\ Visible(f)
    BY <1>1, <1>7 DEF ClientInv, WillListAll
  <2>. QED  BY <1>7, <2>2, <2>3 DEF SameOf
<1>11. ASSUME IdsDiffer(p), NEW k \in Name \X Field
       PROVE  LET got == \E r \in b.res : getReq(p, r) = k
              IN  /\ k \in DOMAIN data_recv'[p] <=> (k \in DOMAIN data_recv[p] /\ k[1] \notin b.init) \/ got
                  /\ got /\ ~TakenFor(p, k) =>
                        \E r \in b.res : About(G, r, k) /\ data_recv'[p][k] = r.val
                  /\ ~got /\ k[1] \notin b.init /\ k \in DOMAIN data_recv[p] =>
                        data_recv'[p][k] = data_recv[p][k]
                  /\ got => FoundName(k[1]) # {}
  <2>1. ResultsRequested(p)
    BY <1>1 DEF ClientInv
  <2>. QED  BY <1>1, <1>11, <2>1, RecvData
<1>12. OnlyOfFound(p)'
  <2> SUFFICES ASSUME IdsDiffer(p), NEW k \in DOMAIN data_recv'[p], k \in Name \X Field PROVE FoundName(k[1]) # {}
    BY <1>7 DEF OnlyOfFound
  <2>1. CASE \E r \in b.res : getReq(p, r) = k
    BY <1>11, <2>1
  <2>2. CASE k \in DOMAIN data_recv[p]
    BY <1>1, <2>2 DEF ClientInv, OnlyOfFound
  <2>. QED  BY <1>11, <2>1, <2>2
<1>13. NothingOld(p)'
  <2> SUFFICES ASSUME Initialised(p), IdsDiffer(p), NEW n \in Name \ (mixed \cup {MemberName[p]}), NEW f \in Field,
                      WillHave(Tail(q), G, DOMAIN data_recv'[p], <<n, f>>), ~TakenFor(p, <<n, f>>)
               PROVE  HasValue(n, f)'
    BY <1>2, <1>3, <1>7 DEF NothingOld
  <2> DEFINE k == <<n, f>>
  <2>1. k \in DOMAIN data_recv'[p] => (k \in DOMAIN data_recv[p] /\ k[1] \notin b.init) \/ \E r \in b.res : About(G, r, k)
    BY <1>11
  <2>2. WillHave(q, G, DOMAIN data_recv[p], k)
    <3> HIDE DEF k, q
    <3>. QED  BY <1>2, <1>6, <2>1, WillHaveTail DEF k
  <2>. QED  BY <1>1, <1>7, <2>2 DEF ClientInv, NothingOld, SameOf
<1>14. WillReadAll(p)'
  <2> SUFFICES ASSUME Initialised(p), IdsDiffer(p), NEW k \in DOMAIN req[p], req[p][k] > 0, k[1] \notin mixed,
                      ~TakenFor(p, k), Asking(sent[conn_of[p]], k) = {}, HasValue(k[1], k[2])'
               PROVE  WillRead(Tail(q), G, data_recv'[p], k, req[p][k], ValueOf(k[1], k[2])')
    BY <1>2, <1>3, <1>7 DEF WillReadAll
  <2>1. k \in Name \X Field /\ IsReq(p, req[p])
    BY <1>1, PubSubAssumption DEF PubSubTypeOK, IsReq, IsMap
  <2> DEFINE id == req[p][k]
             v == ValueOf(k[1], k[2])
  <2>2. HasValue(k[1], k[2]) /\ ValueOf(k[1], k[2])' = v
    BY <1>3, SameValues
  <2>3. WillRead(q, G, data_recv[p], k, id, v)
    BY <1>1, <2>2 DEF ClientInv, WillReadAll
  <2>4. ASSUME NEW r \in b.res, r.id = id, r.sub = <<>> PROVE getReq(p, r) = k
    BY <1>1, <2>1, <2>4, ReqResult DEF IdsGiven
  <2> DEFINE got == \E r \in b.res : getReq(p, r) = k
  <2>5. /\ k \in DOMAIN data_recv'[p] <=> (k \in DOMAIN data_recv[p] /\ k[1] \notin b.init) \/ got
        /\ got => \E r \in b.res : About(G, r, k) /\ data_recv'[p][k] = r.val
        /\ ~got /\ k[1] \notin b.init /\ k \in DOMAIN data_recv[p] =>
              data_recv'[p][k] = data_recv[p][k]
    BY <1>11, <2>1
  <2>6. (\E r \in b.res : r.id = id /\ r.sub = <<>> /\ r.val = v) => got
    BY <2>4
  <2>7. got \in BOOLEAN
    OBVIOUS
  <2> HIDE DEF got, id, v, q, G
  <2>8. WillRead(Tail(q), G, data_recv'[p], k, id, v)
    BY <1>2, <1>6, <2>3, <2>5, <2>6, <2>7, WillReadTail
  <2>. QED  BY <2>2, <2>8 DEF id
<1>. QED  BY <1>1, <1>2, <1>4, <1>5, <1>8, <1>9, <1>10, <1>12, <1>13, <1>14 DEF PubSubInv, ClientInv

----------------------------------------------------------------------------
(* The order of the fields.                                                *)

Agree(f, g, n) == \A j \in 1 .. n : f[j] = g[j]

LEMMA SubSeqAgree ==
    ASSUME NEW f \in Seq(Nat), NEW g \in Seq(Nat), NEW n \in Nat, n <= Len(f), n <= Len(g)
    PROVE  SubSeq(f, 1, n) = SubSeq(g, 1, n) <=> Agree(f, g, n)
<1>1. \A i \in 1 .. n : f[i] \in Nat /\ g[i] \in Nat
  BY SMTT(30)
<1>2. /\ SubSeq(f, 1, n) \in Seq(Nat) /\ Len(SubSeq(f, 1, n)) = (IF 1 <= n THEN n - 1 + 1 ELSE 0)
      /\ \A i \in 1 .. n - 1 + 1 : SubSeq(f, 1, n)[i] = f[1 + i - 1]
  BY SMTT(30), <1>1, SubSeqProperties
<1>3. /\ SubSeq(g, 1, n) \in Seq(Nat) /\ Len(SubSeq(g, 1, n)) = (IF 1 <= n THEN n - 1 + 1 ELSE 0)
      /\ \A i \in 1 .. n - 1 + 1 : SubSeq(g, 1, n)[i] = g[1 + i - 1]
  BY <1>1, SubSeqProperties
<1> DEFINE s == SubSeq(f, 1, n)
           t == SubSeq(g, 1, n)
<1>4. Len(s) = n /\ Len(t) = n /\ \A i \in 1 .. n : s[i] = f[i] /\ t[i] = g[i]
  <2> HIDE DEF s, t
  <2>1. \A i \in 1 .. n : i \in 1 .. n - 1 + 1 /\ 1 + i - 1 = i
    OBVIOUS
  <2>. QED  BY <1>2, <1>3, <2>1 DEF s, t
<1>5. s \in Seq(Nat) /\ t \in Seq(Nat)
  BY <1>2, <1>3
<1> HIDE DEF s, t
<1>6. Agree(f, g, n) => s = t
  BY <1>4, <1>5, SeqEqual DEF Agree
<1>7. s = t => Agree(f, g, n)
  BY <1>4 DEF Agree
<1>. QED  BY <1>6, <1>7 DEF s, t

LEMMA BeforeMeans ==
    ASSUME NEW f \in Seq(Nat), NEW g \in Seq(Nat)
    PROVE  /\ IsPrefix(f, g) <=> Len(f) <= Len(g) /\ Agree(f, g, Len(f))
           /\ Before(f, g) <=>
                 \/ Len(f) < Len(g) /\ Agree(f, g, Len(f))
                 \/ \E i \in Nat \ {0} : i <= Len(f) /\ i <= Len(g) /\ f[i] < g[i] /\ Agree(f, g, i - 1)
<1>1. IsPrefix(f, g) <=> Len(f) <= Len(g) /\ Agree(f, g, Len(f))
  BY SMTT(30), SubSeqAgree DEF IsPrefix
<1>2. IsStrictPrefix(f, g) <=> Len(f) < Len(g) /\ Agree(f, g, Len(f))
  <2>1. CASE Len(f) = Len(g)
    <3>1. Agree(f, g, Len(f)) => f = g
      BY <2>1, SeqEqual DEF Agree
    <3>. QED  BY <1>1, <2>1, <3>1 DEF IsStrictPrefix
  <2>2. CASE Len(f) # Len(g)
    BY <1>1, <2>2 DEF IsStrictPrefix
  <2>. QED  BY <2>1, <2>2
<1>3. ASSUME NEW i \in Nat \ {0}, i <= Len(f), i <= Len(g)
      PROVE  SubSeq(f, 1, i - 1) = SubSeq(g, 1, i - 1) <=> Agree(f, g, i - 1)
  <2>1. i - 1 \in Nat /\ i - 1 <= Len(f) /\ i - 1 <= Len(g)
    BY <1>3
  <2>. QED  BY <2>1, SubSeqAgree
<1>4. \A i : i \in DOMAIN f \cap DOMAIN g <=> i \in Nat \ {0} /\ i <= Len(f) /\ i <= Len(g)
  OBVIOUS
<1>. QED  BY <1>1, <1>2, <1>3, <1>4 DEF Before

LEMMA BeforeTotal ==
    ASSUME NEW f \in Seq(Nat), NEW g \in Seq(Nat), f # g
    PROVE  Before(f, g) \/ Before(g, f)
<1> DEFINE D == {i \in Nat \ {0} : i <= Len(f) /\ i <= Len(g) /\ f[i] # g[i]}
<1>1. CASE D = {}
  <2>1. Len(f) \in Nat /\ Len(g) \in Nat
    OBVIOUS
  <2>2. \A i \in Nat \ {0} : i <= Len(f) /\ i <= Len(g) => f[i] = g[i]
    BY <1>1
  <2>3. CASE Len(f) < Len(g)
    BY <2>1, <2>2, <2>3, BeforeMeans DEF Agree
  <2>4. CASE Len(g) < Len(f)
    BY <2>1, <2>2, <2>4, BeforeMeans DEF Agree
  <2>5. CASE Len(f) = Len(g)
    <3>1. \A i \in 1 .. Len(f) : f[i] = g[i]
      BY <2>1, <2>2, <2>5
    <3>2. f = g
      BY <2>5, <3>1, SeqEqual
    <3>. QED  BY <3>2
  <2>. QED  BY <2>1, <2>3, <2>4, <2>5
<1>2. CASE D # {}
  <2>1. D \in SUBSET Nat
    OBVIOUS
  <2>2. PICK i \in D : \A j \in D : i <= j
    BY <1>2, <2>1, SmallestOf
  <2>3. i \in Nat \ {0} /\ i <= Len(f) /\ i <= Len(g) /\ f[i] # g[i] /\ f[i] \in Nat /\ g[i] \in Nat
    BY <2>2
  <2>4. \A j \in 1 .. i - 1 : f[j] = g[j] /\ g[j] = f[j]
    <3> SUFFICES ASSUME NEW j \in 1 .. i - 1, f[j] # g[j] PROVE FALSE
      OBVIOUS
    <3>1. j \in Nat \ {0} /\ j <= Len(f) /\ j <= Len(g) /\ ~(i <= j)
      BY <2>3
    <3>. QED  BY <2>2, <3>1
  <2>5. f[i] < g[i] \/ g[i] < f[i]
    BY <2>3
  <2>. QED  BY <2>3, <2>4, <2>5, BeforeMeans DEF Agree
<1>. QED  BY <1>1, <1>2

LEMMA BeforeTransitive ==
    ASSUME NEW f \in Seq(Nat), NEW g \in Seq(Nat), NEW h \in Seq(Nat), Before(f, g), Before(g, h)
    PROVE  Before(f, h)
<1>0. /\ Len(f) \in Nat /\ Len(g) \in Nat /\ Len(h) \in Nat
      /\ \A i \in Nat \ {0} : /\ i <= Len(f) => f[i] \in Nat
                              /\ i <= Len(g) => g[i] \in Nat
                              /\ i <= Len(h) => h[i] \in Nat
  OBVIOUS
<1>1. CASE Len(f) < Len(g) /\ Agree(f, g, Len(f))
  <2>1. CASE Len(g) < Len(h) /\ Agree(g, h, Len(g))
    <3>1. Len(f) < Len(h) /\ Agree(f, h, Len(f))
      BY <1>0, <1>1, <2>1 DEF Agree
    <3>. QED  BY <3>1, BeforeMeans
  <2>2. ASSUME NEW i \in Nat \ {0}, i <= Len(g), i <= Len(h), g[i] < h[i], Agree(g, h, i - 1) PROVE Before(f, h)
    <3>1. CASE i <= Len(f)
      <4>1. f[i] < h[i] /\ Agree(f, h, i - 1)
        BY <1>0, <1>1, <2>2, <3>1 DEF Agree
      <4>. QED  BY <2>2, <3>1, <4>1, BeforeMeans
    <3>2. CASE Len(f) < i
      <4>1. Len(f) < Len(h) /\ Agree(f, h, Len(f))
        BY <1>0, <1>1, <2>2, <3>2 DEF Agree
      <4>. QED  BY <4>1, BeforeMeans
    <3>. QED  BY <1>0, <3>1, <3>2
  <2>. QED  BY <2>1, <2>2, BeforeMeans
<1>2. ASSUME NEW i \in Nat \ {0}, i <= Len(f), i <= Len(g), f[i] < g[i], Agree(f, g, i - 1) PROVE Before(f, h)
  <2>1. CASE Len(g) < Len(h) /\ Agree(g, h, Len(g))
    <3>1. i <= Len(h) /\ f[i] < h[i] /\ Agree(f, h, i - 1)
      BY SMTT(30), <1>0, <1>2, <2>1 DEF Agree
    <3>. QED  BY <1>2, <3>1, BeforeMeans
  <2>2. ASSUME NEW j \in Nat \ {0}, j <= Len(g), j <= Len(h), g[j] < h[j], Agree(g, h, j - 1) PROVE Before(f, h)
    <3>1. CASE i <= j
      <4>1. i <= Len(h) /\ f[i] < h[i]
        <5>0. i <= Len(h)
          <6> DEFINE n == Len(h)
          <6>1. n \in Nat /\ i \in Nat /\ j \in Nat /\ i <= j /\ j <= n
            BY <1>2, <2>2, <3>1
          <6> HIDE DEF n
          <6>2. i <= n
            BY <6>1
          <6>. QED  BY <6>2 DEF n
        <5>1. i <= Len(h) /\ f[i] \in Nat /\ g[i] \in Nat /\ h[i] \in Nat
          BY <1>0, <1>2, <5>0
        <5>2. g[i] <= h[i]
          <6>1. CASE i = j
            BY <2>2, <5>1, <6>1
          <6>2. CASE i # j
            <7>1. i \in 1 .. j - 1
              BY <3>1, <6>2
            <7>. QED  BY <2>2, <5>1, <7>1 DEF Agree
          <6>. QED  BY <6>1, <6>2
        <5> DEFINE x == f[i]
                   y == g[i]
                   z == h[i]
        <5>3. x \in Nat /\ y \in Nat /\ z \in Nat /\ x < y /\ y <= z
          BY <1>2, <5>1, <5>2
        <5> HIDE DEF x, y, z
        <5>4. x < z
          BY <5>3
        <5>. QED  BY <5>1, <5>4 DEF x, z
      <4>2. Agree(f, h, i - 1)
        BY <1>2, <2>2, <3>1 DEF Agree
      <4>. QED  BY <1>2, <4>1, <4>2, BeforeMeans
    <3>2. CASE j < i
      <4>1. j <= Len(f)
        <5> DEFINE n == Len(f)
        <5>1. n \in Nat /\ i \in Nat /\ j \in Nat /\ j < i /\ i <= n
          BY <1>2, <2>2, <3>2
        <5> HIDE DEF n
        <5>2. j <= n
          BY <5>1
        <5>. QED  BY <5>2 DEF n
      <4>2. j \in 1 .. i - 1 /\ \A x \in 1 .. j - 1 : x \in 1 .. i - 1
        BY <3>2
      <4>3. f[j] = g[j] /\ Agree(f, h, j - 1)
        BY <1>2, <2>2, <4>2 DEF Agree
      <4>. QED  BY <2>2, <4>1, <4>3, BeforeMeans
    <3>. QED  BY <3>1, <3>2
  <2>. QED  BY <2>1, <2>2, BeforeMeans
<1>. QED  BY <1>1, <1>2, BeforeMeans

LEMMA FirstOfIn ==
    ASSUME NEW S \in SUBSET Field, S # {}
    PROVE  /\ FirstOf(S) \in S
           /\ \A f \in S : (\A g \in S : IsPrefix(f, g)) => FirstOf(S) = f
<1>1. S \subseteq Seq(Nat) /\ IsFiniteSet(S)
  BY FieldAssumption, FS_Subset DEF Word
<1> DEFINE R == {x \in Seq(Nat) \X Seq(Nat) : Before(x[1], x[2])}
<1>2. \A f, g \in Seq(Nat) : <<f, g>> \in R <=> Before(f, g)
  OBVIOUS
<1> HIDE DEF R
<1>3. \A f, g \in S : f = g \/ <<f, g>> \in R \/ <<g, f>> \in R
  BY <1>1, <1>2, BeforeTotal
<1>4. \A f, g, h \in S : <<f, g>> \in R /\ <<g, h>> \in R => <<f, h>> \in R
  BY <1>1, <1>2, BeforeTransitive
<1>5. PICK f \in S : \A g \in S \ {f} : <<f, g>> \in R
  BY <1>1, <1>3, <1>4, FirstOfFinite
<1>6. \E f1 \in S : \A g \in S \ {f1} : Before(f1, g)
  BY <1>1, <1>2, <1>5
<1>7. FirstOf(S) \in S /\ \A g \in S \ {FirstOf(S)} : Before(FirstOf(S), g)
  BY <1>6 DEF FirstOf
<1>8. ASSUME NEW f1 \in S, \A g \in S : IsPrefix(f1, g), FirstOf(S) # f1 PROVE FALSE
  <2> DEFINE h == FirstOf(S)
  <2>1. h \in Seq(Nat) /\ f1 \in Seq(Nat) /\ Before(h, f1) /\ IsPrefix(f1, h)
    BY <1>1, <1>7, <1>8
  <2> HIDE DEF h
  <2>2. Len(h) \in Nat /\ Len(f1) \in Nat /\ Len(f1) <= Len(h) /\ Agree(f1, h, Len(f1))
    BY <2>1, BeforeMeans
  <2>3. PICK i \in Nat \ {0} : i <= Len(h) /\ i <= Len(f1) /\ h[i] < f1[i] /\ Agree(h, f1, i - 1)
    <3>1. \/ Len(h) < Len(f1) /\ Agree(h, f1, Len(h))
          \/ \E i \in Nat \ {0} : i <= Len(h) /\ i <= Len(f1) /\ h[i] < f1[i] /\ Agree(h, f1, i - 1)
      BY <2>1, BeforeMeans
    <3>2. ~(Len(h) < Len(f1))
      BY <2>2
    <3>. QED  BY <3>1, <3>2
  <2>4. h[i] = f1[i] /\ h[i] \in Nat
    BY <2>1, <2>2, <2>3 DEF Agree
  <2>. QED  BY <2>3, <2>4
<1>. QED  BY <1>7, <1>8

----------------------------------------------------------------------------
(* What the server sends.                                                  *)

\* r is for a field of n that has been requested with the ids G.
ResultOf(G, r, n) ==
    \E x \in G : LET f == x[2][2] IN
        /\ x[1] = r.id /\ x[2][1] = n
        /\ \/ IsPrefix(f, r.val.field) /\ r.sub = Suffix(f, r.val.field)
           \/ IsPrefix(r.val.field, f) /\ r.sub = Suffix(r.val.field, f)

LEMMA ReqFieldFound ==
    ASSUME NEW p \in Client, NEW reqs, IsReq(p, reqs), NEW n, NEW f \in Field,
           findReqField(reqs, n, f).id > 0
    PROVE  \E h \in Field : /\ <<n, h>> \in DOMAIN reqs /\ IsPrefix(f, h)
                            /\ findReqField(reqs, n, f).id = reqs[<<n, h>>]
                            /\ findReqField(reqs, n, f).sub = Suffix(f, h)
<1> DEFINE ks == {x \in DOMAIN reqs : x[1] = n /\ IsPrefix(f, x[2])}
           fs == {k[2] : k \in ks}
           h == FirstOf(fs)
<1>1. fs # {}
  BY DEF findReqField
<1>2. DOMAIN reqs \subseteq Name \X Field
  BY PubSubAssumption DEF IsReq, IsMap
<1>3. fs \in SUBSET Field
  BY <1>2
<1>4. h \in fs
  BY <1>1, <1>3, FirstOfIn
<1>5. findReqField(reqs, n, f) = [id |-> reqs[<<n, h>>], sub |-> Suffix(f, h)]
  BY <1>1 DEF findReqField
<1> HIDE DEF h
<1>6. PICK k \in DOMAIN reqs : k[1] = n /\ IsPrefix(f, k[2]) /\ h = k[2]
  BY <1>4
<1>7. k = <<n, h>> /\ h \in Field
  BY <1>2, <1>6
<1>. QED  BY <1>5, <1>6, <1>7

LEMMA ReqFieldOwn ==
    ASSUME NEW p \in Client, NEW reqs, IsReq(p, reqs), NEW n, NEW f \in Field, <<n, f>> \in DOMAIN reqs
    PROVE  findReqField(reqs, n, f) = [id |-> reqs[<<n, f>>], sub |-> <<>>]
<1> DEFINE ks == {x \in DOMAIN reqs : x[1] = n /\ IsPrefix(f, x[2])}
           fs == {k[2] : k \in ks}
<1>1. DOMAIN reqs \subseteq Name \X Field /\ f \in Seq(Word)
  BY PubSubAssumption, FieldAssumption DEF IsReq, IsMap
<1>2. IsPrefix(f, f) /\ Suffix(f, f) = <<>>
  BY <1>1, SuffixOfItself
<1>3. <<n, f>>[1] = n /\ <<n, f>>[2] = f
  OBVIOUS
<1>4. <<n, f>> \in ks
  BY <1>2, <1>3
<1>5. fs \in SUBSET Field /\ f \in fs /\ \A g \in fs : IsPrefix(f, g)
  BY <1>1, <1>3, <1>4
<1>6. FirstOf(fs) = f
  BY <1>5, FirstOfIn
<1>7. findReqField(reqs, n, f) = [id |-> reqs[<<n, FirstOf(fs)>>], sub |-> Suffix(f, FirstOf(fs))]
  BY <1>5 DEF findReqField
<1>. QED  BY <1>2, <1>6, <1>7

\* The results that a member is sent with new data of n.
LEMMA NewDataResults ==
    ASSUME NEW p \in Client, NEW reqs, IsReq(p, reqs), NEW G, GivenTo(G, reqs),
           NEW n, NEW d, NEW news, NEW data, IsData(data), NEW time,
           NEW r \in NewData(n, d, reqs, news, data, time).res
    PROVE  /\ ResultOf(G, r, n) /\ n \in Name
           /\ r.val.field \in DOMAIN data /\ r.val = data[r.val.field]
           /\ r \in [id : Nat, sub : Seq(Word), val : [field : Field, n : Nat]]
<1>1. PICK f \in DOMAIN data : /\ findReqField(reqs, n, f).id > 0
                               /\ r = Res(findReqField(reqs, n, f).id, findReqField(reqs, n, f).sub, data[f])
  BY DEF NewData, Batch
<1>2. f \in Field /\ data[f] \in [field : Field, n : Nat] /\ data[f].field = f
  BY DEF IsData, IsMap
<1>3. PICK h \in Field : /\ <<n, h>> \in DOMAIN reqs /\ IsPrefix(f, h)
                         /\ findReqField(reqs, n, f).id = reqs[<<n, h>>]
                         /\ findReqField(reqs, n, f).sub = Suffix(f, h)
  <2>1. f \in Field /\ findReqField(reqs, n, f).id > 0
    BY <1>1, <1>2
  <2>. QED  BY <2>1, ReqFieldFound
<1>4. r.id = reqs[<<n, h>>] /\ r.sub = Suffix(f, h) /\ r.val = data[f] /\ r.val.field = f
      /\ r = [id |-> r.id, sub |-> r.sub, val |-> r.val]
  BY <1>1, <1>2, <1>3 DEF Res
<1>5. <<n, h>> \in Name \X Field /\ reqs[<<n, h>>] \in Nat
  BY <1>3, PubSubAssumption DEF IsReq, IsMap
<1>6. Suffix(f, h) \in Seq(Word)
  BY <1>2, <1>3, FieldAssumption, SuffixCompletes
<1> DEFINE x == <<reqs[<<n, h>>], <<n, h>>>>
<1>7. x \in G /\ x[1] = reqs[<<n, h>>] /\ x[2][1] = n /\ x[2][2] = h
  BY <1>3 DEF GivenTo
<1> HIDE DEF x
<1>8. ResultOf(G, r, n)
  BY <1>3, <1>4, <1>7 DEF ResultOf
<1>9. r \in [id : Nat, sub : Seq(Word), val : [field : Field, n : Nat]]
  BY <1>2, <1>4, <1>5, <1>6
<1>. QED  BY <1>1, <1>4, <1>5, <1>8, <1>9

LEMMA NewDataAnswers ==
    ASSUME NEW p \in Client, NEW reqs, IsReq(p, reqs), NEW n, NEW d, NEW news, NEW data, IsData(data), NEW time,
           NEW k \in DOMAIN reqs, k[1] = n, k[2] \in DOMAIN data, reqs[k] > 0
    PROVE  \E r \in NewData(n, d, reqs, news, data, time).res :
              r.id = reqs[k] /\ r.sub = <<>> /\ r.val = data[k[2]]
<1>1. k[2] \in Field /\ k = <<n, k[2]>>
  BY PubSubAssumption DEF IsReq, IsMap
<1>2. findReqField(reqs, n, k[2]) = [id |-> reqs[k], sub |-> <<>>]
  BY <1>1, ReqFieldOwn
<1>3. findReqField(reqs, n, k[2]).id = reqs[k] /\ findReqField(reqs, n, k[2]).sub = <<>>
  BY <1>2
<1> DEFINE f == k[2]
           r == Res(findReqField(reqs, n, f).id, findReqField(reqs, n, f).sub, data[f])
<1>4. r \in NewData(n, d, reqs, news, data, time).res
  BY <1>3 DEF NewData, Batch
<1>5. r.id = reqs[k] /\ r.sub = <<>> /\ r.val = data[k[2]]
  BY <1>3 DEF Res
<1>. QED  BY <1>4, <1>5

\* The results with which a request is answered.
LEMMA AnswerResults ==
    ASSUME StoreInv, PubSubTypeOK, NEW p \in Client, NEW k0 \in Wanted[p], NEW id \in Nat, NEW G, <<id, k0>> \in G,
           NEW r \in Answers(k0, id)
    PROVE  /\ ResultOf(G, r, k0[1]) /\ k0[1] \in Name /\ FoundName(k0[1]) # {}
           /\ HasValue(k0[1], r.val.field) /\ r.val = ValueOf(k0[1], r.val.field)
           /\ r \in [id : Nat, sub : Seq(Word), val : [field : Field, n : Nat]]
<1> DEFINE now == value[EntryOf(k0[1])]
<1>1. k0 \in Name \X Field /\ k0[1] \in Name /\ k0[2] \in Seq(Word)
  BY PubSubAssumption, FieldAssumption
<1>2. FoundName(k0[1]) # {}
  BY DEF Answers
<1>3. EntryOf(k0[1]) \in Conn
  BY <1>1, <1>2, FoundEntry
<1>4. IsData(now)
  BY <1>3 DEF PubSubTypeOK
<1>5. PICK f \in DOMAIN now : IsPrefix(k0[2], f) /\ r = Res(id, Suffix(k0[2], f), now[f])
  BY <1>2 DEF Answers
<1>6. f \in Field /\ now[f] \in [field : Field, n : Nat] /\ now[f].field = f
  BY <1>4, <1>5 DEF IsData, IsMap
<1>7. Suffix(k0[2], f) \in Seq(Word)
  BY <1>1, <1>5, <1>6, FieldAssumption, SuffixCompletes
<1>8. r.id = id /\ r.sub = Suffix(k0[2], f) /\ r.val = now[f] /\ r.val.field = f
      /\ r = [id |-> r.id, sub |-> r.sub, val |-> r.val]
  BY <1>5, <1>6 DEF Res
<1>9. HasValue(k0[1], f) /\ now[f] = ValueOf(k0[1], f)
  BY <1>2 DEF HasValue, ValueOf
<1>10. ResultOf(G, r, k0[1])
  BY <1>5, <1>8 DEF ResultOf
<1>11. r \in [id : Nat, sub : Seq(Word), val : [field : Field, n : Nat]]
  BY <1>6, <1>7, <1>8
<1>. QED  BY <1>1, <1>2, <1>8, <1>9, <1>10, <1>11

LEMMA AnswerOfItself ==
    ASSUME NEW p \in Client, NEW k0 \in Wanted[p], NEW id, HasValue(k0[1], k0[2])
    PROVE  \E r \in Answers(k0, id) : r.id = id /\ r.sub = <<>> /\ r.val = ValueOf(k0[1], k0[2])
<1>1. k0[2] \in Seq(Word)
  BY PubSubAssumption, FieldAssumption
<1>2. IsPrefix(k0[2], k0[2]) /\ Suffix(k0[2], k0[2]) = <<>>
  BY <1>1, SuffixOfItself
<1> DEFINE r == Res(id, Suffix(k0[2], k0[2]), value[EntryOf(k0[1])][k0[2]])
<1>3. r \in Answers(k0, id)
  BY <1>2 DEF Answers, HasValue
<1>4. r.id = id /\ r.sub = <<>> /\ r.val = ValueOf(k0[1], k0[2])
  BY <1>2 DEF Res, ValueOf
<1>. QED  BY <1>3, <1>4

LEMMA ResultIsAbout ==
    ASSUME NEW G, \A x, y \in G : x[1] = y[1] => x = y, NEW r, NEW n, ResultOf(G, r, n), NEW k, About(G, r, k)
    PROVE  k[1] = n /\ k[2] = r.val.field
BY DEF ResultOf, About

\* A client is told with the batch b what has become of the data of one member, or, as
\* the first of a connection, of all that it has to know of: it will know what is right.
LEMMA ToldClient ==
    ASSUME NEW p \in Client, PubSubTypeOK, ClientInv(p), NEW b, Grows(recv_queue[p], recv_queue'[p], b),
           conn_of'[p] = conn_of[p], entry'[p] = entry[p], data_recv'[p] = data_recv[p],
           given'[p] = given[p], req'[p] = req[p], mixed \subseteq mixed',
           \A n \in Name : FoundName(n) # {} => FoundName(n)' # {},
           \A r \in b.res : \E n \in Name :
                /\ FoundName(n)' # {} /\ ResultOf(given[p], r, n) /\ r.val.field \in Field
                /\ n \notin mixed' => HasValue(n, r.val.field)' /\ r.val = ValueOf(n, r.val.field)',
           Initialised(p)' => \A n \in Name \ (mixed' \cup {MemberName[p]}) : FoundName(n)' # {} =>
                /\ n \in b.init \/ (Initialised(p) /\ FoundName(n) # {})
                /\ \A f \in Field :
                      (HasValue(n, f)' /\ Visible(f)) <=>
                          <<n, f>> \in b.entry \/ (n \notin b.init /\ HasValue(n, f) /\ Visible(f)),
           Initialised(p)' => \A n \in Name \ (mixed' \cup {MemberName[p]}) :
                \/ n \in b.init \/ FoundName(n) = {}
                \/ Initialised(p) /\ \A f \in Field : HasValue(n, f) => HasValue(n, f)',
           Initialised(p)' => \A k \in DOMAIN req[p] :
                (/\ req[p][k] > 0 /\ k[1] \notin mixed'
                 /\ Asking(sent'[conn_of[p]], k) = {} /\ HasValue(k[1], k[2])') =>
                    \/ /\ Initialised(p) /\ Asking(sent[conn_of[p]], k) = {} /\ HasValue(k[1], k[2])
                       /\ ValueOf(k[1], k[2])' = ValueOf(k[1], k[2]) /\ k[1] \notin b.init
                    \/ \E r \in b.res : r.id = req[p][k] /\ r.sub = <<>> /\ r.val = ValueOf(k[1], k[2])'
    PROVE  ResultsRequested(p)' /\ WillListAll(p)' /\ OnlyOfFound(p)' /\ NothingOld(p)' /\ WillReadAll(p)'
<1> DEFINE q == recv_queue[p]
           q2 == recv_queue'[p]
           G == given[p]
<1>1. /\ conn_of'[p] = conn_of[p] /\ entry'[p] = entry[p] /\ data_recv'[p] = data_recv[p]
      /\ given'[p] = G /\ req'[p] = req[p] /\ mixed \subseteq mixed'
      /\ \A n \in Name : FoundName(n) # {} => FoundName(n)' # {}
      /\ Grows(q, q2, b)
  OBVIOUS
<1>2. IdsDiffer(p)' <=> IdsDiffer(p)
  BY <1>1 DEF IdsDiffer
<1>3. \A x \in G : x[2][1] \in Name
  BY PubSubAssumption DEF PubSubTypeOK
<1>4. ResultsRequested(p)'
  <2>1. \A j \in DOMAIN q : \A r \in q[j].res : IsResult(G, r)
    BY DEF ClientInv, ResultsRequested
  <2>2. ASSUME NEW r, IsResult(G, r) PROVE IsResult(given[p], r)'
    BY <1>1, <1>3, <2>2 DEF IsResult
  <2>3. ASSUME NEW r \in b.res PROVE IsResult(given[p], r)'
    <3>1. PICK n \in Name : FoundName(n)' # {} /\ ResultOf(G, r, n)
      OBVIOUS
    <3>. QED  BY <1>1, <3>1 DEF IsResult, ResultOf
  <2>4. \A j \in DOMAIN q2 : \A r \in q2[j].res : IsResult(given[p], r)'
    <3> SUFFICES ASSUME NEW j \in DOMAIN q2, NEW r \in q2[j].res PROVE IsResult(given[p], r)'
      OBVIOUS
    <3> HIDE DEF q, q2
    <3>1. (j \in DOMAIN q /\ q2[j] = q[j]) \/ q2[j] = b
      BY <1>1 DEF Grows
    <3>2. CASE j \in DOMAIN q /\ q2[j] = q[j]
      BY <2>1, <2>2, <3>2
    <3>3. CASE q2[j] = b
      BY <2>3, <3>3
    <3>. QED  BY <3>1, <3>2, <3>3
  <2>. QED  BY <2>4 DEF ResultsRequested
<1>5. WillListAll(p)'
  <2> SUFFICES ASSUME Initialised(p)', NEW n \in Name \ (mixed' \cup {MemberName[p]}), FoundName(n)' # {}, NEW f \in Field
               PROVE  WillList(q2, entry[p], <<n, f>>) <=> HasValue(n, f)' /\ Visible(f)
    BY <1>1 DEF WillListAll
  <2> DEFINE e == <<n, f>>
  <2>1. WillList(q2, entry[p], e) <=> e \in b.entry \/ (WillList(q, entry[p], e) /\ n \notin b.init)
    <3>1. e[1] = n
      OBVIOUS
    <3> HIDE DEF e, q, q2
    <3>. QED  BY <1>1, <3>1, WillListGrows
  <2>2. (HasValue(n, f)' /\ Visible(f)) <=>
            \/ e \in b.entry
            \/ n \notin b.init /\ HasValue(n, f) /\ Visible(f)
    OBVIOUS
  <2>3. CASE n \in b.init
    BY <2>1, <2>2, <2>3
  <2>4. CASE n \notin b.init
    <3>1. Initialised(p) /\ FoundName(n) # {}
      BY <2>4
    <3>2. WillList(q, entry[p], e) <=> HasValue(n, f) /\ Visible(f)
      BY <1>1, <3>1 DEF ClientInv, WillListAll
    <3>. QED  BY <2>1, <2>2, <2>4, <3>2
  <2>. QED  BY <2>3, <2>4
<1>6. OnlyOfFound(p)'
  BY <1>1, <1>2 DEF ClientInv, OnlyOfFound
<1>7. ASSUME IdsDiffer(p), NEW k \in Name \X Field, NEW r \in b.res, About(G, r, k), k[1] \notin mixed'
      PROVE  HasValue(k[1], k[2])' /\ r.val = ValueOf(k[1], k[2])'
  <2>1. PICK n \in Name : /\ ResultOf(given[p], r, n)
                          /\ n \notin mixed' => HasValue(n, r.val.field)' /\ r.val = ValueOf(n, r.val.field)'
    OBVIOUS
  <2>2. k[1] = n /\ k[2] = r.val.field
    BY <1>7, <2>1, ResultIsAbout DEF IdsDiffer
  <2>3. PICK f : f = k[2]
    OBVIOUS
  <2>4. HasValue(n, f)' /\ r.val = ValueOf(n, f)'
    BY <1>7, <2>1, <2>2, <2>3
  <2>. QED  BY <2>2, <2>3, <2>4 DEF HasValue, ValueOf
<1>8. NothingOld(p)'
  <2> SUFFICES ASSUME Initialised(p)', IdsDiffer(p), NEW n \in Name \ (mixed' \cup {MemberName[p]}), NEW f \in Field,
                      WillHave(q2, G, DOMAIN data_recv[p], <<n, f>>), ~TakenFor(p, <<n, f>>)
               PROVE  HasValue(n, f)'
    BY <1>1, <1>2 DEF NothingOld
  <2> DEFINE k == <<n, f>>
  <2>0. /\ k[1] = n /\ k[2] = f /\ k \in Name \X Field /\ WillHave(q2, G, DOMAIN data_recv[p], k)
        /\ ~TakenFor(p, k)
    OBVIOUS
  <2> HIDE DEF k, q, q2
  <2>1. (\E r \in b.res : About(G, r, k)) \/ (WillHave(q, G, DOMAIN data_recv[p], k) /\ n \notin b.init)
    BY <1>1, <2>0, WillHaveGrows
  <2>2. CASE \E r \in b.res : About(G, r, k)
    BY <1>7, <2>0, <2>2
  <2>3. CASE WillHave(q, G, DOMAIN data_recv[p], k) /\ n \notin b.init
    <3>1. FoundName(n) # {}
      <4>1. CASE k \in DOMAIN data_recv[p]
        BY <2>0, <4>1 DEF ClientInv, OnlyOfFound
      <4>2. CASE \E j \in DOMAIN q : \E r \in q[j].res : About(G, r, k)
        <5>1. PICK j \in DOMAIN q : \E r \in q[j].res : About(G, r, k)
          BY <4>2
        <5>3. PICK r \in q[j].res : About(G, r, k)
          BY <5>1
        <5>2. IsResult(G, r)
          BY <5>1, <5>3 DEF ClientInv, ResultsRequested, q
        <5>. QED  BY <2>0, <5>2, <5>3 DEF IsResult, About, IdsDiffer
      <4>. QED  BY <2>3, <4>1, <4>2 DEF WillHave
    <3>2. Initialised(p) /\ \A g \in Field : HasValue(n, g) => HasValue(n, g)'
      BY <2>3, <3>1
    <3>3. HasValue(n, f)
      BY <1>1, <2>0, <2>3, <3>2 DEF ClientInv, NothingOld, k, q
    <3>. QED  BY <3>2, <3>3
  <2>. QED  BY <2>1, <2>2, <2>3
<1>9. WillReadAll(p)'
  <2> SUFFICES ASSUME Initialised(p)', IdsDiffer(p), NEW k \in DOMAIN req[p], req[p][k] > 0, k[1] \notin mixed',
                      ~TakenFor(p, k), Asking(sent'[conn_of[p]], k) = {}, HasValue(k[1], k[2])'
               PROVE  WillRead(q2, G, data_recv[p], k, req[p][k], ValueOf(k[1], k[2])')
    BY <1>1, <1>2 DEF WillReadAll
  <2>1. k \in Name \X Field
    BY PubSubAssumption DEF PubSubTypeOK, IsReq, IsMap
  <2>2. PICK v : v = ValueOf(k[1], k[2])'
    OBVIOUS
  <2>3. \A r \in b.res : About(G, r, k) => r.val = v
    BY <1>7, <2>1, <2>2
  <2>4. \/ /\ Initialised(p) /\ Asking(sent[conn_of[p]], k) = {} /\ HasValue(k[1], k[2])
           /\ ValueOf(k[1], k[2])' = ValueOf(k[1], k[2]) /\ k[1] \notin b.init
        \/ \E r \in b.res : r.id = req[p][k] /\ r.sub = <<>> /\ r.val = ValueOf(k[1], k[2])'
    OBVIOUS
  <2>5. \/ WillRead(q, G, data_recv[p], k, req[p][k], v) /\ k[1] \notin b.init
        \/ \E r \in b.res : r.id = req[p][k] /\ r.sub = <<>> /\ r.val = v
    <3>1. CASE /\ Initialised(p) /\ Asking(sent[conn_of[p]], k) = {} /\ HasValue(k[1], k[2])
               /\ ValueOf(k[1], k[2])' = ValueOf(k[1], k[2]) /\ k[1] \notin b.init
      <4>1. WillRead(q, G, data_recv[p], k, req[p][k], ValueOf(k[1], k[2]))
        BY <1>1, <3>1 DEF ClientInv, WillReadAll
      <4>. QED  BY <2>2, <3>1, <4>1
    <3>. QED  BY <2>2, <2>4, <3>1
  <2> HIDE DEF q, q2, G
  <2>6. WillRead(q2, G, data_recv[p], k, req[p][k], v)
    BY <1>1, <2>3, <2>5, WillReadGrows
  <2>. QED  BY <2>2, <2>6
<1>. QED  BY <1>4, <1>5, <1>6, <1>8, <1>9

\* With the message m, after the requests reqs, k is requested with the given id.
Asks(m, k) == m.kind = "first" \/ (m.kind = "req" /\ m.key = k)
AskedWith(reqs, m, k, id) ==
    IF m.kind = "first" THEN IdIn(m.req, k, id)
    ELSE IF m.kind = "req" /\ m.key = k THEN m.id = id ELSE IdIn(reqs, k, id)

LEMMA TailAsking ==
    ASSUME NEW q, IsSequence(q), q # <<>>, NEW k
    PROVE  /\ \A i \in Asking(Tail(q), k) : i \in Nat \ {0} /\ i + 1 \in Asking(q, k) /\ q[i + 1] = Tail(q)[i]
           /\ \A i \in Asking(q, k) : (i = 1 /\ Asks(q[1], k))
                                      \/ (i - 1 \in Asking(Tail(q), k) /\ q[i] = Tail(q)[i - 1] /\ i \in Nat /\ i > 1)
           /\ Asks(q[1], k) => 1 \in Asking(q, k)
<1> DEFINE t == Tail(q)
           m == Len(q)
<1>1. /\ m \in Nat \ {0} /\ DOMAIN q = 1 .. m /\ DOMAIN t = 1 .. m - 1
      /\ \A i \in 1 .. m - 1 : t[i] = q[i + 1]
  BY TailSequence
<1> HIDE DEF t, m
<1>2. \A i \in DOMAIN t : i \in Nat \ {0} /\ i + 1 \in DOMAIN q /\ t[i] = q[i + 1]
  BY <1>1
<1>3. \A i \in DOMAIN q : i = 1 \/ (i - 1 \in DOMAIN t /\ q[i] = t[i - 1] /\ i \in Nat /\ i > 1)
  BY <1>1
<1>4. 1 \in DOMAIN q
  BY <1>1
<1>. QED  BY <1>2, <1>3, <1>4 DEF Asking, Asks, t

LEMMA ReadRequests ==
    ASSUME NEW p \in Client, RequestsUnderWay(p), NEW c \in Conn, c # NoConn, conn_of[p] = c,
           IsSequence(sent[c]), sent[c] # <<>>, NEW k \in DOMAIN req[p], req[p][k] > 0
    PROVE  /\ Asking(Tail(sent[c]), k) = {} =>
                 /\ AskedWith(value_req[c], sent[c][1], k, req[p][k])
                 /\ ~Asks(sent[c][1], k) => Asking(sent[c], k) = {}
           /\ Asking(sent[c], k) = {} => IdIn(value_req[c], k, req[p][k])
<1> DEFINE q == sent[c]
           id == req[p][k]
<1>1. PICK i \in {0} \cup Asking(q, k) :
                /\ \A j \in Asking(q, k) : j <= i
                /\ IF i = 0 THEN IdIn(value_req[c], k, id)
                   ELSE IF q[i].kind = "first" THEN IdIn(q[i].req, k, id)
                   ELSE q[i].id = id
  BY DEF RequestsUnderWay
<1> HIDE DEF q, id
<1>2. Asking(q, k) = {} => IdIn(value_req[c], k, id)
  BY <1>1
<1>3. ASSUME Asking(Tail(q), k) = {}
      PROVE  AskedWith(value_req[c], q[1], k, id) /\ (~Asks(q[1], k) => Asking(q, k) = {})
  <2>1. \A j \in Asking(q, k) : j = 1 /\ Asks(q[1], k)
    BY <1>3, TailAsking DEF q
  <2>2. CASE Asks(q[1], k)
    <3>1. 1 \in Asking(q, k)
      BY <2>2, TailAsking DEF q
    <3>2. i = 1
      BY <1>1, <2>1, <3>1
    <3>3. q[1].kind = "first" \/ (q[1].kind = "req" /\ q[1].key = k)
      BY <2>2 DEF Asks
    <3>. QED  BY <1>1, <2>2, <3>2, <3>3 DEF AskedWith
  <2>3. CASE ~Asks(q[1], k)
    BY <1>2, <2>1, <2>3 DEF AskedWith, Asks
  <2>. QED  BY <2>2, <2>3
<1>. QED  BY <1>2, <1>3 DEF q, id

LEMMA RequestsRead ==
    ASSUME NEW p \in Client, RequestsUnderWay(p), NEW c \in Conn, c # NoConn, conn_of[p] = c,
           IsSequence(sent[c]), sent[c] # <<>>, sent'[c] = Tail(sent[c]), conn_of'[p] = c, req'[p] = req[p],
           \A k \in DOMAIN req[p] :
                req[p][k] > 0 /\ AskedWith(value_req[c], sent[c][1], k, req[p][k]) => IdIn(value_req'[c], k, req[p][k])
    PROVE  RequestsUnderWay(p)'
<1> DEFINE q == sent[c]
           t == Tail(q)
<1> DEFINE Good(d, s, R, k) ==
              \E i \in {0} \cup Asking(s, k) :
                  /\ \A j \in Asking(s, k) : j <= i
                  /\ IF i = 0 THEN IdIn(value_req'[d], k, R[k])
                     ELSE IF s[i].kind = "first" THEN IdIn(s[i].req, k, R[k])
                     ELSE s[i].id = R[k]
<1>0. ASSUME \A k \in DOMAIN req[p] : req[p][k] > 0 => Good(c, t, req[p], k)
      PROVE  RequestsUnderWay(p)'
  <2>1. sent'[c] = t /\ req'[p] = req[p] /\ conn_of'[p] = c
    OBVIOUS
  <2> HIDE DEF t, Good
  <2>2. \A k \in DOMAIN req'[p] : req'[p][k] > 0 => Good(conn_of'[p], sent'[conn_of'[p]], req'[p], k)
    BY <1>0, <2>1
  <2>. QED  BY <2>2 DEF RequestsUnderWay, Good
<1> SUFFICES ASSUME NEW k \in DOMAIN req[p], req[p][k] > 0
             PROVE  \E i \in {0} \cup Asking(t, k) :
                        /\ \A j \in Asking(t, k) : j <= i
                        /\ IF i = 0 THEN IdIn(value_req'[c], k, req[p][k])
                           ELSE IF t[i].kind = "first" THEN IdIn(t[i].req, k, req[p][k])
                           ELSE t[i].id = req[p][k]
  <2> HIDE DEF t
  <2>. QED  BY <1>0
<1>1. CASE Asking(t, k) = {}
  <2>1. AskedWith(value_req[c], q[1], k, req[p][k])
    BY <1>1, ReadRequests
  <2>2. IdIn(value_req'[c], k, req[p][k])
    BY <2>1
  <2>. QED  BY <1>1, <2>2
<1>2. CASE Asking(t, k) # {}
  <2>1. PICK i \in {0} \cup Asking(q, k) :
                /\ \A j \in Asking(q, k) : j <= i
                /\ IF i = 0 THEN IdIn(value_req[c], k, req[p][k])
                   ELSE IF q[i].kind = "first" THEN IdIn(q[i].req, k, req[p][k])
                   ELSE q[i].id = req[p][k]
    BY DEF RequestsUnderWay
  <2>2. \A j \in Asking(t, k) : j \in Nat \ {0} /\ j + 1 \in Asking(q, k)
    BY TailAsking
  <2>3. \A j \in Asking(q, k) : j = 1 \/ (j - 1 \in Asking(t, k) /\ q[j] = t[j - 1] /\ j \in Nat /\ j > 1)
    BY TailAsking
  <2> HIDE DEF t, q
  <2>4. PICK a \in Asking(t, k) : TRUE
    BY <1>2
  <2>5. a \in Nat \ {0} /\ a + 1 <= i /\ i \in Asking(q, k) /\ i # 1
    <3>1. a \in Nat \ {0} /\ a + 1 <= i
      BY <2>1, <2>2
    <3>2. i # 0 /\ i # 1
      BY <3>1
    <3>. QED  BY <2>1, <3>1, <3>2
  <2> DEFINE h == i - 1
  <2>6. h \in Asking(t, k) /\ q[i] = t[h] /\ i \in Nat /\ h # 0
    BY <2>3, <2>5
  <2>7. \A j \in Asking(t, k) : j <= h
    <3> SUFFICES ASSUME NEW j \in Asking(t, k) PROVE j <= h
      OBVIOUS
    <3>1. j \in Nat /\ j + 1 <= i /\ i \in Nat
      BY <2>1, <2>2, <2>6
    <3>. QED  BY <3>1
  <2>8. IF t[h].kind = "first" THEN IdIn(t[h].req, k, req[p][k]) ELSE t[h].id = req[p][k]
    BY <2>1, <2>5, <2>6
  <2> HIDE DEF h
  <2>9. h \in {0} \cup Asking(t, k) /\ (\A j \in Asking(t, k) : j <= h)
        /\ IF h = 0 THEN IdIn(value_req'[c], k, req[p][k])
           ELSE IF t[h].kind = "first" THEN IdIn(t[h].req, k, req[p][k])
           ELSE t[h].id = req[p][k]
    BY <2>6, <2>7, <2>8
  <2>. QED  BY <2>9
<1>. QED  BY <1>1, <1>2

\* The server has read the first message of c and sent a batch to some clients: types.
LEMMA ReadTypes ==
    ASSUME PubSubInv, StoreInv', NEW c \in Conn, sent[c] # <<>>, sent' = [sent EXCEPT ![c] = Tail(@)],
           UNCHANGED <<conn_of, own, req, data_recv, entry, sync_time, writes, frees, given>>,
           DOMAIN value' = Conn, DOMAIN value_req' = Conn, mixed' \subseteq MName, DOMAIN recv_queue' = Client,
           \A d \in Conn : /\ IsData(value'[d]) /\ IsReq(owner[d], value_req'[d])
                           /\ GivenTo(given[owner[d]], value_req'[d])
                           /\ sync_init'[d] => name'[d] = OwnName(d),
           \A p \in Client : \/ recv_queue'[p] = recv_queue[p]
                             \/ \E b : ToClient(p, b) /\ Grows(recv_queue[p], recv_queue'[p], b)
    PROVE  PubSubTypeOK' /\ IdsGiven'
<1>1. PubSubTypeOK /\ IdsGiven
  BY DEF PubSubInv
<1>2. DOMAIN sent' = Conn /\ (\A d \in Conn \ {c} : sent'[d] = sent[d]) /\ sent'[c] = Tail(sent[c])
  BY <1>1, TypeDomains
<1>3. \A d \in Conn : IsSequence(sent'[d]) /\ \A i \in DOMAIN sent'[d] : \E j \in DOMAIN sent[d] : sent'[d][i] = sent[d][j]
  <2> DEFINE s == sent[c]
             t == Tail(s)
  <2>1. IsSequence(s) /\ s # <<>>
    BY <1>1 DEF PubSubTypeOK
  <2>2. /\ IsSequence(t) /\ Len(s) \in Nat \ {0} /\ DOMAIN s = 1 .. Len(s) /\ DOMAIN t = 1 .. Len(s) - 1
        /\ \A i \in 1 .. Len(s) - 1 : t[i] = s[i + 1]
    BY <2>1, TailSequence
  <2> HIDE DEF s, t
  <2>3. \A i \in DOMAIN t : \E j \in DOMAIN s : t[i] = s[j]
    <3> SUFFICES ASSUME NEW i \in DOMAIN t PROVE \E j \in DOMAIN s : t[i] = s[j]
      OBVIOUS
    <3>1. i + 1 \in DOMAIN s /\ t[i] = s[i + 1]
      BY <2>2
    <3>. QED  BY <3>1
  <2>4. \A d \in Conn \ {c} : IsSequence(sent[d])
    BY <1>1 DEF PubSubTypeOK
  <2>. QED  BY <1>2, <2>2, <2>3, <2>4 DEF s, t
<1>4. \A p \in Client : IsSequence(recv_queue'[p]) /\ \A i \in DOMAIN recv_queue'[p] : ToClient(p, recv_queue'[p][i])
  <2> SUFFICES ASSUME NEW p \in Client
               PROVE  IsSequence(recv_queue'[p]) /\ \A i \in DOMAIN recv_queue'[p] : ToClient(p, recv_queue'[p][i])
    OBVIOUS
  <2>1. IsSequence(recv_queue[p]) /\ \A i \in DOMAIN recv_queue[p] : ToClient(p, recv_queue[p][i])
    BY <1>1 DEF PubSubTypeOK
  <2>2. ASSUME NEW b, ToClient(p, b), Grows(recv_queue[p], recv_queue'[p], b)
        PROVE  IsSequence(recv_queue'[p]) /\ \A i \in DOMAIN recv_queue'[p] : ToClient(p, recv_queue'[p][i])
    BY <2>1, <2>2 DEF Grows
  <2>. QED  BY <2>1, <2>2
<1>5. LinkTypeOK'
  BY <1>1 DEF PubSubTypeOK, LinkTypeOK, StoreInv
<1>6. \A d \in Conn : \A i \in DOMAIN sent'[d] : ToServer(owner[d], sent'[d][i])
  BY <1>1, <1>3 DEF PubSubTypeOK
<1>7. PubSubTypeOK'
  BY <1>1, <1>2, <1>3, <1>4, <1>5, <1>6, TypeDomains DEF PubSubTypeOK, IsReq, OwnName
<1>8. IdsGiven'
  <2>1. \A p \in Client : GivenTo(given'[p], req'[p])
    BY <1>1 DEF IdsGiven
  <2>2. \A d \in Conn : GivenTo(given'[owner[d]], value_req'[d])
    OBVIOUS
  <2>3. ASSUME NEW d \in Conn, NEW i \in DOMAIN sent'[d]
        PROVE  LET m == sent'[d][i] IN
                  /\ m.kind = "first" => GivenTo(given'[owner[d]], m.req)
                  /\ m.kind = "req" => <<m.id, m.key>> \in given'[owner[d]]
    <3>1. PICK j \in DOMAIN sent[d] : sent'[d][i] = sent[d][j]
      BY <1>3
    <3>2. \A m : m = sent[d][j] =>
             /\ m.kind = "first" => GivenTo(given[owner[d]], m.req)
             /\ m.kind = "req" => <<m.id, m.key>> \in given[owner[d]]
      BY <1>1 DEF IdsGiven
    <3>3. given' = given
      OBVIOUS
    <3>. QED  BY <3>1, <3>2, <3>3
  <2>. QED  BY <2>1, <2>2, <2>3 DEF IdsGiven
<1>. QED  BY <1>7, <1>8

LEMMA SentEach ==
    ASSUME PubSubTypeOK, NEW msgs, SendEach(msgs)
    PROVE  /\ DOMAIN recv_queue' = Client
           /\ \A p \in Client :
                 /\ conn_of[p] = NoConn => recv_queue'[p] = recv_queue[p]
                 /\ conn_of[p] # NoConn => recv_queue'[p] = recv_queue[p] \o msgs[conn_of[p]]
                 /\ \A b : conn_of[p] # NoConn /\ (msgs[conn_of[p]] = OneBatch(b) \/ msgs[conn_of[p]] = <<b>>) =>
                              Grows(recv_queue[p], recv_queue'[p], b)
                 /\ conn_of[p] # NoConn /\ msgs[conn_of[p]] = <<>> => recv_queue'[p] = recv_queue[p]
<1>1. /\ DOMAIN recv_queue' = Client
      /\ \A p \in Client : recv_queue'[p] = IF conn_of[p] = NoConn THEN recv_queue[p] ELSE recv_queue[p] \o msgs[conn_of[p]]
  BY DEF SendEach
<1>2. ASSUME NEW p \in Client, conn_of[p] # NoConn, NEW b, msgs[conn_of[p]] = OneBatch(b) \/ msgs[conn_of[p]] = <<b>>
      PROVE  Grows(recv_queue[p], recv_queue'[p], b)
  <2> DEFINE q == recv_queue[p]
  <2>1. IsSequence(q)
    BY DEF PubSubTypeOK
  <2> HIDE DEF q
  <2>2. Grows(q, q \o <<b>>, b) /\ Grows(q, q \o OneBatch(b), b)
    BY <2>1, QueueGrows
  <2>3. recv_queue'[p] = q \o OneBatch(b) \/ recv_queue'[p] = q \o <<b>>
    BY <1>1, <1>2 DEF q
  <2>. QED  BY <2>2, <2>3 DEF q
<1>3. ASSUME NEW p \in Client, conn_of[p] # NoConn, msgs[conn_of[p]] = <<>>
      PROVE  recv_queue'[p] = recv_queue[p]
  <2>1. recv_queue[p] \o <<>> = recv_queue[p]
    BY AppendSequence DEF PubSubTypeOK
  <2>. QED  BY <1>1, <1>3, <2>1
<1>. QED  BY <1>1, <1>2, <1>3

\* The owner of c alone loses a message.
LEMMA ReadAsking ==
    ASSUME PubSubTypeOK, NEW c \in Conn, sent' = [sent EXCEPT ![c] = Tail(@)], NEW p \in Client, conn_of[p] # c
    PROVE  conn_of[p] # NoConn => sent'[conn_of[p]] = sent[conn_of[p]] /\ SameAsking(sent'[conn_of[p]], sent[conn_of[p]])
<1>1. \A d \in Conn \ {c} : sent'[d] = sent[d]
  BY TypeDomains
<1>2. conn_of[p] # NoConn => conn_of[p] \in Conn
  BY ConnOf
<1>. QED  BY <1>1, <1>2 DEF SameAsking

LEMMA ServeReqStep ==
    ASSUME PubSubInv, StoreInv', NEW c \in Conn, ServeReq(c)
    PROVE  PubSubInv'
<1> DEFINE m == sent[c][1]
           p0 == owner[c]
           b(m0) == Batch({}, {}, IF hasReq(value_req[c], m0.key[1]) THEN <<>> ELSE SyncsFor({m0.key}),
                          Answers(m0.key, m0.id))
           msgs(m0) == [d \in Conn |-> IF d # c THEN <<>> ELSE OneBatch(b(m0))]
           new(m0) == [x \in {m0.key} |-> m0.id]
<1>1. PubSubTypeOK /\ IdsGiven /\ StoreInv /\ \A p \in Client : ClientInv(p)
  BY DEF PubSubInv
<1>2. Head(sent[c]) = m /\ sent[c] # <<>> /\ IsSequence(sent[c]) /\ 1 \in DOMAIN sent[c]
  BY <1>1, TailSequence DEF ServeReq, Read, PubSubTypeOK
<1>3. SendEach(msgs(Head(sent[c]))) /\ value_req' = [value_req EXCEPT ![c] = Overwrite(@, new(Head(sent[c])))]
  BY DEF ServeReq
<1>4. /\ c \in clients /\ sync_init[c] /\ m.kind = "req" /\ sent' = [sent EXCEPT ![c] = Tail(@)]
      /\ UNCHANGED <<clients, clients_by_id, last_member_id, name, member_id, sync_init, conn_of, own, req, data_recv,
                     entry, sync_time, writes, frees, given, value, mixed>>
  BY <1>2 DEF ServeReq, Read, storeVars, clientVars
<1>5. p0 \in Client /\ m.key \in Wanted[p0] /\ m.id \in Nat /\ <<m.id, m.key>> \in given[p0]
  <2>1. p0 \in Client
    BY ClientAssumption
  <2>2. ToServer(p0, m)
    BY <1>1, <1>2 DEF PubSubTypeOK
  <2>3. <<m.id, m.key>> \in given[p0]
    BY <1>1, <1>2, <1>4 DEF IdsGiven
  <2>. QED  BY <1>4, <2>1, <2>2, <2>3 DEF ToServer
<1>6. IsMap(new(m), Wanted[p0], Nat) /\ IsReq(p0, value_req[c]) /\ GivenTo(given[p0], value_req[c])
  BY <1>1, <1>5 DEF IsMap, PubSubTypeOK, IdsGiven
<1> DEFINE r2 == Overwrite(value_req[c], new(m))
<1>7. DOMAIN value_req' = Conn /\ value_req'[c] = r2 /\ \A d \in Conn \ {c} : value_req'[d] = value_req[d]
  BY <1>1, <1>2, <1>3, TypeDomains
<1>8. IsReq(p0, r2) /\ GivenTo(given[p0], r2)
  <2>1. IsReq(p0, r2)
    BY <1>6, OverwriteMap DEF IsReq
  <2>2. GivenTo(given[p0], r2)
    BY <1>5, <1>6 DEF GivenTo, Overwrite
  <2>. QED  BY <2>1, <2>2
<1>9. \A k, id : AskedWith(value_req[c], m, k, id) => IdIn(r2, k, id)
  BY <1>4 DEF AskedWith, IdIn, Overwrite
<1> HIDE DEF new, r2
<1>10. /\ b(m).init = {} /\ b(m).entry = {} /\ b(m).res = Answers(m.key, m.id)
       /\ IsMap(b(m).sync, MName, Nat)
  <2>1. IsMap(<<>>, MName, Nat)
    BY DEF IsMap
  <2>2. IsMap(SyncsFor({m.key}), MName, Nat)
    BY DEF IsMap, SyncsFor, last_sync_time, MName
  <2>. QED  BY <2>1, <2>2 DEF Batch
<1>11. msgs(m)[c] = OneBatch(b(m)) /\ \A d \in Conn \ {c} : msgs(m)[d] = <<>>
  OBVIOUS
<1> HIDE DEF b, msgs
<1>12. \A r \in b(m).res :
           /\ ResultOf(given[p0], r, m.key[1]) /\ m.key[1] \in Name /\ FoundName(m.key[1]) # {}
           /\ HasValue(m.key[1], r.val.field) /\ r.val = ValueOf(m.key[1], r.val.field)
           /\ r \in [id : Nat, sub : Seq(Word), val : [field : Field, n : Nat]]
  BY <1>1, <1>5, <1>10, AnswerResults
<1>13. ToClient(p0, b(m))
  BY <1>10, <1>12 DEF ToClient
<1>14. SendEach(msgs(m))
  BY <1>2, <1>3
<1>15. DOMAIN recv_queue' = Client
       /\ \A p \in Client : /\ conn_of[p] # c => recv_queue'[p] = recv_queue[p]
                            /\ conn_of[p] = c => Grows(recv_queue[p], recv_queue'[p], b(m)) /\ p = p0 /\ c # NoConn
  <2>1. c # NoConn /\ \A p \in Client : conn_of[p] \in Conn \cup {NoConn} /\ (conn_of[p] = c => p = p0)
    BY <1>1, ClientAssumption DEF PubSubTypeOK, LinkTypeOK
  <2>. QED  BY <1>1, <1>11, <1>14, <2>1, SentEach
<1>16. PubSubTypeOK' /\ IdsGiven'
  <2>1. \A d \in Conn : /\ IsData(value'[d]) /\ IsReq(owner[d], value_req'[d])
                        /\ GivenTo(given[owner[d]], value_req'[d])
                        /\ sync_init'[d] => name'[d] = OwnName(d)
    BY <1>1, <1>4, <1>7, <1>8 DEF PubSubTypeOK, IdsGiven
  <2>2. DOMAIN value' = Conn /\ mixed' \subseteq MName
    BY <1>1, <1>4 DEF PubSubTypeOK
  <2>3. \A p \in Client : \/ recv_queue'[p] = recv_queue[p]
                          \/ \E b0 : ToClient(p, b0) /\ Grows(recv_queue[p], recv_queue'[p], b0)
    BY <1>13, <1>15
  <2>. QED  BY <1>2, <1>4, <1>7, <1>15, <2>1, <2>2, <2>3, ReadTypes
<1>17. \A n : SameOf(n)
  BY <1>4, SameOfAll
<1>18. ASSUME NEW p \in Client, conn_of[p] # c PROVE ClientInv(p)'
  <2>1. conn_of[p] # NoConn => SameAsking(sent'[conn_of[p]], sent[conn_of[p]])
                               /\ value_req'[conn_of[p]] = value_req[conn_of[p]]
    BY <1>1, <1>4, <1>7, <1>18, ReadAsking, ConnOf
  <2>2. Untouched(p)
    BY <1>4, <1>15, <1>17, <1>18, <2>1 DEF Untouched, Initialised, SameOf
  <2>. QED  BY <1>1, <2>2, UntouchedClient
<1>19. ASSUME NEW p \in Client, conn_of[p] = c PROVE ClientInv(p)'
  <2>1. p = p0 /\ c # NoConn /\ Grows(recv_queue[p], recv_queue'[p], b(m)) /\ RequestsUnderWay(p) /\ ClientInv(p)
    BY <1>1, <1>15, <1>19 DEF ClientInv
  <2>2. sent'[c] = Tail(sent[c])
    BY <1>1, <1>4, TypeDomains
  <2>3. RequestsUnderWay(p)'
    <3>1. conn_of'[p] = c /\ req'[p] = req[p]
      BY <1>4, <1>19
    <3>2. \A k \in DOMAIN req[p] :
             req[p][k] > 0 /\ AskedWith(value_req[c], sent[c][1], k, req[p][k]) => IdIn(value_req'[c], k, req[p][k])
      BY <1>7, <1>9
    <3>. QED  BY <1>2, <1>19, <2>1, <2>2, <3>1, <3>2, RequestsRead
  <2>4. (Initialised(p)' <=> Initialised(p)) /\ Initialised(p)
    BY <1>4, <1>19 DEF Initialised
  <2>5. \A r \in b(m).res : \E n \in Name :
                /\ FoundName(n)' # {} /\ ResultOf(given[p], r, n) /\ r.val.field \in Field
                /\ n \notin mixed' => HasValue(n, r.val.field)' /\ r.val = ValueOf(n, r.val.field)'
    <3> SUFFICES ASSUME NEW r \in b(m).res
                 PROVE  \E n \in Name :
                /\ FoundName(n)' # {} /\ ResultOf(given[p], r, n) /\ r.val.field \in Field
                /\ n \notin mixed' => HasValue(n, r.val.field)' /\ r.val = ValueOf(n, r.val.field)'
      OBVIOUS
    <3> DEFINE f0 == r.val.field
    <3>1. PICK n0 \in Name : /\ ResultOf(given[p], r, n0) /\ FoundName(n0) # {}
                             /\ HasValue(n0, f0) /\ r.val = ValueOf(n0, f0) /\ f0 \in Field
      BY <1>12, <2>1
    <3>2. FoundName(n0)' # {} /\ HasValue(n0, f0)' /\ ValueOf(n0, f0)' = ValueOf(n0, f0)
      BY <1>17, <3>1 DEF SameOf
    <3>. QED  BY <3>1, <3>2
  <2>6. \A n \in Name \ (mixed' \cup {MemberName[p]}) : FoundName(n)' # {} =>
                /\ n \in b(m).init \/ (Initialised(p) /\ FoundName(n) # {})
                /\ \A f \in Field :
                      (HasValue(n, f)' /\ Visible(f)) <=>
                          <<n, f>> \in b(m).entry \/ (n \notin b(m).init /\ HasValue(n, f) /\ Visible(f))
    BY <1>10, <1>17, <2>4 DEF SameOf
  <2>7. \A n \in Name \ (mixed' \cup {MemberName[p]}) :
                \/ n \in b(m).init \/ FoundName(n) = {}
                \/ Initialised(p) /\ \A f \in Field : HasValue(n, f) => HasValue(n, f)'
    BY <1>17, <2>4 DEF SameOf
  <2>8. \A k \in DOMAIN req[p] :
                (/\ req[p][k] > 0 /\ k[1] \notin mixed'
                 /\ Asking(sent'[conn_of[p]], k) = {} /\ HasValue(k[1], k[2])') =>
                    \/ /\ Initialised(p) /\ Asking(sent[conn_of[p]], k) = {} /\ HasValue(k[1], k[2])
                       /\ ValueOf(k[1], k[2])' = ValueOf(k[1], k[2]) /\ k[1] \notin b(m).init
                    \/ \E r \in b(m).res : r.id = req[p][k] /\ r.sub = <<>> /\ r.val = ValueOf(k[1], k[2])'
    <3> SUFFICES ASSUME NEW k \in DOMAIN req[p], req[p][k] > 0, k[1] \notin mixed',
                        Asking(sent'[conn_of[p]], k) = {}, HasValue(k[1], k[2])'
                 PROVE  \/ /\ Initialised(p) /\ Asking(sent[conn_of[p]], k) = {} /\ HasValue(k[1], k[2])
                           /\ ValueOf(k[1], k[2])' = ValueOf(k[1], k[2]) /\ k[1] \notin b(m).init
                        \/ \E r \in b(m).res : r.id = req[p][k] /\ r.sub = <<>> /\ r.val = ValueOf(k[1], k[2])'
      OBVIOUS
    <3>1. k[2] \in Field
      BY <1>1, PubSubAssumption DEF PubSubTypeOK, IsReq, IsMap
    <3>2. HasValue(k[1], k[2]) /\ ValueOf(k[1], k[2])' = ValueOf(k[1], k[2])
      BY <1>17, <3>1 DEF SameOf
    <3>3. AskedWith(value_req[c], m, k, req[p][k]) /\ (~Asks(m, k) => Asking(sent[c], k) = {})
      BY <1>2, <1>19, <2>1, <2>2, ReadRequests
    <3>4. CASE ~Asks(m, k)
      BY <1>10, <1>19, <2>4, <3>2, <3>3, <3>4
    <3>5. CASE Asks(m, k)
      <4>1. m.key = k /\ m.id = req[p][k]
        BY <1>4, <3>3, <3>5 DEF Asks, AskedWith
      <4>2. \E r \in Answers(k, m.id) : r.id = m.id /\ r.sub = <<>> /\ r.val = ValueOf(k[1], k[2])
        BY <1>5, <3>2, <4>1, AnswerOfItself
      <4>. QED  BY <1>10, <3>2, <4>1, <4>2
    <3>. QED  BY <3>4, <3>5
  <2>9. conn_of'[p] = conn_of[p] /\ entry'[p] = entry[p] /\ data_recv'[p] = data_recv[p]
        /\ given'[p] = given[p] /\ req'[p] = req[p] /\ mixed \subseteq mixed'
        /\ \A n \in Name : FoundName(n) # {} => FoundName(n)' # {}
    BY <1>4, <1>17 DEF SameOf
  <2>10. ResultsRequested(p)' /\ WillListAll(p)' /\ OnlyOfFound(p)' /\ NothingOld(p)' /\ WillReadAll(p)'
    BY <1>1, <2>1, <2>5, <2>6, <2>7, <2>8, <2>9, ToldClient
  <2>. QED  BY <2>3, <2>10 DEF ClientInv
<1>. QED  BY <1>16, <1>18, <1>19 DEF PubSubInv

LEMMA RequestsKept ==
    ASSUME NEW p \in Client, RequestsUnderWay(p), conn_of'[p] = conn_of[p], req'[p] = req[p],
           conn_of[p] # NoConn => /\ SameAsking(sent'[conn_of[p]], sent[conn_of[p]])
                                  /\ value_req'[conn_of[p]] = value_req[conn_of[p]]
    PROVE  RequestsUnderWay(p)'
<1> SUFFICES ASSUME conn_of[p] # NoConn, NEW k \in DOMAIN req[p], req[p][k] > 0
             PROVE  \E i \in {0} \cup Asking(sent'[conn_of[p]], k) :
                        /\ \A j \in Asking(sent'[conn_of[p]], k) : j <= i
                        /\ IF i = 0 THEN IdIn(value_req'[conn_of[p]], k, req[p][k])
                           ELSE IF sent'[conn_of[p]][i].kind = "first" THEN IdIn(sent'[conn_of[p]][i].req, k, req[p][k])
                           ELSE sent'[conn_of[p]][i].id = req[p][k]
  BY DEF RequestsUnderWay
<1>1. Asking(sent'[conn_of[p]], k) = Asking(sent[conn_of[p]], k)
      /\ \A i \in Asking(sent[conn_of[p]], k) : sent'[conn_of[p]][i] = sent[conn_of[p]][i]
  BY DEF SameAsking
<1>2. PICK i \in {0} \cup Asking(sent[conn_of[p]], k) :
                        /\ \A j \in Asking(sent[conn_of[p]], k) : j <= i
                        /\ IF i = 0 THEN IdIn(value_req[conn_of[p]], k, req[p][k])
                           ELSE IF sent[conn_of[p]][i].kind = "first" THEN IdIn(sent[conn_of[p]][i].req, k, req[p][k])
                           ELSE sent[conn_of[p]][i].id = req[p][k]
  BY DEF RequestsUnderWay
<1>3. value_req'[conn_of[p]] = value_req[conn_of[p]]
  OBVIOUS
<1>. QED  BY <1>1, <1>2, <1>3

\* The types of what a member is told of new data.
LEMMA NewDataType ==
    ASSUME NEW p \in Client, NEW reqs, IsReq(p, reqs), NEW G, GivenTo(G, reqs), NEW n \in MName,
           NEW data, IsData(data), NEW news \in SUBSET DOMAIN data, NEW time \in Nat
    PROVE  /\ ToClient(p, NewData(n, MemberName[p], reqs, news, data, time))
           /\ NewData(n, MemberName[p], reqs, news, data, time).init = {}
           /\ \A x, f : <<x, f>> \in NewData(n, MemberName[p], reqs, news, data, time).entry <=>
                           x = n /\ MemberName[p] # n /\ f \in news /\ Visible(f)
<1> DEFINE b == NewData(n, MemberName[p], reqs, news, data, time)
<1>1. \A r \in b.res : r \in [id : Nat, sub : Seq(Word), val : [field : Field, n : Nat]]
  BY NewDataResults
<1>2. /\ b.init = {}
      /\ b.entry = IF MemberName[p] = n THEN {} ELSE {<<n, f>> : f \in {g \in news : Visible(g)}}
      /\ b.sync = IF hasReq(reqs, n) THEN [x \in {n} |-> time] ELSE <<>>
  BY DEF NewData, Batch
<1> HIDE DEF b
<1>3. DOMAIN data \subseteq Field
  BY DEF IsData, IsMap
<1>4. b.entry \subseteq (MName \ {MemberName[p]}) \X Field
  BY <1>2, <1>3
<1>5. IsMap(b.sync, MName, Nat)
  <2>1. IsMap(<<>>, MName, Nat) /\ IsMap([x \in {n} |-> time], MName, Nat)
    BY DEF IsMap
  <2>. QED  BY <1>2, <2>1
<1>6. ToClient(p, b)
  BY <1>1, <1>2, <1>4, <1>5 DEF ToClient
<1>7. \A x, f : <<x, f>> \in b.entry <=> x = n /\ MemberName[p] # n /\ f \in news /\ Visible(f)
  BY <1>2
<1>. QED  BY <1>2, <1>6, <1>7 DEF b

\* The data of c is written over: what there is of the others stays, and what there is of
\* its own name changes accordingly, unless another connection has taken this over.
WrittenOver(n, c, data) ==
    /\ FoundName(n)' = FoundName(n)
    /\ n # name[c] => SameOf(n)
    /\ n = name[c] => FoundName(n) # {}
    /\ n = name[c] /\ n \notin mixed' => \A f \in Field :
          /\ HasValue(n, f) <=> f \in DOMAIN value[c]
          /\ HasValue(n, f)' <=> HasValue(n, f) \/ f \in DOMAIN data
          /\ f \in DOMAIN data => ValueOf(n, f)' = data[f]
          /\ f \notin DOMAIN data /\ HasValue(n, f) => ValueOf(n, f)' = ValueOf(n, f)

LEMMA ValuesWritten ==
    ASSUME StoreInv, PubSubTypeOK, NEW c \in ForEach, NEW data, IsData(data),
           UNCHANGED <<clients_by_id, name, sync_init>>,
           value' = [value EXCEPT ![c] = Overwrite(@, data)],
           mixed' = IF clients_by_id[member_id[c]] = c THEN mixed ELSE mixed \cup {name[c]},
           NEW n \in Name
    PROVE  WrittenOver(n, c, data)
<1>1. c \in Conn /\ sync_init[c]
  BY DEF ForEach, StoreInv, StoreTypeOK
<1>2. FoundName(n)' = FoundName(n) /\ EntryOf(n)' = EntryOf(n)
  BY SameEntry
<1>3. DOMAIN value = Conn /\ \A d \in Conn \ {c} : value'[d] = value[d]
  BY TypeDomains
<1>4. value'[c] = Overwrite(value[c], data)
  BY <1>1, <1>3
<1>5. ASSUME n # name[c] PROVE SameOf(n)
  <2>1. FoundName(n) # {} => EntryOf(n) \in Conn \ {c}
    BY <1>5, FoundEntry
  <2>. QED  BY <1>2, <1>3, <2>1 DEF SameOf, HasValue, ValueOf
<1>6. ASSUME n = name[c] PROVE FoundName(n) # {} /\ EntryOf(n) = clients_by_id[member_id[c]]
  <2>1. member_id[c] \in DOMAIN clients_by_id /\ name[clients_by_id[member_id[c]]] = n
    BY <1>6 DEF StoreInv, Reachable
  <2>. QED  BY <2>1, EntryFound
<1>7. ASSUME n = name[c], n \notin mixed', NEW f \in Field
      PROVE  /\ HasValue(n, f) <=> f \in DOMAIN value[c]
             /\ HasValue(n, f)' <=> HasValue(n, f) \/ f \in DOMAIN data
             /\ f \in DOMAIN data => ValueOf(n, f)' = data[f]
             /\ f \notin DOMAIN data /\ HasValue(n, f) => ValueOf(n, f)' = ValueOf(n, f)
  <2>1. EntryOf(n) = c /\ FoundName(n) # {}
    BY <1>6, <1>7
  <2>. QED  BY <1>2, <1>4, <2>1 DEF HasValue, ValueOf, Overwrite
<1>. QED  BY <1>2, <1>5, <1>6, <1>7 DEF WrittenOver

LEMMA ServeSyncStep ==
    ASSUME PubSubInv, StoreInv', NEW c \in Conn, ServeSync(c)
    PROVE  PubSubInv'
<1> DEFINE m == sent[c][1]
           p0 == owner[c]
           news(m0) == DOMAIN m0.data \ DOMAIN value[c]
           b(d, m0) == NewData(name[c], name[d], value_req[d], news(m0), m0.data, m0.time)
           msgs(m0) == [d \in Conn |-> IF d \notin ForEach THEN <<>> ELSE OneBatch(b(d, m0))]
<1>1. PubSubTypeOK /\ IdsGiven /\ StoreInv /\ \A p \in Client : ClientInv(p)
  BY DEF PubSubInv
<1>2. Head(sent[c]) = m /\ sent[c] # <<>> /\ IsSequence(sent[c]) /\ 1 \in DOMAIN sent[c]
  BY <1>1, TailSequence DEF ServeSync, Read, PubSubTypeOK
<1>3. SendEach(msgs(Head(sent[c])))
  BY DEF ServeSync
<1>4. /\ c \in clients /\ sync_init[c] /\ m.kind = "sync" /\ sent' = [sent EXCEPT ![c] = Tail(@)]
      /\ value' = [value EXCEPT ![c] = Overwrite(@, m.data)]
      /\ mixed' = IF clients_by_id[member_id[c]] = c THEN mixed ELSE mixed \cup {name[c]}
      /\ UNCHANGED <<clients, clients_by_id, last_member_id, name, member_id, sync_init, conn_of, own, req, data_recv,
                     entry, sync_time, writes, frees, given, value_req>>
  BY <1>2 DEF ServeSync, Read, storeVars, clientVars
<1>5. IsData(m.data) /\ m.time \in Nat /\ c \in ForEach /\ name[c] \in MName
  <2>1. ToServer(p0, m)
    BY <1>1, <1>2 DEF PubSubTypeOK
  <2>. QED  BY <1>1, <1>4, <2>1 DEF ToServer, ForEach, StoreInv, StoreTypeOK
<1>6. \A n \in Name :
           /\ FoundName(n)' = FoundName(n)
           /\ n # name[c] => SameOf(n)
           /\ n = name[c] => FoundName(n) # {}
           /\ n = name[c] /\ n \notin mixed' => \A f \in Field :
                 /\ HasValue(n, f) <=> f \in DOMAIN value[c]
                 /\ HasValue(n, f)' <=> HasValue(n, f) \/ f \in DOMAIN m.data
                 /\ f \in DOMAIN m.data => ValueOf(n, f)' = m.data[f]
                 /\ f \notin DOMAIN m.data /\ HasValue(n, f) => ValueOf(n, f)' = ValueOf(n, f)
  <2>1. PICK data : data = m.data
    OBVIOUS
  <2>2. value' = [value EXCEPT ![c] = Overwrite(@, data)] /\ IsData(data)
    BY <1>4, <1>5, <2>1
  <2> HIDE DEF m
  <2>3. \A n \in Name : WrittenOver(n, c, data)
    BY <1>1, <1>4, <1>5, <2>2, ValuesWritten
  <2>. QED  BY <2>1, <2>3 DEF WrittenOver
<1>7. /\ \A d \in Conn \ ForEach : msgs(m)[d] = <<>>
      /\ \A d \in ForEach : d \in Conn /\ msgs(m)[d] = OneBatch(b(d, m))
  BY <1>1 DEF ForEach, StoreInv, StoreTypeOK
<1>8. \A p \in Client : Initialised(p) <=> conn_of[p] # NoConn /\ conn_of[p] \in ForEach
  BY <1>1, ConnOf DEF Initialised, ForEach
<1>9. \A d \in ForEach : /\ b(d, m) = NewData(name[c], name[d], value_req[d], news(m), m.data, m.time)
                        /\ name[d] = MemberName[owner[d]] /\ IsReq(owner[d], value_req[d]) /\ owner[d] \in Client
                        /\ GivenTo(given[owner[d]], value_req[d])
  BY <1>1, <1>7, ClientAssumption DEF ForEach, PubSubTypeOK, OwnName, IdsGiven
<1>10. news(m) \in SUBSET DOMAIN m.data /\ \A f \in DOMAIN m.data : f \in news(m) <=> f \notin DOMAIN value[c]
  OBVIOUS
<1>11. SendEach(msgs(m))
  BY <1>2, <1>3
<1> HIDE DEF b, msgs, news
<1>12. \A p \in Client : Initialised(p) =>
           /\ conn_of[p] \in ForEach /\ owner[conn_of[p]] = p /\ conn_of[p] # NoConn
           /\ Grows(recv_queue[p], recv_queue'[p], b(conn_of[p], m))
           /\ ToClient(p, b(conn_of[p], m)) /\ b(conn_of[p], m).init = {}
           /\ \A x, f : <<x, f>> \in b(conn_of[p], m).entry <=>
                           x = name[c] /\ MemberName[p] # name[c] /\ f \in news(m) /\ Visible(f)
  <2> SUFFICES ASSUME NEW p \in Client, Initialised(p)
               PROVE
           /\ conn_of[p] \in ForEach /\ owner[conn_of[p]] = p /\ conn_of[p] # NoConn
           /\ Grows(recv_queue[p], recv_queue'[p], b(conn_of[p], m))
           /\ ToClient(p, b(conn_of[p], m)) /\ b(conn_of[p], m).init = {}
           /\ \A x, f : <<x, f>> \in b(conn_of[p], m).entry <=>
                           x = name[c] /\ MemberName[p] # name[c] /\ f \in news(m) /\ Visible(f)
    OBVIOUS
  <2>1. PICK d \in ForEach : d = conn_of[p] /\ owner[d] = p /\ d # NoConn
    BY <1>1, <1>8, ConnOf
  <2>2. b(d, m) = NewData(name[c], MemberName[p], value_req[d], news(m), m.data, m.time)
        /\ IsReq(p, value_req[d]) /\ GivenTo(given[p], value_req[d])
    BY <1>9, <2>1
  <2>3. Grows(recv_queue[p], recv_queue'[p], b(d, m))
    BY <1>1, <1>7, <1>11, <2>1, SentEach
  <2>4. /\ ToClient(p, b(d, m)) /\ b(d, m).init = {}
        /\ \A x, f : <<x, f>> \in b(d, m).entry <=>
                        x = name[c] /\ MemberName[p] # name[c] /\ f \in news(m) /\ Visible(f)
    <3>1. PICK reqs, n, data, nw, time :
              reqs = value_req[d] /\ n = name[c] /\ data = m.data /\ nw = news(m) /\ time = m.time
      OBVIOUS
    <3>2. IsReq(p, reqs) /\ GivenTo(given[p], reqs) /\ n \in MName /\ IsData(data) /\ nw \in SUBSET DOMAIN data
          /\ time \in Nat /\ b(d, m) = NewData(n, MemberName[p], reqs, nw, data, time)
      BY <1>5, <1>10, <2>2, <3>1
    <3> HIDE DEF m
    <3>3. /\ ToClient(p, NewData(n, MemberName[p], reqs, nw, data, time))
          /\ NewData(n, MemberName[p], reqs, nw, data, time).init = {}
          /\ \A x, f : <<x, f>> \in NewData(n, MemberName[p], reqs, nw, data, time).entry <=>
                          x = n /\ MemberName[p] # n /\ f \in nw /\ Visible(f)
      BY SMTT(30), <3>2, NewDataType
    <3>. QED  BY <3>1, <3>2, <3>3
  <2>. QED  BY <2>1, <2>3, <2>4
<1>13. DOMAIN recv_queue' = Client
       /\ \A p \in Client : ~Initialised(p) => recv_queue'[p] = recv_queue[p]
  <2>1. \A p \in Client : ~Initialised(p) => conn_of[p] = NoConn \/ conn_of[p] \in Conn \ ForEach
    BY <1>1, <1>8, ConnOf
  <2>. QED  BY <1>1, <1>7, <1>11, <2>1, SentEach
<1>14. DOMAIN value' = Conn /\ (\A d \in Conn \ {c} : value'[d] = value[d]) /\ value'[c] = Overwrite(value[c], m.data)
  BY <1>1, <1>4, TypeDomains
<1>15. PubSubTypeOK' /\ IdsGiven'
  <2>1. \A d \in Conn : /\ IsData(value'[d]) /\ IsReq(owner[d], value_req'[d])
                        /\ GivenTo(given[owner[d]], value_req'[d])
                        /\ sync_init'[d] => name'[d] = OwnName(d)
    <3>1. IsData(value'[c])
      BY <1>1, <1>5, <1>14, OverwriteData DEF PubSubTypeOK
    <3>. QED  BY <1>1, <1>4, <1>14, <3>1 DEF PubSubTypeOK, IdsGiven
  <2>2. DOMAIN value_req' = Conn /\ mixed' \subseteq MName
    BY <1>1, <1>4, <1>5 DEF PubSubTypeOK
  <2>3. \A p \in Client : \/ recv_queue'[p] = recv_queue[p]
                          \/ \E b0 : ToClient(p, b0) /\ Grows(recv_queue[p], recv_queue'[p], b0)
    BY <1>12, <1>13
  <2>. QED  BY <1>2, <1>4, <1>13, <1>14, <2>1, <2>2, <2>3, ReadTypes
<1>16. mixed \subseteq mixed' /\ \A n \in Name : FoundName(n) # {} => FoundName(n)' # {}
  BY <1>4, <1>6
<1>17. ASSUME NEW p \in Client, ~Initialised(p) PROVE ClientInv(p)'
  <2>1. ~Initialised(p)' /\ conn_of[p] # c
    BY <1>4, <1>17 DEF Initialised
  <2>2. conn_of[p] # NoConn => SameAsking(sent'[conn_of[p]], sent[conn_of[p]])
    BY <1>1, <1>4, <2>1, ReadAsking
  <2>3. Untouched(p)
    BY <1>4, <1>13, <1>16, <1>17, <2>1, <2>2 DEF Untouched
  <2>. QED  BY <1>1, <2>3, UntouchedClient
<1>18. ASSUME NEW p \in Client, Initialised(p) PROVE ClientInv(p)'
  <2>1. PICK d \in ForEach : d = conn_of[p]
    BY <1>12, <1>18
  <2>2. /\ Grows(recv_queue[p], recv_queue'[p], b(d, m)) /\ b(d, m).init = {}
        /\ \A x, f : <<x, f>> \in b(d, m).entry <=>
                        x = name[c] /\ MemberName[p] # name[c] /\ f \in news(m) /\ Visible(f)
        /\ d # NoConn /\ d \in Conn /\ owner[d] = p /\ name[d] = MemberName[p]
    BY <1>7, <1>9, <1>12, <1>18, <2>1
  <2>3. RequestsUnderWay(p) /\ ClientInv(p) /\ IsReq(p, req[p])
    BY <1>1 DEF ClientInv, PubSubTypeOK
  <2>4. d = c => sent'[d] = Tail(sent[d])
    BY <1>1, <1>4, TypeDomains
  <2>5. d # c => SameAsking(sent'[d], sent[d])
    BY <1>1, <1>4, <2>1, <2>2, ReadAsking
  <2>6. RequestsUnderWay(p)'
    <3>1. conn_of'[p] = d /\ req'[p] = req[p] /\ value_req'[d] = value_req[d]
      BY <1>4, <2>1
    <3>2. CASE d # c
      BY <2>1, <2>3, <2>5, <3>1, <3>2, RequestsKept
    <3>3. CASE d = c
      <4>1. \A k, id : AskedWith(value_req[c], sent[c][1], k, id) => IdIn(value_req'[c], k, id)
        BY <1>4 DEF AskedWith
      <4>. QED  BY <1>2, <2>1, <2>2, <2>3, <2>4, <3>1, <3>3, <4>1, RequestsRead
    <3>. QED  BY <3>2, <3>3
  <2>7. ASSUME NEW k \in DOMAIN req[p], req[p][k] > 0, Asking(sent'[d], k) = {}
        PROVE  Asking(sent[d], k) = {} /\ IdIn(value_req[d], k, req[p][k])
    <3>1. Asking(sent[d], k) = {}
      <4>1. CASE d # c
        BY <2>5, <2>7, <4>1 DEF SameAsking
      <4>2. CASE d = c
        <5>1. ~Asks(sent[c][1], k)
          BY <1>4 DEF Asks
        <5>. QED  BY <1>2, <2>1, <2>2, <2>3, <2>4, <2>7, <4>2, <5>1, ReadRequests
      <4>. QED  BY <4>1, <4>2
    <3>2. IdIn(value_req[d], k, req[p][k])
      <4>1. IsSequence(sent[d])
        BY <1>1, <2>2 DEF PubSubTypeOK
      <4>2. RequestsUnderWay(p) /\ conn_of[p] = d /\ d # NoConn
        BY <2>1, <2>2, <2>3
      <4>. QED  BY <2>7, <3>1, <4>2 DEF RequestsUnderWay
    <3>. QED  BY <3>1, <3>2
  <2>8. \A r \in b(d, m).res : \E n \in Name :
                /\ FoundName(n)' # {} /\ ResultOf(given[p], r, n) /\ r.val.field \in Field
                /\ n \notin mixed' => HasValue(n, r.val.field)' /\ r.val = ValueOf(n, r.val.field)'
    <3> SUFFICES ASSUME NEW r \in b(d, m).res
                 PROVE  \E n \in Name :
                /\ FoundName(n)' # {} /\ ResultOf(given[p], r, n) /\ r.val.field \in Field
                /\ n \notin mixed' => HasValue(n, r.val.field)' /\ r.val = ValueOf(n, r.val.field)'
      OBVIOUS
    <3>1. PICK n, f : n = name[c] /\ f = r.val.field
      OBVIOUS
    <3>2. ResultOf(given[p], r, n) /\ n \in Name /\ f \in DOMAIN m.data /\ r.val = m.data[f]
      BY <1>5, <1>9, <2>2, <3>1, NewDataResults
    <3>3. f \in Field
      BY <1>5, <3>2 DEF IsData, IsMap
    <3>4. FoundName(n)' # {} /\ (n \notin mixed' => HasValue(n, f)' /\ ValueOf(n, f)' = m.data[f])
      BY <1>6, <3>1, <3>2, <3>3
    <3>. QED  BY <3>1, <3>2, <3>3, <3>4
  <2>9. \A n \in Name \ (mixed' \cup {MemberName[p]}) : FoundName(n)' # {} =>
                /\ n \in b(d, m).init \/ (Initialised(p) /\ FoundName(n) # {})
                /\ \A f \in Field :
                      (HasValue(n, f)' /\ Visible(f)) <=>
                          <<n, f>> \in b(d, m).entry \/ (n \notin b(d, m).init /\ HasValue(n, f) /\ Visible(f))
    <3> SUFFICES ASSUME NEW n \in Name \ (mixed' \cup {MemberName[p]}), FoundName(n)' # {}
                 PROVE  /\ FoundName(n) # {}
                        /\ \A f \in Field :
                              (HasValue(n, f)' /\ Visible(f)) <=>
                                  <<n, f>> \in b(d, m).entry \/ (HasValue(n, f) /\ Visible(f))
      BY <1>18, <2>2
    <3>1. FoundName(n) # {}
      BY <1>6
    <3>2. CASE n # name[c]
      <4>1. \A f : <<n, f>> \notin b(d, m).entry
        BY <2>2, <3>2
      <4>2. SameOf(n)
        BY <1>6, <3>2
      <4>. QED  BY <3>1, <4>1, <4>2 DEF SameOf
    <3>3. CASE n = name[c]
      <4>1. \A f : <<n, f>> \in b(d, m).entry <=> f \in news(m) /\ Visible(f)
        BY <2>2, <3>3
      <4>2. \A f \in Field : /\ HasValue(n, f) <=> f \in DOMAIN value[c]
                             /\ HasValue(n, f)' <=> HasValue(n, f) \/ f \in DOMAIN m.data
        BY <1>6, <3>3
      <4>3. \A f : f \in news(m) <=> f \in DOMAIN m.data /\ f \notin DOMAIN value[c]
        BY <1>10
      <4>. QED  BY <3>1, <4>1, <4>2, <4>3
    <3>. QED  BY <3>2, <3>3
  <2>10. \A n \in Name \ (mixed' \cup {MemberName[p]}) :
                \/ n \in b(d, m).init \/ FoundName(n) = {}
                \/ Initialised(p) /\ \A f \in Field : HasValue(n, f) => HasValue(n, f)'
    <3> SUFFICES ASSUME NEW n \in Name \ (mixed' \cup {MemberName[p]}), NEW f \in Field, HasValue(n, f)
                 PROVE  HasValue(n, f)'
      BY <1>18
    <3>1. CASE n # name[c]
      BY <1>6, <3>1 DEF SameOf
    <3>2. CASE n = name[c]
      BY <1>6, <3>2
    <3>. QED  BY <3>1, <3>2
  <2>11. \A k \in DOMAIN req[p] :
                (/\ req[p][k] > 0 /\ k[1] \notin mixed'
                 /\ Asking(sent'[d], k) = {} /\ HasValue(k[1], k[2])') =>
                    \/ /\ Initialised(p) /\ Asking(sent[d], k) = {} /\ HasValue(k[1], k[2])
                       /\ ValueOf(k[1], k[2])' = ValueOf(k[1], k[2]) /\ k[1] \notin b(d, m).init
                    \/ \E r \in b(d, m).res : r.id = req[p][k] /\ r.sub = <<>> /\ r.val = ValueOf(k[1], k[2])'
    <3> SUFFICES ASSUME NEW k \in DOMAIN req[p], req[p][k] > 0, k[1] \notin mixed',
                        Asking(sent'[d], k) = {}, HasValue(k[1], k[2])'
                 PROVE  \/ /\ Initialised(p) /\ Asking(sent[d], k) = {} /\ HasValue(k[1], k[2])
                           /\ ValueOf(k[1], k[2])' = ValueOf(k[1], k[2]) /\ k[1] \notin b(d, m).init
                        \/ \E r \in b(d, m).res : r.id = req[p][k] /\ r.sub = <<>> /\ r.val = ValueOf(k[1], k[2])'
      OBVIOUS
    <3>1. PICK n \in Name, f \in Field : n = k[1] /\ f = k[2]
      BY <2>3, PubSubAssumption DEF IsReq, IsMap
    <3>2. Asking(sent[d], k) = {} /\ IdIn(value_req[d], k, req[p][k])
      BY <2>7
    <3>3. HasValue(n, f)' /\ n \notin mixed'
      BY <3>1
    <3>4. CASE HasValue(n, f) /\ ValueOf(n, f)' = ValueOf(n, f)
      BY <1>18, <2>2, <3>1, <3>2, <3>4
    <3>5. CASE n # name[c]
      BY <1>6, <3>3, <3>4, <3>5 DEF SameOf
    <3>6. CASE n = name[c] /\ f \in DOMAIN m.data
      <4>1. k \in DOMAIN value_req[d] /\ value_req[d][k] = req[p][k] /\ k[1] = name[c] /\ k[2] \in DOMAIN m.data
            /\ value_req[d][k] > 0
        BY <3>1, <3>2, <3>6 DEF IdIn
      <4>2. b(d, m) = NewData(name[c], name[d], value_req[d], news(m), m.data, m.time) /\ IsReq(p, value_req[d])
            /\ IsData(m.data)
        BY <1>5, <1>9, <2>2
      <4>3. \E r \in b(d, m).res : r.id = value_req[d][k] /\ r.sub = <<>> /\ r.val = m.data[k[2]]
        <5>1. PICK reqs, n1, dn, data, nw, time : reqs = value_req[d] /\ n1 = name[c] /\ dn = name[d] /\ data = m.data
                                                  /\ nw = news(m) /\ time = m.time
          OBVIOUS
        <5>2. IsReq(p, reqs) /\ IsData(data) /\ k \in DOMAIN reqs /\ k[1] = n1 /\ k[2] \in DOMAIN data /\ reqs[k] > 0
              /\ b(d, m) = NewData(n1, dn, reqs, nw, data, time)
          BY <4>1, <4>2, <5>1
        <5> HIDE DEF m
        <5>3. \E r \in NewData(n1, dn, reqs, nw, data, time).res : r.id = reqs[k] /\ r.sub = <<>> /\ r.val = data[k[2]]
          BY <5>2, NewDataAnswers
        <5>. QED  BY <5>1, <5>2, <5>3
      <4>4. ValueOf(n, f)' = m.data[f]
        BY <1>6, <3>3, <3>6
      <4>. QED  BY <3>1, <4>1, <4>3, <4>4
    <3>7. CASE n = name[c] /\ f \notin DOMAIN m.data
      BY <1>6, <3>3, <3>4, <3>7
    <3>. QED  BY <3>5, <3>6, <3>7
  <2>12. conn_of'[p] = conn_of[p] /\ entry'[p] = entry[p] /\ data_recv'[p] = data_recv[p]
         /\ given'[p] = given[p] /\ req'[p] = req[p]
    BY <1>4
  <2>13. PICK b1 : b1 = b(d, m)
    OBVIOUS
  <2> HIDE DEF m
  <2>14. \A k \in DOMAIN req[p] :
                (/\ req[p][k] > 0 /\ k[1] \notin mixed'
                 /\ Asking(sent'[conn_of[p]], k) = {} /\ HasValue(k[1], k[2])') =>
                    \/ /\ Initialised(p) /\ Asking(sent[conn_of[p]], k) = {} /\ HasValue(k[1], k[2])
                       /\ ValueOf(k[1], k[2])' = ValueOf(k[1], k[2]) /\ k[1] \notin b1.init
                    \/ \E r \in b1.res : r.id = req[p][k] /\ r.sub = <<>> /\ r.val = ValueOf(k[1], k[2])'
    BY <2>1, <2>11, <2>13
  <2>15. \A r \in b1.res : \E n \in Name :
                /\ FoundName(n)' # {} /\ ResultOf(given[p], r, n) /\ r.val.field \in Field
                /\ n \notin mixed' => HasValue(n, r.val.field)' /\ r.val = ValueOf(n, r.val.field)'
    BY <2>8, <2>13
  <2>16. \A n \in Name \ (mixed' \cup {MemberName[p]}) : FoundName(n)' # {} =>
                /\ n \in b1.init \/ (Initialised(p) /\ FoundName(n) # {})
                /\ \A f \in Field :
                      (HasValue(n, f)' /\ Visible(f)) <=>
                          <<n, f>> \in b1.entry \/ (n \notin b1.init /\ HasValue(n, f) /\ Visible(f))
    BY <2>9, <2>13
  <2>17. \A n \in Name \ (mixed' \cup {MemberName[p]}) :
                \/ n \in b1.init \/ FoundName(n) = {}
                \/ Initialised(p) /\ \A f \in Field : HasValue(n, f) => HasValue(n, f)'
    BY <2>10, <2>13
  <2>18. Grows(recv_queue[p], recv_queue'[p], b1)
    BY <2>2, <2>13
  <2>19. ResultsRequested(p)' /\ WillListAll(p)' /\ OnlyOfFound(p)' /\ NothingOld(p)' /\ WillReadAll(p)'
    BY <1>1, <1>16, <2>3, <2>12, <2>14, <2>15, <2>16, <2>17, <2>18, ToldClient
  <2>. QED  BY <2>6, <2>19 DEF ClientInv
<1>. QED  BY <1>15, <1>17, <1>18 DEF PubSubInv

LEMMA BatchFields ==
    ASSUME NEW i, NEW e, NEW s, NEW r
    PROVE  /\ Batch(i, e, s, r).init = i /\ Batch(i, e, s, r).entry = e
           /\ Batch(i, e, s, r).sync = s /\ Batch(i, e, s, r).res = r
BY DEF Batch

Answering(b, s, r) == [b EXCEPT !.sync = s, !.res = r]
Introducing(b, i) == [b EXCEPT !.init = i]

LEMMA BatchExcept ==
    ASSUME NEW i, NEW e, NEW s, NEW r
    PROVE  /\ \A s2, r2 : Answering(Batch(i, e, s, r), s2, r2) = Batch(i, e, s2, r2)
           /\ \A i2 : Introducing(Batch(i, e, s, r), i2) = Batch(i2, e, s, r)
<1> SUFFICES ASSUME NEW s2, NEW r2, NEW i2
             PROVE  /\ Answering(Batch(i, e, s, r), s2, r2) = Batch(i, e, s2, r2)
                    /\ Introducing(Batch(i, e, s, r), i2) = Batch(i2, e, s, r)
  OBVIOUS
<1> DEFINE b == [init |-> i, entry |-> e, sync |-> s, res |-> r]
           x == [b EXCEPT !.sync = s2, !.res = r2]
           y == [b EXCEPT !.init = i2]
<1>1. b = Batch(i, e, s, r) /\ DOMAIN b = {"init", "entry", "sync", "res"}
  BY DEF Batch
<1>2. b.init = i /\ b.entry = e /\ b.sync = s /\ b.res = r
  OBVIOUS
<1> HIDE DEF b
<1>3. x = [z \in DOMAIN b |-> x[z]] /\ DOMAIN x = DOMAIN b /\ y = [z \in DOMAIN b |-> y[z]] /\ DOMAIN y = DOMAIN b
  OBVIOUS
<1>4. /\ x.init = i /\ x.entry = e /\ x.sync = s2 /\ x.res = r2
      /\ y.init = i2 /\ y.entry = e /\ y.sync = s /\ y.res = r
  BY <1>1, <1>2
<1> HIDE DEF x, y
<1>5. x = Batch(i, e, s2, r2)
  BY <1>1, <1>3, <1>4 DEF Batch
<1>6. y = Batch(i2, e, s, r)
  BY <1>1, <1>3, <1>4 DEF Batch
<1>7. x = Answering(b, s2, r2) /\ y = Introducing(b, i2)
  BY DEF x, y, Answering, Introducing
<1>. QED  BY <1>1, <1>5, <1>6, <1>7

\* What a member that is registered as n0 is told of the others first.
LEMMA ListingKnown ==
    ASSUME StoreInv, PubSubTypeOK, NEW c \in Conn, c \in clients, ~sync_init[c], NEW n0 \in MName,
           NEW id \in AssignableId(c, n0)
    PROVE  /\ Listing(id).init \subseteq Name \ {n0} /\ Listing(id).entry \subseteq (Name \ {n0}) \X Field
           /\ \A n \in Name \ {n0} : n \in Listing(id).init <=> FoundName(n) # {}
           /\ \A n \in Name \ {n0} : \A f : <<n, f>> \in Listing(id).entry <=> HasValue(n, f) /\ Visible(f)
           /\ \A s, r : Answering(Listing(id), s, r) = Batch(Listing(id).init, Listing(id).entry, s, r)
<1> DEFINE others == {i \in ForEachWithName : member_id[clients_by_id[i]] # id}
           its(i) == {g \in DOMAIN value[clients_by_id[i]] : Visible(g)}
<1>1. /\ Listing(id).init = {name[clients_by_id[i]] : i \in others}
      /\ Listing(id).entry = UNION {{<<name[clients_by_id[i]], f>> : f \in its(i)} : i \in others}
  BY DEF Listing, Batch
<1>2. /\ \A i \in DOMAIN clients_by_id : clients_by_id[i] \in Conn /\ member_id[clients_by_id[i]] = i
                                         /\ sync_init[clients_by_id[i]] /\ name[clients_by_id[i]] \in MName
      /\ c \in clients /\ member_id[c] # 0
  BY DEF StoreInv, StoreTypeOK, EntryUnderOwnId, Filed, IdsBelowLast
<1>3. \A i \in others : i \in DOMAIN clients_by_id /\ i # id /\ name[clients_by_id[i]] \in Name \ {n0}
  <2> SUFFICES ASSUME NEW i \in others
               PROVE  i \in DOMAIN clients_by_id /\ i # id /\ name[clients_by_id[i]] \in Name \ {n0}
    OBVIOUS
  <2>1. i \in DOMAIN clients_by_id /\ i # id /\ name[clients_by_id[i]] # NoName
    BY <1>2 DEF ForEachWithName
  <2>2. name[clients_by_id[i]] \in Name
    BY <1>2, <2>1 DEF MName
  <2>3. ASSUME name[clients_by_id[i]] = n0 PROVE FALSE
    <3>1. id \in SameName(n0)
      BY <2>1, <2>3 DEF AssignableId, SameName
    <3>2. id \in DOMAIN clients_by_id /\ name[clients_by_id[id]] = n0
      BY <3>1 DEF SameName
    <3>. QED  BY <2>1, <2>3, <3>2 DEF StoreInv, EntryUnderOwnId
  <2>. QED  BY <2>1, <2>2, <2>3
<1>4. ASSUME NEW n \in Name \ {n0}, FoundName(n) # {}
      PROVE  \E i \in others : name[clients_by_id[i]] = n
  <2>1. PICK i \in DOMAIN clients_by_id : name[clients_by_id[i]] = n
    BY <1>4 DEF FoundName, SameName
  <2>2. ASSUME i = id PROVE FALSE
    <3>1. id \notin SameName(n0)
      BY <2>1, <2>2 DEF SameName
    <3>2. id = member_id[c]
      BY <3>1 DEF AssignableId
    <3>3. member_id[clients_by_id[id]] = member_id[c] /\ sync_init[clients_by_id[id]] /\ clients_by_id[id] \in Conn
      BY <1>2, <2>1, <2>2, <3>2
    <3>4. clients_by_id[id] = c
      BY <1>2, <3>3 DEF StoreInv, IdsShared
    <3>. QED  BY <3>3, <3>4
  <2>3. i \in others
    BY <1>2, <2>1, <2>2, NoNameAssumption DEF ForEachWithName
  <2>. QED  BY <2>1, <2>3
<1>5. ASSUME NEW i \in others PROVE FoundName(name[clients_by_id[i]]) # {} /\ EntryOf(name[clients_by_id[i]]) = clients_by_id[i]
  BY <1>3, EntryFound
<1> HIDE DEF others
<1>6. \A n \in Name \ {n0} : n \in Listing(id).init <=> FoundName(n) # {}
  BY <1>1, <1>4, <1>5
<1>7. ASSUME NEW n \in Name \ {n0}, NEW f PROVE <<n, f>> \in Listing(id).entry <=> HasValue(n, f) /\ Visible(f)
  <2>1. ASSUME <<n, f>> \in Listing(id).entry PROVE HasValue(n, f) /\ Visible(f)
    <3>1. PICK i \in others : <<n, f>> \in {<<name[clients_by_id[i]], g>> : g \in its(i)}
      BY <1>1, <2>1
    <3>2. n = name[clients_by_id[i]] /\ f \in its(i)
      BY <3>1
    <3>. QED  BY <1>5, <3>2 DEF HasValue
  <2>2. ASSUME HasValue(n, f), Visible(f) PROVE <<n, f>> \in Listing(id).entry
    <3>1. PICK i \in others : name[clients_by_id[i]] = n
      BY <1>4, <2>2 DEF HasValue
    <3>2. f \in its(i)
      BY <1>5, <2>2, <3>1 DEF HasValue
    <3>3. <<n, f>> \in {<<name[clients_by_id[i]], g>> : g \in its(i)}
      BY <3>1, <3>2
    <3>. QED  BY <1>1, <3>3
  <2>. QED  BY <2>1, <2>2
<1>8. Listing(id).init \subseteq Name \ {n0} /\ Listing(id).entry \subseteq (Name \ {n0}) \X Field
  <2>1. \A i \in others : its(i) \subseteq Field
    BY <1>2, <1>3 DEF PubSubTypeOK, IsData, IsMap
  <2> HIDE DEF its
  <2>2. \A i \in others : {<<name[clients_by_id[i]], f>> : f \in its(i)} \subseteq (Name \ {n0}) \X Field
    BY <1>3, <2>1
  <2>. QED  BY <1>1, <1>3, <2>2
<1>9. \A s, r : Answering(Listing(id), s, r) = Batch(Listing(id).init, Listing(id).entry, s, r)
  <2>1. \E i, e : Listing(id) = Batch(i, e, <<>>, {})
    BY DEF Listing
  <2>2. PICK i, e : Listing(id) = Batch(i, e, <<>>, {})
    BY <2>1
  <2>3. Listing(id).init = i /\ Listing(id).entry = e
    BY <2>2, BatchFields
  <2>. QED  BY <2>2, <2>3, BatchExcept
<1>. QED  BY <1>6, <1>7, <1>8, <1>9

\* The first message of c is read: what there is of the others stays, and of its own name
\* there is what it has brought.
Registered(n, c, data) ==
    /\ n # OwnName(c) => SameOf(n) /\ FoundName(n)' = FoundName(n)
    /\ n = OwnName(c) =>
          /\ FoundName(n)' # {}
          /\ \A f \in Field : /\ HasValue(n, f)' <=> f \in DOMAIN data
                              /\ f \in DOMAIN data => ValueOf(n, f)' = data[f]

LEMMA ValuesBrought ==
    ASSUME StoreInv, StoreInv', PubSubTypeOK, NEW c \in Conn, NEW id, syncInit(c, id), NEW data,
           value' = [value EXCEPT ![c] = data], NEW n \in Name
    PROVE  Registered(n, c, data)
<1>1. id \in AssignableId(c, OwnName(c)) /\ registerClient(c, OwnName(c), id) /\ OwnName(c) \in MName
  BY ClientAssumption DEF syncInit, OwnName
<1> DEFINE n0 == OwnName(c)
<1> HIDE DEF n0
<1>2. /\ n = n0 => FoundName(n)' # {} /\ EntryOf(n)' = c
      /\ n # n0 => FoundName(n)' = FoundName(n)
      /\ n # n0 /\ FoundName(n) # {} => EntryOf(n)' = EntryOf(n) /\ EntryOf(n) # c
  BY <1>1, RegisteredEntry DEF n0
<1>3. DOMAIN value = Conn /\ value'[c] = data /\ \A d \in Conn \ {c} : value'[d] = value[d]
  BY TypeDomains
<1>4. ASSUME n # n0 PROVE SameOf(n)
  <2>1. FoundName(n) # {} => EntryOf(n) \in Conn \ {c}
    BY <1>2, <1>4, FoundEntry
  <2>. QED  BY <1>2, <1>3, <1>4, <2>1 DEF SameOf, HasValue, ValueOf
<1>5. ASSUME n = n0, NEW f \in Field
      PROVE  /\ HasValue(n, f)' <=> f \in DOMAIN data
             /\ f \in DOMAIN data => ValueOf(n, f)' = data[f]
  BY <1>2, <1>3, <1>5 DEF HasValue, ValueOf
<1>. QED  BY <1>2, <1>4, <1>5 DEF Registered, n0

LEMMA NewDataBatch ==
    ASSUME NEW n, NEW d, NEW reqs, NEW news, NEW data, NEW time, NEW i
    PROVE  LET b == NewData(n, d, reqs, news, data, time) IN
           /\ Introducing(b, i).init = i /\ Introducing(b, i).entry = b.entry
           /\ Introducing(b, i).sync = b.sync /\ Introducing(b, i).res = b.res
<1>1. \E e, s, r : NewData(n, d, reqs, news, data, time) = Batch({}, e, s, r)
  BY DEF NewData
<1>2. PICK e, s, r : NewData(n, d, reqs, news, data, time) = Batch({}, e, s, r)
  BY <1>1
<1>3. Introducing(NewData(n, d, reqs, news, data, time), i) = Batch(i, e, s, r)
  BY <1>2, BatchExcept
<1>. QED  BY <1>2, <1>3, BatchFields

LEMMA SyncInitStep ==
    ASSUME PubSubInv, StoreInv', NEW c \in Conn, SyncInit(c)
    PROVE  PubSubInv'
<1> DEFINE m == sent[c][1]
           p0 == owner[c]
           n0 == OwnName(c)
           new(d, m0) == NewData(n0, IF d = c THEN n0 ELSE name[d], value_req'[d], DOMAIN m0.data, m0.data, m0.time)
           told(d, id) == IF n0 # NoName /\ d \in ForEach /\ member_id[d] # id THEN {n0} ELSE {}
           syncs(m0) == Overwrite(SyncsFor(DOMAIN m0.req), new(c, m0).sync)
           results(m0) == UNION {Answers(k, m0.req[k]) : k \in DOMAIN m0.req} \cup new(c, m0).res
           msgs(id, m0) == [d \in Conn |-> IF d = c THEN <<Answering(Listing(id), syncs(m0), results(m0))>>
                                           ELSE IF d \in ForEach THEN OneBatch(Introducing(new(d, m0), told(d, id)))
                                           ELSE <<>>]
<1>1. PubSubTypeOK /\ IdsGiven /\ StoreInv /\ \A p \in Client : ClientInv(p)
  BY DEF PubSubInv
<1>2. Head(sent[c]) = m /\ sent[c] # <<>> /\ IsSequence(sent[c]) /\ 1 \in DOMAIN sent[c]
  BY <1>1, TailSequence DEF SyncInit, Read, PubSubTypeOK
<1>3. PICK id \in AssignableId(c, n0) : syncInit(c, id) /\ SendEach(msgs(id, Head(sent[c])))
  <2>1. PICK id \in AssignableId(c, n0) :
          /\ syncInit(c, id)
          /\ SendEach([d \in Conn |->
              LET nw == NewData(n0, IF d = c THEN n0 ELSE name[d], value_req'[d],
                                 DOMAIN Head(sent[c]).data, Head(sent[c]).data, Head(sent[c]).time)
                  tl == IF n0 # NoName /\ d \in ForEach /\ member_id[d] # id
                          THEN {n0} ELSE {}
              IN IF d = c
                 THEN <<[Listing(id) EXCEPT
                           !.sync = Overwrite(SyncsFor(DOMAIN Head(sent[c]).req), nw.sync),
                           !.res = UNION {Answers(k, Head(sent[c]).req[k]) : k \in DOMAIN Head(sent[c]).req}
                                   \cup nw.res]>>
                 ELSE IF d \in ForEach THEN OneBatch([nw EXCEPT !.init = tl])
                 ELSE <<>>])
    BY DEF SyncInit
  <2>. QED  BY <2>1 DEF Answering, Introducing
<1>4. /\ c \in clients /\ ~sync_init[c] /\ m.kind = "first" /\ sent' = [sent EXCEPT ![c] = Tail(@)]
      /\ value' = [value EXCEPT ![c] = m.data] /\ value_req' = [value_req EXCEPT ![c] = m.req]
      /\ UNCHANGED <<clients, conn_of, own, req, data_recv, entry, sync_time, writes, frees, given, mixed>>
      /\ sync_init' = [sync_init EXCEPT ![c] = TRUE] /\ name' = [name EXCEPT ![c] = n0]
      /\ member_id' = [member_id EXCEPT ![c] = id]
  BY <1>2, <1>3 DEF SyncInit, Read, syncInit, registerClient, clientVars
<1>5. PICK data, reqs, time : data = m.data /\ reqs = m.req /\ time = m.time
  OBVIOUS
<1>6. /\ p0 \in Client /\ n0 = MemberName[p0] /\ n0 \in MName /\ (n0 = NoName \/ n0 \in Name)
      /\ IsData(data) /\ IsReq(p0, reqs) /\ time \in Nat /\ GivenTo(given[p0], reqs)
  <2>1. ToServer(p0, m) /\ GivenTo(given[p0], m.req)
    BY <1>1, <1>2, <1>4 DEF PubSubTypeOK, IdsGiven
  <2>. QED  BY <1>4, <1>5, <2>1, ClientAssumption DEF ToServer, OwnName, MName
<1>7. \A n \in Name : Registered(n, c, data)
  BY <1>1, <1>3, <1>4, <1>5, ValuesBrought
<1>8. /\ DOMAIN value' = Conn /\ value'[c] = data /\ \A d \in Conn \ {c} : value'[d] = value[d]
      /\ DOMAIN value_req' = Conn /\ value_req'[c] = reqs /\ \A d \in Conn \ {c} : value_req'[d] = value_req[d]
      /\ sync_init'[c] /\ name'[c] = n0 /\ member_id'[c] = id
      /\ \A d \in Conn \ {c} : name'[d] = name[d] /\ member_id'[d] = member_id[d] /\ sync_init'[d] = sync_init[d]
      /\ DOMAIN sync_init = Conn /\ DOMAIN name = Conn
  <2>1. DOMAIN sync_init = Conn /\ DOMAIN name = Conn /\ DOMAIN member_id = Conn
    BY <1>1 DEF StoreInv, StoreTypeOK
  <2>. QED  BY <1>1, <1>4, <1>5, <2>1, TypeDomains
<1>9. /\ msgs(id, m)[c] = <<Answering(Listing(id), syncs(m), results(m))>>
      /\ \A d \in Conn \ {c} : msgs(id, m)[d] = IF d \in ForEach THEN OneBatch(Introducing(new(d, m), told(d, id))) ELSE <<>>
      /\ \A d \in Conn \ {c} : new(d, m) = NewData(n0, name[d], value_req[d], DOMAIN data, data, time)
      /\ new(c, m) = NewData(n0, n0, reqs, DOMAIN data, data, time)
      /\ syncs(m) = Overwrite(SyncsFor(DOMAIN reqs), new(c, m).sync)
      /\ results(m) = UNION {Answers(k, reqs[k]) : k \in DOMAIN reqs} \cup new(c, m).res
  <2>1. c \in Conn /\ m.data = data /\ m.req = reqs /\ m.time = time
    BY <1>5
  <2>2. /\ msgs(id, m)[c] = <<Answering(Listing(id), syncs(m), results(m))>>
        /\ \A d \in Conn \ {c} : msgs(id, m)[d] = IF d \in ForEach THEN OneBatch(Introducing(new(d, m), told(d, id))) ELSE <<>>
    <3> HIDE DEF m, new, told, syncs, results
    <3>. QED  OBVIOUS
  <2>3. new(c, m) = NewData(n0, n0, reqs, DOMAIN data, data, time)
    <3>1. value_req'[c] = reqs
      BY <1>8
    <3> HIDE DEF m, n0
    <3>. QED  BY <2>1, <3>1
  <2>4. \A d \in Conn \ {c} : new(d, m) = NewData(n0, name[d], value_req[d], DOMAIN data, data, time)
    <3>1. \A d \in Conn \ {c} : value_req'[d] = value_req[d]
      BY <1>8
    <3> HIDE DEF m, n0
    <3>. QED  BY <2>1, <3>1
  <2>5. /\ syncs(m) = Overwrite(SyncsFor(DOMAIN reqs), new(c, m).sync)
        /\ results(m) = UNION {Answers(k, reqs[k]) : k \in DOMAIN reqs} \cup new(c, m).res
    <3> HIDE DEF m, new
    <3>. QED  BY <2>1
  <2>. QED  BY <2>2, <2>3, <2>4, <2>5
<1>10. /\ c \notin ForEach /\ ForEach \subseteq Conn
       /\ \A d \in ForEach : /\ name[d] = MemberName[owner[d]] /\ IsReq(owner[d], value_req[d]) /\ owner[d] \in Client
                             /\ GivenTo(given[owner[d]], value_req[d])
                             /\ told(d, id) \subseteq Name \cap {n0}
                             /\ n0 # NoName /\ name[d] # n0 => told(d, id) = {n0}
  <2>1. c \notin ForEach /\ ForEach \subseteq Conn
    BY <1>1, <1>4 DEF ForEach, StoreInv, StoreTypeOK
  <2>2. ASSUME NEW d \in ForEach
        PROVE  /\ name[d] = MemberName[owner[d]] /\ IsReq(owner[d], value_req[d]) /\ owner[d] \in Client
               /\ GivenTo(given[owner[d]], value_req[d])
    BY <1>1, <2>1, ClientAssumption DEF ForEach, PubSubTypeOK, OwnName, IdsGiven
  <2>3. \A d \in ForEach : told(d, id) \subseteq Name \cap {n0}
    BY <1>6
  <2>4. ASSUME NEW d \in ForEach, n0 # NoName, name[d] # n0 PROVE told(d, id) = {n0}
    <3>1. d \in Conn \ {c} /\ sync_init[d]
      BY <2>1 DEF ForEach
    <3>2. sync_init'[d] /\ sync_init'[c] /\ name'[d] # name'[c] /\ member_id'[d] = member_id[d] /\ member_id'[c] = id
      BY <1>8, <2>4, <3>1
    <3>3. IdsShared'
      BY DEF StoreInv
    <3>4. member_id[d] # id
      BY <3>1, <3>2, <3>3 DEF IdsShared
    <3>. QED  BY <2>4, <3>4
  <2>. QED  BY <2>1, <2>2, <2>3, <2>4
<1>11. SendEach(msgs(id, m))
  BY <1>2, <1>3
<1> DEFINE b(d) == Introducing(NewData(n0, name[d], value_req[d], DOMAIN data, data, time), told(d, id))
           bc == Batch(Listing(id).init, Listing(id).entry, syncs(m), results(m))
<1>12. /\ Listing(id).init \subseteq Name \ {n0} /\ Listing(id).entry \subseteq (Name \ {n0}) \X Field
       /\ \A n \in Name \ {n0} : n \in Listing(id).init <=> FoundName(n) # {}
       /\ \A n \in Name \ {n0} : \A f : <<n, f>> \in Listing(id).entry <=> HasValue(n, f) /\ Visible(f)
       /\ Answering(Listing(id), syncs(m), results(m)) = bc
  <2>1. PICK x \in MName : x = n0
    BY <1>6
  <2>2. id \in AssignableId(c, x)
    BY <1>3, <2>1
  <2>3. /\ Listing(id).init \subseteq Name \ {x} /\ Listing(id).entry \subseteq (Name \ {x}) \X Field
        /\ \A n \in Name \ {x} : n \in Listing(id).init <=> FoundName(n) # {}
        /\ \A n \in Name \ {x} : \A f : <<n, f>> \in Listing(id).entry <=> HasValue(n, f) /\ Visible(f)
    BY <1>1, <1>4, <2>2, ListingKnown
  <2>4. \A s, r : Answering(Listing(id), s, r) = Batch(Listing(id).init, Listing(id).entry, s, r)
    BY <1>1, <1>4, <2>2, ListingKnown
  <2> HIDE DEF n0, syncs, results, m
  <2>5. Answering(Listing(id), syncs(m), results(m)) = bc
    BY <2>4
  <2>. QED  BY <2>1, <2>3, <2>5
<1>13. \A d \in Conn : msgs(id, m)[d] = IF d = c THEN <<bc>> ELSE IF d \in ForEach THEN OneBatch(b(d)) ELSE <<>>
  BY <1>9, <1>12
<1>14. new(c, m).res = {} /\ IsMap(new(c, m).sync, MName, Nat)
  <2>1. PICK x \in MName : x = n0 /\ x = MemberName[p0]
    BY <1>6
  <2>2. new(c, m) = NewData(x, MemberName[p0], reqs, DOMAIN data, data, time)
    BY <1>9, <2>1
  <2> HIDE DEF new, m, p0, n0
  <2>3. ToClient(p0, new(c, m))
    BY SMTT(30), <1>6, <2>2, NewDataType
  <2>4. ASSUME NEW r \in new(c, m).res PROVE FALSE
    <3>1. r \in NewData(x, MemberName[p0], reqs, DOMAIN data, data, time).res
      BY <2>2
    <3>2. PICK f \in Field : findReqField(reqs, x, f).id > 0
      BY <1>6, <3>1 DEF NewData, Batch, IsData, IsMap
    <3>3. PICK h \in Field : <<x, h>> \in DOMAIN reqs
      BY <1>6, <3>2, ReqFieldFound
    <3>4. <<x, h>> \in Wanted[p0]
      BY <1>6, <3>3 DEF IsReq, IsMap
    <3>5. \A k \in Wanted[p0] : k[1] # MemberName[p0]
      BY <1>6, PubSubAssumption
    <3>. QED  BY <2>1, <3>4, <3>5
  <2>. QED  BY <2>3, <2>4 DEF ToClient
<1>15. /\ bc.init = Listing(id).init /\ bc.entry = Listing(id).entry /\ bc.sync = syncs(m)
       /\ bc.res = UNION {Answers(k, reqs[k]) : k \in DOMAIN reqs}
  <2>1. bc.init = Listing(id).init /\ bc.entry = Listing(id).entry /\ bc.sync = syncs(m) /\ bc.res = results(m)
    <3> HIDE DEF new, syncs, results
    <3>. QED  BY BatchFields
  <2> HIDE DEF new, syncs, results, bc
  <2>. QED  BY <1>9, <1>14, <2>1
<1>16. \A k \in DOMAIN reqs : /\ k \in Wanted[p0] /\ reqs[k] \in Nat /\ <<reqs[k], k>> \in given[p0]
                              /\ k[1] \in Name \ {n0} /\ k[2] \in Field
  BY <1>6, PubSubAssumption DEF IsReq, IsMap, GivenTo
<1> HIDE DEF bc, new, syncs, results
<1>17. \A r \in bc.res : \E n \in Name \ {n0} :
           /\ ResultOf(given[p0], r, n) /\ FoundName(n) # {} /\ HasValue(n, r.val.field)
           /\ r.val = ValueOf(n, r.val.field) /\ r \in [id : Nat, sub : Seq(Word), val : [field : Field, n : Nat]]
  <2> SUFFICES ASSUME NEW r \in bc.res
               PROVE  \E n \in Name \ {n0} :
           /\ ResultOf(given[p0], r, n) /\ FoundName(n) # {} /\ HasValue(n, r.val.field)
           /\ r.val = ValueOf(n, r.val.field) /\ r \in [id : Nat, sub : Seq(Word), val : [field : Field, n : Nat]]
    OBVIOUS
  <2>1. PICK k \in DOMAIN reqs : r \in Answers(k, reqs[k])
    BY <1>15
  <2>2. k \in Wanted[p0] /\ reqs[k] \in Nat /\ <<reqs[k], k>> \in given[p0] /\ k[1] \in Name \ {n0} /\ p0 \in Client
    BY <1>6, <1>16
  <2> HIDE DEF p0, n0, m
  <2>3. /\ ResultOf(given[p0], r, k[1]) /\ FoundName(k[1]) # {}
        /\ HasValue(k[1], r.val.field) /\ r.val = ValueOf(k[1], r.val.field)
        /\ r \in [id : Nat, sub : Seq(Word), val : [field : Field, n : Nat]]
    BY <1>1, <2>1, <2>2, AnswerResults
  <2>. QED  BY <2>2, <2>3
<1>18. \A k \in DOMAIN reqs : HasValue(k[1], k[2]) =>
           \E r \in bc.res : r.id = reqs[k] /\ r.sub = <<>> /\ r.val = ValueOf(k[1], k[2])
  <2> SUFFICES ASSUME NEW k \in DOMAIN reqs, HasValue(k[1], k[2])
               PROVE  \E r \in bc.res : r.id = reqs[k] /\ r.sub = <<>> /\ r.val = ValueOf(k[1], k[2])
    OBVIOUS
  <2>1. k \in Wanted[p0] /\ p0 \in Client
    BY <1>6, <1>16
  <2>2. \E r \in Answers(k, reqs[k]) : r.id = reqs[k] /\ r.sub = <<>> /\ r.val = ValueOf(k[1], k[2])
    BY <2>1, AnswerOfItself
  <2>. QED  BY <1>15, <2>2
<1>19. ToClient(p0, bc)
  <2>1. IsMap(SyncsFor(DOMAIN reqs), MName, Nat)
    BY DEF IsMap, SyncsFor, last_sync_time, MName
  <2>2. IsMap(bc.sync, MName, Nat)
    BY <1>9, <1>14, <1>15, <2>1, OverwriteMap
  <2>3. bc.init \subseteq Name /\ bc.entry \subseteq (MName \ {MemberName[p0]}) \X Field
    BY <1>6, <1>12, <1>15 DEF MName
  <2>. QED  BY <1>17, <2>2, <2>3 DEF ToClient
<1>20. ASSUME NEW d \in ForEach
       PROVE  /\ b(d).init = told(d, id) /\ ToClient(owner[d], b(d))
              /\ \A x, f : <<x, f>> \in b(d).entry <=>
                              x = n0 /\ MemberName[owner[d]] # n0 /\ f \in DOMAIN data /\ Visible(f)
              /\ \A r \in b(d).res : /\ ResultOf(given[owner[d]], r, n0) /\ n0 \in Name
                                     /\ r.val.field \in DOMAIN data /\ r.val = data[r.val.field]
              /\ \A k \in DOMAIN value_req[d] : k[1] = n0 /\ k[2] \in DOMAIN data /\ value_req[d][k] > 0 =>
                    \E r \in b(d).res : r.id = value_req[d][k] /\ r.sub = <<>> /\ r.val = data[k[2]]
  <2>0. PICK x \in MName, p \in Client : x = n0 /\ p = owner[d]
    BY <1>6, <1>10
  <2>1. PICK R, tl : R = value_req[d] /\ tl = told(d, id)
    OBVIOUS
  <2> DEFINE nw == NewData(x, MemberName[p], R, DOMAIN data, data, time)
             bd == Introducing(nw, tl)
  <2>2. bd = b(d)
    BY <1>10, <2>0, <2>1
  <2>3. /\ bd.init = tl /\ bd.entry = nw.entry /\ bd.sync = nw.sync /\ bd.res = nw.res
    BY NewDataBatch
  <2>4. IsReq(p, R) /\ GivenTo(given[p], R) /\ tl \subseteq Name
    BY <1>10, <2>0, <2>1
  <2> HIDE DEF b, m, n0, p0, told
  <2>5. /\ ToClient(p, nw)
        /\ \A y, f : <<y, f>> \in nw.entry <=> y = x /\ MemberName[p] # x /\ f \in DOMAIN data /\ Visible(f)
    BY <1>6, <2>4, NewDataType
  <2>6. \A r \in nw.res : /\ ResultOf(given[p], r, x) /\ x \in Name
                          /\ r.val.field \in DOMAIN data /\ r.val = data[r.val.field]
    BY <1>6, <2>4, NewDataResults
  <2>7. \A k \in DOMAIN R : k[1] = x /\ k[2] \in DOMAIN data /\ R[k] > 0 =>
            \E r \in nw.res : r.id = R[k] /\ r.sub = <<>> /\ r.val = data[k[2]]
    <3> SUFFICES ASSUME NEW k \in DOMAIN R, k[1] = x, k[2] \in DOMAIN data, R[k] > 0
                 PROVE  \E r \in nw.res : r.id = R[k] /\ r.sub = <<>> /\ r.val = data[k[2]]
      OBVIOUS
    <3>1. PICK dn, nws : dn = MemberName[p] /\ nws = DOMAIN data
      OBVIOUS
    <3>2. IsReq(p, R) /\ IsData(data) /\ p \in Client /\ k \in DOMAIN R /\ k[1] = x /\ k[2] \in DOMAIN data /\ R[k] > 0
      BY <1>6, <2>4
    <3>3. \E r \in NewData(x, dn, R, nws, data, time).res : r.id = R[k] /\ r.sub = <<>> /\ r.val = data[k[2]]
      BY <3>2, NewDataAnswers
    <3>. QED  BY <3>1, <3>3
  <2> HIDE DEF nw, bd
  <2>8. ToClient(p, bd)
    BY <2>3, <2>4, <2>5 DEF ToClient
  <2>. QED  BY <2>0, <2>1, <2>2, <2>3, <2>5, <2>6, <2>7, <2>8
<1> HIDE DEF b, told, msgs
<1>21. DOMAIN recv_queue' = Client
       /\ \A p \in Client :
             /\ conn_of[p] = c => p = p0 /\ c # NoConn /\ Grows(recv_queue[p], recv_queue'[p], bc)
             /\ Initialised(p) => /\ conn_of[p] \in ForEach /\ conn_of[p] # NoConn /\ owner[conn_of[p]] = p
                                  /\ Grows(recv_queue[p], recv_queue'[p], b(conn_of[p]))
             /\ conn_of[p] # c /\ ~Initialised(p) => recv_queue'[p] = recv_queue[p]
  <2>1. c # NoConn /\ \A p \in Client : /\ conn_of[p] \in Conn \cup {NoConn} /\ (conn_of[p] = c => p = p0)
                                        /\ (Initialised(p) <=> conn_of[p] # NoConn /\ conn_of[p] \in ForEach)
                                        /\ (conn_of[p] # NoConn => owner[conn_of[p]] = p)
    BY <1>1, ClientAssumption DEF PubSubTypeOK, LinkTypeOK, Initialised, ForEach, StoreTypeOK
  <2>2. msgs(id, m)[c] = <<bc>> /\ (\A d \in ForEach : msgs(id, m)[d] = OneBatch(b(d)))
        /\ \A d \in Conn \ (ForEach \cup {c}) : msgs(id, m)[d] = <<>>
    BY <1>10, <1>13
  <2>3. ASSUME NEW p \in Client, conn_of[p] = c PROVE Grows(recv_queue[p], recv_queue'[p], bc)
    BY <1>1, <1>11, <2>1, <2>2, <2>3, SentEach
  <2>4. ASSUME NEW p \in Client, Initialised(p) PROVE Grows(recv_queue[p], recv_queue'[p], b(conn_of[p]))
    <3>1. PICK d \in ForEach : d = conn_of[p] /\ msgs(id, m)[d] = OneBatch(b(d)) /\ d # NoConn
      BY <2>1, <2>2, <2>4
    <3>. QED  BY <1>1, <1>11, <3>1, SentEach
  <2>5. ASSUME NEW p \in Client, conn_of[p] # c, ~Initialised(p) PROVE recv_queue'[p] = recv_queue[p]
    <3>1. conn_of[p] = NoConn \/ (conn_of[p] # NoConn /\ msgs(id, m)[conn_of[p]] = <<>>)
      BY <2>1, <2>2, <2>5
    <3>. QED  BY <1>1, <1>11, <3>1, SentEach
  <2>6. DOMAIN recv_queue' = Client
    BY <1>1, <1>11, SentEach
  <2>. QED  BY <2>1, <2>3, <2>4, <2>5, <2>6
<1>22. PubSubTypeOK' /\ IdsGiven'
  <2>1. \A d \in Conn : /\ IsData(value'[d]) /\ IsReq(owner[d], value_req'[d])
                        /\ GivenTo(given[owner[d]], value_req'[d])
                        /\ sync_init'[d] => name'[d] = OwnName(d)
    BY <1>1, <1>6, <1>8 DEF PubSubTypeOK, IdsGiven
  <2>2. mixed' \subseteq MName
    BY <1>1, <1>4 DEF PubSubTypeOK
  <2>3. \A p \in Client : \/ recv_queue'[p] = recv_queue[p]
                          \/ \E b0 : ToClient(p, b0) /\ Grows(recv_queue[p], recv_queue'[p], b0)
    BY <1>19, <1>20, <1>21
  <2>. QED  BY <1>2, <1>4, <1>8, <1>21, <2>1, <2>2, <2>3, ReadTypes
<1>23. mixed' = mixed /\ \A n \in Name : FoundName(n) # {} => FoundName(n)' # {}
  BY <1>4, <1>7 DEF Registered
<1>24. \A p \in Client : Initialised(p)' <=> Initialised(p) \/ conn_of[p] = c
  <2>1. \A p \in Client : conn_of[p] \in Conn \cup {NoConn}
    BY <1>1 DEF PubSubTypeOK, LinkTypeOK
  <2>2. UNCHANGED <<conn_of, clients>> /\ c \in clients /\ clients \subseteq Conn
    BY <1>1, <1>4 DEF StoreInv, StoreTypeOK
  <2>. QED  BY <1>8, <2>1, <2>2 DEF Initialised
<1>25. ASSUME NEW p \in Client, ~Initialised(p), conn_of[p] # c PROVE ClientInv(p)'
  <2>1. conn_of[p] # NoConn => SameAsking(sent'[conn_of[p]], sent[conn_of[p]])
    BY <1>1, <1>4, <1>25, ReadAsking
  <2>2. conn_of[p] # NoConn => value_req'[conn_of[p]] = value_req[conn_of[p]]
    BY <1>1, <1>8, <1>25, ConnOf
  <2>3. Untouched(p)
    BY <1>4, <1>21, <1>23, <1>24, <1>25, <2>1, <2>2 DEF Untouched
  <2>. QED  BY <1>1, <2>3, UntouchedClient
<1>26. ASSUME NEW p \in Client, Initialised(p) PROVE ClientInv(p)'
  <2>1. PICK d \in ForEach : d = conn_of[p]
    BY <1>21, <1>26
  <2>2. PICK b1 : b1 = b(d)
    OBVIOUS
  <2>3. d # c /\ d \in Conn /\ d # NoConn /\ owner[d] = p /\ name[d] = MemberName[p]
    BY <1>10, <1>21, <1>26, <2>1
  <2>4. /\ b1.init \subseteq Name \cap {n0} /\ (n0 # NoName /\ MemberName[p] # n0 => b1.init = {n0})
        /\ \A x, f : <<x, f>> \in b1.entry <=> x = n0 /\ MemberName[p] # n0 /\ f \in DOMAIN data /\ Visible(f)
        /\ \A r \in b1.res : /\ ResultOf(given[p], r, n0) /\ n0 \in Name
                             /\ r.val.field \in DOMAIN data /\ r.val = data[r.val.field]
        /\ \A k \in DOMAIN value_req[d] : k[1] = n0 /\ k[2] \in DOMAIN data /\ value_req[d][k] > 0 =>
              \E r \in b1.res : r.id = value_req[d][k] /\ r.sub = <<>> /\ r.val = data[k[2]]
    BY <1>10, <1>20, <2>2, <2>3
  <2>5. Grows(recv_queue[p], recv_queue'[p], b1)
    BY <1>21, <1>26, <2>1, <2>2
  <2>6. /\ conn_of'[p] = conn_of[p] /\ entry'[p] = entry[p] /\ data_recv'[p] = data_recv[p]
        /\ given'[p] = given[p] /\ req'[p] = req[p] /\ value_req'[d] = value_req[d]
    BY <1>4, <1>8, <2>3
  <2>7. RequestsUnderWay(p) /\ ClientInv(p) /\ IsReq(p, req[p])
    BY <1>1 DEF ClientInv, PubSubTypeOK
  <2>8. SameAsking(sent'[d], sent[d])
    BY <1>1, <1>4, <2>1, <2>3, ReadAsking
  <2>9. RequestsUnderWay(p)'
    BY <2>1, <2>6, <2>7, <2>8, RequestsKept
  <2>10. \A n \in Name : /\ n # n0 => SameOf(n) /\ FoundName(n)' = FoundName(n)
                         /\ n = n0 => /\ FoundName(n)' # {}
                                      /\ \A f \in Field : /\ HasValue(n, f)' <=> f \in DOMAIN data
                                                          /\ f \in DOMAIN data => ValueOf(n, f)' = data[f]
    BY <1>7 DEF Registered
  <2>11. DOMAIN data \subseteq Field
    BY <1>6 DEF IsData, IsMap
  <2> HIDE DEF n0, m, p0
  <2>12. \A r \in b1.res : \E n \in Name :
                /\ FoundName(n)' # {} /\ ResultOf(given[p], r, n) /\ r.val.field \in Field
                /\ n \notin mixed' => HasValue(n, r.val.field)' /\ r.val = ValueOf(n, r.val.field)'
    <3> SUFFICES ASSUME NEW r \in b1.res
                 PROVE  \E n \in Name :
                /\ FoundName(n)' # {} /\ ResultOf(given[p], r, n) /\ r.val.field \in Field
                /\ n \notin mixed' => HasValue(n, r.val.field)' /\ r.val = ValueOf(n, r.val.field)'
      OBVIOUS
    <3>1. PICK n \in Name, f \in Field : n = n0 /\ f = r.val.field /\ f \in DOMAIN data /\ r.val = data[f]
      BY <2>4, <2>11
    <3>2. FoundName(n)' # {} /\ HasValue(n, f)' /\ ValueOf(n, f)' = data[f]
      BY <2>10, <3>1
    <3>3. ResultOf(given[p], r, n)
      BY <2>4, <3>1
    <3>. QED  BY <3>1, <3>2, <3>3
  <2>13. \A n \in Name \ (mixed' \cup {MemberName[p]}) : FoundName(n)' # {} =>
                /\ n \in b1.init \/ (Initialised(p) /\ FoundName(n) # {})
                /\ \A f \in Field :
                      (HasValue(n, f)' /\ Visible(f)) <=>
                          <<n, f>> \in b1.entry \/ (n \notin b1.init /\ HasValue(n, f) /\ Visible(f))
    <3> SUFFICES ASSUME NEW n \in Name \ (mixed' \cup {MemberName[p]}), FoundName(n)' # {}
                 PROVE  /\ n \in b1.init \/ (Initialised(p) /\ FoundName(n) # {})
                        /\ \A f \in Field :
                              (HasValue(n, f)' /\ Visible(f)) <=>
                                  <<n, f>> \in b1.entry \/ (n \notin b1.init /\ HasValue(n, f) /\ Visible(f))
      OBVIOUS
    <3>1. CASE n # n0
      <4>1. n \notin b1.init /\ FoundName(n) # {} /\ SameOf(n) /\ \A f : <<n, f>> \notin b1.entry
        BY <2>4, <2>10, <3>1
      <4>. QED  BY <1>26, <4>1 DEF SameOf
    <3>2. CASE n = n0
      <4>1. n \in b1.init /\ \A f : <<n, f>> \in b1.entry <=> f \in DOMAIN data /\ Visible(f)
        BY <2>4, <3>2, NoNameAssumption
      <4>. QED  BY <2>10, <3>2, <4>1
    <3>. QED  BY <3>1, <3>2
  <2>14. \A n \in Name \ (mixed' \cup {MemberName[p]}) :
                \/ n \in b1.init \/ FoundName(n) = {}
                \/ Initialised(p) /\ \A f \in Field : HasValue(n, f) => HasValue(n, f)'
    <3> SUFFICES ASSUME NEW n \in Name \ (mixed' \cup {MemberName[p]}), n \notin b1.init
                 PROVE  \A f \in Field : HasValue(n, f) => HasValue(n, f)'
      BY <1>26
    <3>1. n # n0
      BY <2>4, NoNameAssumption
    <3>. QED  BY <2>10, <3>1 DEF SameOf
  <2>15. \A k \in DOMAIN req[p] :
                (/\ req[p][k] > 0 /\ k[1] \notin mixed'
                 /\ Asking(sent'[conn_of[p]], k) = {} /\ HasValue(k[1], k[2])') =>
                    \/ /\ Initialised(p) /\ Asking(sent[conn_of[p]], k) = {} /\ HasValue(k[1], k[2])
                       /\ ValueOf(k[1], k[2])' = ValueOf(k[1], k[2]) /\ k[1] \notin b1.init
                    \/ \E r \in b1.res : r.id = req[p][k] /\ r.sub = <<>> /\ r.val = ValueOf(k[1], k[2])'
    <3> SUFFICES ASSUME NEW k \in DOMAIN req[p], req[p][k] > 0, k[1] \notin mixed',
                        Asking(sent'[d], k) = {}, HasValue(k[1], k[2])'
                 PROVE  \/ /\ Asking(sent[d], k) = {} /\ HasValue(k[1], k[2])
                           /\ ValueOf(k[1], k[2])' = ValueOf(k[1], k[2]) /\ k[1] \notin b1.init
                        \/ \E r \in b1.res : r.id = req[p][k] /\ r.sub = <<>> /\ r.val = ValueOf(k[1], k[2])'
      BY <1>26, <2>1
    <3>1. PICK n \in Name, f \in Field : n = k[1] /\ f = k[2] /\ n # MemberName[p]
      BY <2>7, PubSubAssumption DEF IsReq, IsMap
    <3>2. Asking(sent[d], k) = {}
      BY <2>8 DEF SameAsking
    <3>3. HasValue(n, f)'
      BY <3>1
    <3>4. CASE n # n0
      <4>1. HasValue(n, f) /\ ValueOf(n, f)' = ValueOf(n, f) /\ n \notin b1.init
        BY <2>4, <2>10, <3>3, <3>4 DEF SameOf
      <4>. QED  BY <3>1, <3>2, <4>1
    <3>5. CASE n = n0
      <4>1. f \in DOMAIN data /\ ValueOf(n, f)' = data[f]
        BY <2>10, <3>3, <3>5
      <4>2. IdIn(value_req[d], k, req[p][k])
        <5>1. RequestsUnderWay(p) /\ conn_of[p] = d /\ d # NoConn
          BY <2>1, <2>3, <2>7
        <5>. QED  BY <3>2, <5>1 DEF RequestsUnderWay
      <4>3. \E r \in b1.res : r.id = value_req[d][k] /\ r.sub = <<>> /\ r.val = data[k[2]]
        BY <2>4, <3>1, <3>5, <4>1, <4>2 DEF IdIn
      <4>. QED  BY <3>1, <4>1, <4>2, <4>3 DEF IdIn
    <3>. QED  BY <3>4, <3>5
  <2>16. ResultsRequested(p)' /\ WillListAll(p)' /\ OnlyOfFound(p)' /\ NothingOld(p)' /\ WillReadAll(p)'
    BY <1>1, <1>23, <2>5, <2>6, <2>7, <2>12, <2>13, <2>14, <2>15, ToldClient
  <2>. QED  BY <2>9, <2>16 DEF ClientInv
<1>27. ASSUME NEW p \in Client, conn_of[p] = c PROVE ClientInv(p)'
  <2>1. PICK b1 : b1 = bc
    OBVIOUS
  <2>2. p = p0 /\ c # NoConn /\ Grows(recv_queue[p], recv_queue'[p], b1) /\ MemberName[p] = n0
    BY <1>6, <1>21, <1>27, <2>1
  <2>3. /\ b1.init \subseteq Name \ {n0}
        /\ \A n \in Name \ {n0} : n \in b1.init <=> FoundName(n) # {}
        /\ \A n \in Name \ {n0} : \A f : <<n, f>> \in b1.entry <=> HasValue(n, f) /\ Visible(f)
    BY <1>12, <1>15, <2>1
  <2>4. \A r \in b1.res : \E n \in Name \ {n0} :
           /\ ResultOf(given[p], r, n) /\ FoundName(n) # {} /\ HasValue(n, r.val.field)
           /\ r.val = ValueOf(n, r.val.field) /\ r.val.field \in Field
    BY <1>17, <2>1, <2>2
  <2>5. \A k \in DOMAIN reqs : HasValue(k[1], k[2]) =>
           \E r \in b1.res : r.id = reqs[k] /\ r.sub = <<>> /\ r.val = ValueOf(k[1], k[2])
    BY <1>18, <2>1
  <2>6. conn_of'[p] = conn_of[p] /\ entry'[p] = entry[p] /\ data_recv'[p] = data_recv[p]
        /\ given'[p] = given[p] /\ req'[p] = req[p] /\ conn_of'[p] = c
    BY <1>4, <1>27
  <2>7. RequestsUnderWay(p) /\ ClientInv(p) /\ IsReq(p, req[p])
    BY <1>1 DEF ClientInv, PubSubTypeOK
  <2>8. \A n \in Name \ {n0} : SameOf(n) /\ FoundName(n)' = FoundName(n)
    BY <1>7 DEF Registered
  <2>9. sent'[c] = Tail(sent[c])
    BY <1>1, <1>4, TypeDomains
  <2>10. \A k, i : AskedWith(value_req[c], sent[c][1], k, i) => IdIn(reqs, k, i)
    BY <1>4, <1>5 DEF AskedWith
  <2> HIDE DEF n0, m, p0
  <2>11. RequestsUnderWay(p)'
    <3>1. \A k \in DOMAIN req[p] :
             req[p][k] > 0 /\ AskedWith(value_req[c], sent[c][1], k, req[p][k]) => IdIn(value_req'[c], k, req[p][k])
      BY <1>8, <2>10
    <3>. QED  BY <1>2, <1>27, <2>2, <2>6, <2>7, <2>9, <3>1, RequestsRead
  <2>12. \A r \in b1.res : \E n \in Name :
                /\ FoundName(n)' # {} /\ ResultOf(given[p], r, n) /\ r.val.field \in Field
                /\ n \notin mixed' => HasValue(n, r.val.field)' /\ r.val = ValueOf(n, r.val.field)'
    <3> SUFFICES ASSUME NEW r \in b1.res
                 PROVE  \E n \in Name :
                /\ FoundName(n)' # {} /\ ResultOf(given[p], r, n) /\ r.val.field \in Field
                /\ n \notin mixed' => HasValue(n, r.val.field)' /\ r.val = ValueOf(n, r.val.field)'
      OBVIOUS
    <3>1. PICK n \in Name \ {n0} :
           /\ ResultOf(given[p], r, n) /\ FoundName(n) # {} /\ HasValue(n, r.val.field)
           /\ r.val = ValueOf(n, r.val.field) /\ r.val.field \in Field
      BY <2>4
    <3>2. FoundName(n)' # {} /\ HasValue(n, r.val.field)' /\ ValueOf(n, r.val.field)' = ValueOf(n, r.val.field)
      BY <2>8, <3>1 DEF SameOf
    <3>. QED  BY <3>1, <3>2
  <2>13. \A n \in Name \ (mixed' \cup {MemberName[p]}) : FoundName(n)' # {} =>
                /\ n \in b1.init \/ (Initialised(p) /\ FoundName(n) # {})
                /\ \A f \in Field :
                      (HasValue(n, f)' /\ Visible(f)) <=>
                          <<n, f>> \in b1.entry \/ (n \notin b1.init /\ HasValue(n, f) /\ Visible(f))
    <3> SUFFICES ASSUME NEW n \in Name \ {n0}, FoundName(n)' # {}
                 PROVE  /\ n \in b1.init
                        /\ \A f \in Field : (HasValue(n, f)' /\ Visible(f)) <=> <<n, f>> \in b1.entry
      BY <2>2
    <3>1. n \in b1.init /\ SameOf(n)
      BY <2>3, <2>8
    <3>. QED  BY <2>3, <3>1 DEF SameOf
  <2>14. \A n \in Name \ (mixed' \cup {MemberName[p]}) :
                \/ n \in b1.init \/ FoundName(n) = {}
                \/ Initialised(p) /\ \A f \in Field : HasValue(n, f) => HasValue(n, f)'
    BY <2>2, <2>3
  <2>15. \A k \in DOMAIN req[p] :
                (/\ req[p][k] > 0 /\ k[1] \notin mixed'
                 /\ Asking(sent'[conn_of[p]], k) = {} /\ HasValue(k[1], k[2])') =>
                    \/ /\ Initialised(p) /\ Asking(sent[conn_of[p]], k) = {} /\ HasValue(k[1], k[2])
                       /\ ValueOf(k[1], k[2])' = ValueOf(k[1], k[2]) /\ k[1] \notin b1.init
                    \/ \E r \in b1.res : r.id = req[p][k] /\ r.sub = <<>> /\ r.val = ValueOf(k[1], k[2])'
    <3> SUFFICES ASSUME NEW k \in DOMAIN req[p], req[p][k] > 0, Asking(sent'[c], k) = {}, HasValue(k[1], k[2])'
                 PROVE  \E r \in b1.res : r.id = req[p][k] /\ r.sub = <<>> /\ r.val = ValueOf(k[1], k[2])'
      BY <1>27
    <3>1. PICK n \in Name \ {n0}, f \in Field : n = k[1] /\ f = k[2]
      BY <2>2, <2>7, PubSubAssumption DEF IsReq, IsMap
    <3>2. AskedWith(value_req[c], sent[c][1], k, req[p][k])
      BY <1>2, <1>27, <2>2, <2>7, <2>9, ReadRequests
    <3>3. k \in DOMAIN reqs /\ reqs[k] = req[p][k]
      BY <2>10, <3>2 DEF IdIn
    <3>4. HasValue(n, f)'
      BY <3>1
    <3>5. HasValue(n, f) /\ ValueOf(n, f)' = ValueOf(n, f)
      BY <2>8, <3>4 DEF SameOf
    <3>. QED  BY <2>5, <3>1, <3>3, <3>5
  <2>16. ResultsRequested(p)' /\ WillListAll(p)' /\ OnlyOfFound(p)' /\ NothingOld(p)' /\ WillReadAll(p)'
    BY <1>1, <1>23, <2>2, <2>6, <2>7, <2>12, <2>13, <2>14, <2>15, ToldClient
  <2>. QED  BY <2>11, <2>16 DEF ClientInv
<1>. QED  BY <1>22, <1>25, <1>26, <1>27 DEF PubSubInv

----------------------------------------------------------------------------
(* The invariant.                                                          *)

LEMMA PubSubInitInv == PubSubInit => PubSubInv
<1> SUFFICES ASSUME PubSubInit PROVE PubSubInv
  OBVIOUS
<1>1. StoreInv /\ \A c \in Conn : ~sync_init[c]
  BY InitStoreInv DEF PubSubInit, LinkInit, StoreInit
<1>2. conn_of = [p \in Client |-> NoConn] /\ recv_queue = [p \in Client |-> <<>>]
  BY DEF PubSubInit, LinkInit
<1>3. IsSequence(<<>>) /\ DOMAIN <<>> = {}
  BY DEF IsSequence
<1>4. DOMAIN NoMap = {} /\ IsData(NoMap) /\ (\A p : IsReq(p, NoMap)) /\ IsMap(NoMap, MName, Nat)
  BY DEF NoMap, IsData, IsReq, IsMap
<1>5. PubSubTypeOK
  <2>1. LinkTypeOK
    BY <1>1, <1>2 DEF LinkTypeOK, StoreInv
  <2>2. {DOMAIN own, DOMAIN req, DOMAIN data_recv, DOMAIN entry, DOMAIN sync_time, DOMAIN given,
         DOMAIN recv_queue} = {Client} /\ {DOMAIN value, DOMAIN value_req, DOMAIN sent} = {Conn}
    BY <1>2 DEF PubSubInit
  <2>3. \A p \in Client :
          /\ IsData(own[p]) /\ IsReq(p, req[p])
          /\ DOMAIN data_recv[p] \subseteq MName \X Seq(Word)
          /\ entry[p] \subseteq (MName \ {MemberName[p]}) \X Field
          /\ IsMap(sync_time[p], MName, Nat)
          /\ given[p] \subseteq Nat \X Wanted[p]
          /\ IsSequence(recv_queue[p])
          /\ \A i \in DOMAIN recv_queue[p] : ToClient(p, recv_queue[p][i])
    BY <1>2, <1>3, <1>4 DEF PubSubInit
  <2>4. \A c \in Conn :
          /\ IsData(value[c]) /\ IsReq(owner[c], value_req[c])
          /\ IsSequence(sent[c]) /\ \A i \in DOMAIN sent[c] : ToServer(owner[c], sent[c][i])
          /\ sync_init[c] => name[c] = OwnName(c)
    BY <1>1, <1>3, <1>4 DEF PubSubInit
  <2>5. writes \in [Client -> Nat] /\ frees \in [Client -> Nat] /\ mixed \subseteq MName
    BY DEF PubSubInit
  <2>. QED  BY <2>1, <2>2, <2>3, <2>4, <2>5 DEF PubSubTypeOK
<1>6. IdsGiven
  BY <1>3, <1>4, ClientAssumption DEF PubSubInit, IdsGiven, GivenTo
<1>7. ASSUME NEW p \in Client PROVE ClientInv(p)
  <2>1. recv_queue[p] = <<>> /\ conn_of[p] = NoConn /\ DOMAIN data_recv[p] = {}
    BY <1>2, <1>4 DEF PubSubInit
  <2>2. ~Initialised(p)
    BY <1>1, <2>1, ClientAssumption DEF Initialised, StoreInv, StoreTypeOK
  <2>. QED  BY <1>3, <2>1, <2>2 DEF ClientInv, ResultsRequested, RequestsUnderWay, WillListAll, OnlyOfFound, NothingOld,
                                   WillReadAll
<1>. QED  BY <1>1, <1>5, <1>6, <1>7 DEF PubSubInv

LEMMA PubSubNextInv == PubSubInv /\ [PubSubNext]_pubSubVars => PubSubInv'
<1> SUFFICES ASSUME PubSubInv, [PubSubNext]_pubSubVars PROVE PubSubInv'
  OBVIOUS
<1>1. StoreInv'
  BY PubSubStoreStep, NextStoreInv DEF PubSubInv
<1>2. CASE UNCHANGED pubSubVars
  <2>1. PubSubTypeOK' /\ IdsGiven'
    BY <1>1, <1>2 DEF PubSubInv, pubSubVars, storeVars, linkVars, clientVars, serverVars, PubSubTypeOK, LinkTypeOK,
                      StoreInv, IdsGiven, IsReq
  <2>2. ASSUME NEW p \in Client PROVE ClientInv(p)'
    <3>1. UNCHANGED <<conn_of, recv_queue, entry, data_recv, given, req, sent, value_req, value, mixed,
                      clients, clients_by_id, name, sync_init>>
      BY <1>2 DEF pubSubVars, storeVars, linkVars, clientVars, serverVars
    <3>2. \A n : SameOf(n)
      BY <3>1, SameOfAll
    <3>3. Untouched(p)
      BY <3>1, <3>2 DEF Untouched, SameAsking, Initialised, SameOf
    <3>. QED  BY <3>3, UntouchedClient DEF PubSubInv
  <2>. QED  BY <1>1, <2>1, <2>2 DEF PubSubInv
<1>3. ASSUME NEW p \in Client, NEW F \in Published[p], sync(p, F) PROVE PubSubInv'
  BY <1>1, <1>3, syncStep
<1>4. ASSUME NEW p \in Client, NEW k \in Wanted[p], request(p, k) PROVE PubSubInv'
  BY <1>1, <1>4, requestStep
<1>5. ASSUME NEW p \in Client, NEW k \in Wanted[p], free(p, k) PROVE PubSubInv'
  BY <1>1, <1>5, freeStep
<1>6. ASSUME NEW p \in Client, NEW c \in Conn, Connect(p, c) PROVE PubSubInv'
  BY <1>1, <1>6, ConnectStep
<1>7. ASSUME NEW p \in Client, Disconnect(p) PROVE PubSubInv'
  BY <1>1, <1>7, DisconnectStep
<1>8. ASSUME NEW p \in Client, Recv(p) PROVE PubSubInv'
  BY <1>1, <1>8, RecvStep
<1>9. ASSUME NEW c \in Conn, SyncInit(c) PROVE PubSubInv'
  BY <1>1, <1>9, SyncInitStep
<1>10. ASSUME NEW c \in Conn, ServeSync(c) PROVE PubSubInv'
  BY <1>1, <1>10, ServeSyncStep
<1>11. ASSUME NEW c \in Conn, ServeReq(c) PROVE PubSubInv'
  BY <1>1, <1>11, ServeReqStep
<1>12. ASSUME NEW c \in Conn, Close(c) PROVE PubSubInv'
  BY <1>1, <1>12, CloseStep
<1>. QED  BY <1>2, <1>3, <1>4, <1>5, <1>6, <1>7, <1>8, <1>9, <1>10, <1>11, <1>12 DEF PubSubNext

\* What every client will know, once it has handled what is under way, is what the server
\* has, in all behaviours of the relay (PubSubInv).
THEOREM PubSubConsistent == PubSubSpec => []PubSubInv
BY PubSubInitInv, PubSubNextInv, PTL DEF PubSubSpec

LEMMA NothingWaits ==
    /\ \A E, e : WillList(<<>>, E, e) <=> e \in E
    /\ \A G, D, k : k \in D => WillHave(<<>>, G, D, k)
    /\ \A G, recv, k, id, v : WillRead(<<>>, G, recv, k, id, v) => k \in DOMAIN recv /\ recv[k] = v
    /\ \A k : Asking(<<>>, k) = {}
<1>1. DOMAIN <<>> = {}
  OBVIOUS
<1>. QED  BY <1>1 DEF Kept, WillList, WillHave, WillRead, Asking

\* A client to which everything has been delivered has the last value of every field it
\* requests, and lists the fields of all others (FieldsRelayed): for any names of fields, but
\* not of a field that others are taken for (TakenFor), nor if an id has stood for two fields
\* (IdsDiffer), nor of members whose old connection was read after the new one (mixed).
THEOREM DataRelayed == PubSubSpec => []FieldsRelayed
<1>1. PubSubInv => FieldsRelayed
  <2> SUFFICES ASSUME PubSubInv PROVE FieldsRelayed
    OBVIOUS
  <2>1. ASSUME NEW p \in Client, Settled(p)
        PROVE  /\ Initialised(p) /\ recv_queue[p] = <<>> /\ sent[conn_of[p]] = <<>> /\ ClientInv(p)
               /\ IsReq(p, req[p]) /\ entry[p] \subseteq (MName \ {MemberName[p]}) \X Field
               /\ DOMAIN data_recv[p] \subseteq MName \X Seq(Word)
    BY <2>1 DEF Settled, Initialised, PubSubInv, PubSubTypeOK
  <2>2. Relayed
    <3> SUFFICES ASSUME NEW p \in Client, Settled(p), IdsDiffer(p), NEW k \in DOMAIN req[p], req[p][k] > 0,
                        k[1] \notin mixed, ~TakenFor(p, k)
                 PROVE  IF HasValue(k[1], k[2])
                        THEN k \in DOMAIN data_recv[p] /\ data_recv[p][k] = ValueOf(k[1], k[2])
                        ELSE k \notin DOMAIN data_recv[p]
      BY DEF Relayed
    <3>1. k[1] \in Name \ (mixed \cup {MemberName[p]}) /\ k[2] \in Field /\ k = <<k[1], k[2]>>
      BY <2>1, PubSubAssumption DEF IsReq, IsMap
    <3>2. CASE HasValue(k[1], k[2])
      <4>1. WillRead(recv_queue[p], given[p], data_recv[p], k, req[p][k], ValueOf(k[1], k[2]))
        BY <2>1, <3>2, NothingWaits DEF ClientInv, WillReadAll
      <4>. QED  BY <2>1, <3>2, <4>1, NothingWaits
    <3>3. CASE ~HasValue(k[1], k[2])
      <4>1. ASSUME k \in DOMAIN data_recv[p] PROVE FALSE
        <5>1. WillHave(recv_queue[p], given[p], DOMAIN data_recv[p], <<k[1], k[2]>>)
          BY <2>1, <3>1, <4>1, NothingWaits
        <5>. QED  BY <2>1, <3>1, <3>3, <5>1 DEF ClientInv, NothingOld
      <4>. QED  BY <3>3, <4>1
    <3>. QED  BY <3>2, <3>3
  <2>3. EntriesKnown
    <3> SUFFICES ASSUME NEW p \in Client, Settled(p), NEW n \in Name \ (mixed \cup {MemberName[p]}), FoundName(n) # {}
                 PROVE  {e \in entry[p] : e[1] = n} = {<<n, f>> : f \in {g \in DOMAIN value[EntryOf(n)] : Visible(g)}}
      BY DEF EntriesKnown
    <3>1. \A f \in Field : <<n, f>> \in entry[p] <=> HasValue(n, f) /\ Visible(f)
      BY <2>1, NothingWaits DEF ClientInv, WillListAll
    <3>2. EntryOf(n) \in Conn /\ StoreInv
      BY FoundEntry DEF PubSubInv
    <3>3. DOMAIN value[EntryOf(n)] \subseteq Field
      BY <3>2 DEF PubSubInv, PubSubTypeOK, IsData, IsMap
    <3>4. \A e \in entry[p] : e[1] = n => \E f \in Field : e = <<n, f>>
      BY <2>1
    <3>. QED  BY <3>1, <3>3, <3>4 DEF HasValue
  <2>. QED  BY <2>2, <2>3 DEF FieldsRelayed
<1>. QED  BY <1>1, PubSubConsistent, PTL
=============================================================================
