--------------------------- MODULE Traffic_proofs ---------------------------
(***************************************************************************)
(* Proofs about pings, the websocket and the lines of logs.                *)
(***************************************************************************)
EXTENDS Pings, WebSocket, Logs, ServerStore_proofs

----------------------------------------------------------------------------
(* Pings: what is in a queue.                                              *)

LEMMA SendsAppend ==
    ASSUME NEW S, NEW q \in Seq(S), NEW m \in S
    PROVE  /\ Append(q, m) \in Seq(S)
           /\ Sends(Append(q, m), m)
           /\ \A x : Sends(q, x) => Sends(Append(q, m), x)
<1>1. Append(q, m)[Len(q) + 1] = m /\ Len(q) + 1 \in DOMAIN Append(q, m)
  OBVIOUS
<1>2. \A i \in DOMAIN q : i \in DOMAIN Append(q, m) /\ Append(q, m)[i] = q[i]
  OBVIOUS
<1>. QED  BY <1>1, <1>2 DEF Sends

LEMMA SendsTail ==
    ASSUME NEW S, NEW q \in Seq(S), q # <<>>
    PROVE  /\ Tail(q) \in Seq(S) /\ Head(q) \in S
           /\ \A x : Sends(q, x) => x = Head(q) \/ Sends(Tail(q), x)
<1>1. /\ \A i \in DOMAIN q : i = 1 \/ (i - 1 \in DOMAIN Tail(q) /\ Tail(q)[i - 1] = q[i])
      /\ Head(q) = q[1] /\ Tail(q) \in Seq(S) /\ Head(q) \in S
  OBVIOUS
<1>. QED  BY <1>1 DEF Sends

\* The sets of messages depend on the round only.
LEMMA SameRound ==
    ASSUME round' = round
    PROVE  Queued' = Queued /\ ToServer' = ToServer /\ ToClient' = ToClient
           /\ Registered' = Registered
BY DEF Queued, ToServer, ToClient, Registered, PingTold

\* In a step of client c, or of its MemberData, the others keep what they have.
LEMMA OthersKept ==
    ASSUME PingInv, NEW c \in Client, round' = round, PingTypeOK',
           \A d \in Client \ {c} :
              /\ up'[d] = up[d] /\ ping_first'[d] = ping_first[d] /\ asking'[d] = asking[d]
              /\ ping_status_req'[d] = ping_status_req[d] /\ missed'[d] = missed[d]
              /\ ping_queue'[d] = ping_queue[d] /\ to_server'[d] = to_server[d]
              /\ member'[d] = member[d],
           InTime(c)', DurationSince(c)', RequestUnderWay(c)'
    PROVE  PingInv'
<1>1. ASSUME NEW d \in Client \ {c}
      PROVE  InTime(d)' /\ DurationSince(d)' /\ RequestUnderWay(d)'
  <2>1. InTime(d)' /\ DurationSince(d)'
    BY SameRound DEF PingInv, InTime, DurationSince
  <2>2. RequestUnderWay(d)'
    BY DEF PingInv, RequestUnderWay, Asked, UnderWay
  <2>. QED  BY <2>1, <2>2
<1>. QED  BY <1>1 DEF PingInv

LEMMA PingInitInv == PingInit => PingInv
<1> SUFFICES ASSUME PingInit PROVE PingInv
  OBVIOUS
<1> USE DEF PingInit
<1>1. NoStatus \in StatusTold
  BY DEF NoStatus, StatusTold, MeasuredWell
<1>2. PingTypeOK
  BY <1>1 DEF PingTypeOK
<1>. QED  BY <1>2 DEF PingInv, InTime, DurationSince, RequestUnderWay, Asked, NoMember,
          NoPingFirst, Moved

----------------------------------------------------------------------------
(* Pings: the client.                                                      *)

LEMMA MessagesDiffer ==
    /\ First(TRUE) # First(FALSE) /\ First(TRUE) # NoPingFirst /\ First(FALSE) # NoPingFirst
    /\ First(TRUE) # Moved /\ First(FALSE) # Moved /\ Moved # NoPingFirst
    /\ Req \in Queued /\ Queued \subseteq ToServer
    /\ First(TRUE) \in ToServer /\ First(FALSE) \in ToServer
    /\ \A b \in BOOLEAN : First(b) \in {First(TRUE), First(FALSE)}
    /\ \A b \in BOOLEAN : First(b) = First(TRUE) <=> b
    /\ Req \notin {First(TRUE), First(FALSE)}
<1>1. \A b \in BOOLEAN : First(b) = First(TRUE) <=> b
  BY DEF First
<1>. QED  BY <1>1 DEF First, NoPingFirst, Moved, Req, Queued, ToServer

LEMMA pingStatusReqInv ==
    ASSUME PingInv, NEW c \in Client, pingStatusReq(c)
    PROVE  PingInv'
<1> USE DEF PingInv, pingStatusReq, Set, Push
<1>1. UNCHANGED <<ping_status_req, ping_first, recv_queue, up, links, to_server, to_client,
                  member, ping_status, round, known_status, missed>>
  BY DEF linkVars, registryVars
<1>2. ping_queue[c] \in Seq(Queued)
  BY DEF PingTypeOK
<1>3. /\ Append(ping_queue[c], Req) \in Seq(Queued)
      /\ Sends(Append(ping_queue[c], Req), Req)
  BY <1>2, MessagesDiffer, SendsAppend
<1>4. PingTypeOK'
  BY <1>1, <1>3, SameRound DEF PingTypeOK
<1>5. InTime(c)' /\ DurationSince(c)'
  BY <1>1, SameRound DEF InTime, DurationSince
<1>6. RequestUnderWay(c)'
  BY <1>1, <1>3 DEF PingTypeOK, RequestUnderWay, UnderWay
<1>. QED  BY <1>1, <1>4, <1>5, <1>6, OthersKept DEF PingTypeOK

LEMMA setPingStatusReqInv ==
    ASSUME PingInv, NEW c \in Client, setPingStatusReq(c)
    PROVE  PingInv'
<1> USE DEF PingInv, setPingStatusReq, Set
<1>1. UNCHANGED <<ping_first, ping_queue, recv_queue, up, links, to_server, to_client,
                  member, ping_status, round, known_status>>
  BY DEF linkVars, registryVars
<1>2. PingTypeOK'
  BY <1>1, SameRound DEF PingTypeOK
<1>3. InTime(c)' /\ DurationSince(c)'
  BY <1>1, SameRound DEF InTime, DurationSince
<1>4. RequestUnderWay(c)'
  BY <1>1 DEF PingTypeOK, RequestUnderWay, Asked, UnderWay
<1>. QED  BY <1>1, <1>2, <1>3, <1>4, OthersKept DEF PingTypeOK

LEMMA syncDataFirstInv ==
    ASSUME PingInv, NEW c \in Client, syncDataFirst(c)
    PROVE  PingInv'
<1> USE DEF PingInv, syncDataFirst, Set
<1>1. UNCHANGED <<ping_status_req, ping_queue, recv_queue, up, links, to_server, to_client,
                  member, ping_status, round, known_status, missed>>
  BY DEF linkVars, registryVars
<1>2. /\ ping_first'[c] = First(ping_status_req[c])
      /\ ping_first'[c] \in {First(TRUE), First(FALSE)}
      /\ asking'[c] = IF asking[c] = "no" THEN "no" ELSE "overtaken"
      /\ \A d \in Client \ {c} : ping_first'[d] = ping_first[d] /\ asking'[d] = asking[d]
  BY MessagesDiffer DEF PingTypeOK, Overtaken
<1>3. PingTypeOK'
  BY <1>1, <1>2, SameRound DEF PingTypeOK, Overtaken
<1>4. InTime(c)' /\ DurationSince(c)'
  BY <1>1, <1>2, MessagesDiffer, SameRound DEF PingTypeOK, InTime, DurationSince
<1>5. RequestUnderWay(c)'
  <2>1. ping_status_req[c] => ping_first'[c] = First(TRUE)
    BY <1>2, MessagesDiffer DEF PingTypeOK
  <2>. QED  BY <1>1, <1>2, <2>1 DEF RequestUnderWay, Asked, UnderWay
<1>. QED  BY <1>1, <1>2, <1>3, <1>4, <1>5, OthersKept

LEMMA onRecvInv ==
    ASSUME PingInv, NEW c \in Client, onRecv(c)
    PROVE  PingInv'
<1> DEFINE m == Head(recv_queue[c])
<1> USE DEF PingInv, onRecv, Set, Push
<1>1. UNCHANGED <<ping_status_req, asking, ping_first, up, links, to_server, to_client,
                  member, ping_status, round, missed>>
  BY DEF linkVars, registryVars
<1>2. recv_queue[c] \in Seq(ToClient) /\ ping_queue[c] \in Seq(Queued)
  BY DEF PingTypeOK
<1>3. m \in ToClient /\ Tail(recv_queue[c]) \in Seq(ToClient)
  BY <1>2, SendsTail
<1>4. \/ /\ m \in Queued /\ known_status' = known_status
         /\ ping_queue' = [ping_queue EXCEPT ![c] = Append(@, m)]
      \/ /\ ping_queue' = ping_queue /\ known_status' = known_status
      \/ /\ m.status \in StatusTold /\ ping_queue' = ping_queue
         /\ known_status' = [known_status EXCEPT ![c] = m.status]
  BY <1>3 DEF ToClient, PingTold, Queued
<1>5. ASSUME m \in Queued
      PROVE  /\ Append(ping_queue[c], m) \in Seq(Queued)
             /\ \A x : Sends(ping_queue[c], x) => Sends(Append(ping_queue[c], m), x)
  BY <1>2, <1>5, SendsAppend
<1>6. PingTypeOK'
  <2>1. ping_queue' \in [Client -> Seq(Queued)] /\ known_status' \in [Client -> StatusTold]
    <3>1. CASE /\ m \in Queued /\ known_status' = known_status
               /\ ping_queue' = [ping_queue EXCEPT ![c] = Append(@, m)]
      <4>1. Append(ping_queue[c], m) \in Seq(Queued)
        BY <1>5, <3>1
      <4>. HIDE DEF m, onRecv
      <4>. QED  BY <3>1, <4>1 DEF PingTypeOK
    <3>2. CASE ping_queue' = ping_queue /\ known_status' = known_status
      BY <3>2 DEF PingTypeOK
    <3>3. CASE /\ m.status \in StatusTold /\ ping_queue' = ping_queue
               /\ known_status' = [known_status EXCEPT ![c] = m.status]
      BY <3>3 DEF PingTypeOK
    <3>. QED  BY <1>4, <3>1, <3>2, <3>3
  <2>2. recv_queue' \in [Client -> Seq(ToClient)]
    BY <1>3 DEF PingTypeOK
  <2>. QED  BY <1>1, <2>1, <2>2, SameRound DEF PingTypeOK
<1>7. /\ \A x : Sends(ping_queue[c], x) => Sends(ping_queue'[c], x)
      /\ \A d \in Client \ {c} : ping_queue'[d] = ping_queue[d]
  BY <1>4, <1>5 DEF PingTypeOK
<1>8. InTime(c)' /\ DurationSince(c)'
  BY <1>1, SameRound DEF InTime, DurationSince
<1>9. RequestUnderWay(c)'
  BY <1>1, <1>7 DEF RequestUnderWay, Asked, UnderWay
<1>. QED  BY <1>1, <1>6, <1>7, <1>8, <1>9, OthersKept

----------------------------------------------------------------------------
(* Pings: the connection.                                                  *)

LEMMA NewMemberType == /\ NewMember \in Registered /\ NewMember.there = TRUE
                       /\ NewMember.duration = NoDuration /\ NoMember.there = FALSE
BY DEF NewMember, NoMember, Registered, NoDuration

LEMMA connectInv ==
    ASSUME PingInv, NEW c \in Client, connect(c)
    PROVE  PingInv'
<1> DEFINE first == IF ping_first[c] # NoPingFirst THEN ping_first[c]
                                                   ELSE First(ping_status_req[c])
<1> USE DEF PingInv, connect, Set
<1>1. UNCHANGED <<ping_status_req, ping_queue, recv_queue, to_client, ping_status, round,
                  known_status, missed>>
  OBVIOUS
<1>2. /\ up'[c] = "up" /\ ping_first'[c] = Moved /\ member'[c] = NewMember
      /\ to_server'[c] = <<first>>
      /\ asking'[c] = IF ping_first[c] = NoPingFirst /\ asking[c] # "no"
                      THEN "overtaken" ELSE asking[c]
      /\ \A d \in Client \ {c} :
            /\ ping_first'[d] = ping_first[d] /\ asking'[d] = asking[d] /\ up'[d] = up[d]
            /\ member'[d] = member[d] /\ to_server'[d] = to_server[d]
  BY DEF PingTypeOK, Overtaken
<1>3. first \in {First(TRUE), First(FALSE)}
  <2>1. ping_first[c] \in {NoPingFirst, First(TRUE), First(FALSE)}
    BY DEF PingTypeOK, InTime
  <2>2. First(ping_status_req[c]) \in {First(TRUE), First(FALSE)}
    BY MessagesDiffer DEF PingTypeOK
  <2>. QED  BY <2>1, <2>2
<1>4. <<first>> \in Seq(ToServer) /\ Sends(<<first>>, first)
  <2>. HIDE DEF first
  <2>1. first \in ToServer
    BY <1>3, MessagesDiffer
  <2>. QED  BY <2>1 DEF Sends
<1>5. PingTypeOK'
  <2>1. links' \in [Client -> Nat]
    BY DEF PingTypeOK
  <2>. QED  BY <1>1, <1>4, <2>1, SameRound, NewMemberType DEF PingTypeOK, Overtaken
<1>6. InTime(c)' /\ DurationSince(c)'
  BY <1>1, <1>2, SameRound, NewMemberType DEF InTime, DurationSince
<1>7. RequestUnderWay(c)'
  <2>1. SUFFICES ASSUME Asked(c)' PROVE Sends(ping_queue[c], Req) \/ first = First(TRUE)
    BY <1>1, <1>2, <1>4 DEF RequestUnderWay, UnderWay
  <2>2. CASE ping_first[c] = NoPingFirst
    BY ZenonT(30), <1>1, <1>2, <2>1, <2>2, MessagesDiffer DEF Asked, PingTypeOK
  <2>3. CASE ping_first[c] # NoPingFirst
    <3>1. Asked(c)
      BY <1>1, <1>2, <2>1, <2>3 DEF Asked
    <3>2. UnderWay(c) /\ up[c] = "down" /\ to_server[c] = <<>>
      BY <2>3, <3>1 DEF RequestUnderWay, InTime
    <3>3. \A x : ~Sends(<<>>, x)
      BY DEF Sends
    <3>. QED  BY <2>3, <3>2, <3>3 DEF UnderWay
  <2>. QED  BY <2>2, <2>3
<1>. QED  BY <1>1, <1>2, <1>5, <1>6, <1>7, OthersKept

LEMMA sendOneInv ==
    ASSUME PingInv, NEW c \in Client, sendOne(c)
    PROVE  PingInv'
<1> DEFINE m == Head(ping_queue[c])
<1> USE DEF PingInv, sendOne, Push
<1>1. UNCHANGED <<ping_status_req, asking, ping_first, recv_queue, up, links, to_client,
                  member, ping_status, round, known_status, missed>>
  BY DEF registryVars
<1>2. ping_queue[c] \in Seq(Queued) /\ to_server[c] \in Seq(ToServer)
  BY DEF PingTypeOK
<1>3. /\ Tail(ping_queue[c]) \in Seq(Queued) /\ m \in Queued
      /\ \A x : Sends(ping_queue[c], x) => x = m \/ Sends(Tail(ping_queue[c]), x)
  BY <1>2, SendsTail
<1>4. /\ Append(to_server[c], m) \in Seq(ToServer) /\ Sends(Append(to_server[c], m), m)
      /\ \A x : Sends(to_server[c], x) => Sends(Append(to_server[c], m), x)
  <2>1. m \in ToServer
    BY <1>3, MessagesDiffer
  <2>. QED  BY <1>2, <2>1, SendsAppend
<1>5. /\ to_server'[c] = Append(to_server[c], m) /\ ping_queue'[c] = Tail(ping_queue[c])
      /\ \A d \in Client \ {c} :
            to_server'[d] = to_server[d] /\ ping_queue'[d] = ping_queue[d]
  BY DEF PingTypeOK
<1>6. PingTypeOK'
  <2>1. ping_queue' \in [Client -> Seq(Queued)] /\ to_server' \in [Client -> Seq(ToServer)]
    BY <1>3, <1>4 DEF PingTypeOK
  <2>. QED  BY <1>1, <2>1, SameRound DEF PingTypeOK
<1>7. InTime(c)' /\ DurationSince(c)'
  BY <1>1, SameRound DEF InTime, DurationSince
<1>8. RequestUnderWay(c)'
  BY <1>1, <1>3, <1>4, <1>5 DEF RequestUnderWay, Asked, UnderWay
<1>. QED  BY <1>1, <1>5, <1>6, <1>7, <1>8, OthersKept

LEMMA recvMessageInv ==
    ASSUME PingInv, NEW c \in Client, recvMessage(c)
    PROVE  PingInv'
<1> DEFINE m == Head(to_client[c])
<1> USE DEF PingInv, recvMessage, Push
<1>1. UNCHANGED <<ping_status_req, asking, ping_first, ping_queue, up, links, to_server,
                  member, ping_status, round, known_status, missed>>
  BY DEF registryVars
<1>2. recv_queue[c] \in Seq(ToClient) /\ to_client[c] \in Seq(ToClient)
  BY DEF PingTypeOK
<1>3. Tail(to_client[c]) \in Seq(ToClient) /\ Append(recv_queue[c], m) \in Seq(ToClient)
  BY <1>2, SendsTail, SendsAppend
<1>4. PingTypeOK'
  <2>1. recv_queue' \in [Client -> Seq(ToClient)] /\ to_client' \in [Client -> Seq(ToClient)]
    BY <1>3 DEF PingTypeOK
  <2>. QED  BY <1>1, <2>1, SameRound DEF PingTypeOK
<1>5. InTime(c)' /\ DurationSince(c)'
  BY <1>1, SameRound DEF InTime, DurationSince
<1>6. RequestUnderWay(c)'
  BY <1>1 DEF RequestUnderWay, Asked, UnderWay
<1>. QED  BY <1>1, <1>4, <1>5, <1>6, OthersKept

LEMMA disconnectInv ==
    ASSUME PingInv, NEW c \in Client, disconnect(c)
    PROVE  PingInv'
<1> USE DEF PingInv, disconnect, Set
<1>1. UNCHANGED <<ping_status_req, asking, ping_first, recv_queue, links, ping_status, round,
                  known_status, missed>>
  OBVIOUS
<1>2. PICK n \in 0 .. Len(ping_queue[c]) :
         ping_queue' = [ping_queue EXCEPT ![c] =
                           SubSeq(ping_queue[c], n + 1, Len(ping_queue[c]))]
  OBVIOUS
<1>3. SubSeq(ping_queue[c], n + 1, Len(ping_queue[c])) \in Seq(Queued)
  <2>1. ping_queue[c] \in Seq(Queued)
    BY DEF PingTypeOK
  <2>. QED  BY <2>1
<1>4. PingTypeOK'
  <2>1. ping_queue' \in [Client -> Seq(Queued)]
    BY <1>2, <1>3 DEF PingTypeOK
  <2>2. to_server' \in [Client -> Seq(ToServer)] /\ to_client' \in [Client -> Seq(ToClient)]
    BY DEF PingTypeOK
  <2>. QED  BY <1>1, <2>1, <2>2, SameRound DEF PingTypeOK
<1>5. /\ up'[c] = "lost" /\ member'[c] = NoMember /\ to_server'[c] = <<>>
      /\ \A d \in Client \ {c} :
            /\ up'[d] = up[d] /\ member'[d] = member[d] /\ to_server'[d] = to_server[d]
            /\ ping_queue'[d] = ping_queue[d]
  BY <1>2 DEF PingTypeOK
<1>6. InTime(c)' /\ DurationSince(c)' /\ RequestUnderWay(c)'
  BY <1>1, <1>5, NewMemberType DEF InTime, DurationSince, RequestUnderWay
<1>. QED  BY <1>1, <1>4, <1>5, <1>6, OthersKept

LEMMA disconnectedInv ==
    ASSUME PingInv, NEW c \in Client, disconnected(c)
    PROVE  PingInv'
<1> USE DEF PingInv, disconnected, Set
<1>1. UNCHANGED <<ping_status_req, ping_queue, recv_queue, links, to_server, to_client,
                  member, ping_status, round, known_status>>
  BY DEF registryVars
<1>2. PingTypeOK'
  BY <1>1, SameRound DEF PingTypeOK
<1>3. InTime(c)' /\ DurationSince(c)' /\ RequestUnderWay(c)'
  BY <1>1, SameRound, MessagesDiffer DEF PingTypeOK, InTime, DurationSince, RequestUnderWay
<1>. QED  BY <1>1, <1>2, <1>3, OthersKept DEF PingTypeOK

----------------------------------------------------------------------------
(* Pings: the server.                                                      *)

LEMMA serverRecvInv ==
    ASSUME PingInv, NEW c \in Client, serverRecv(c)
    PROVE  PingInv'
<1> DEFINE m == Head(to_server[c])
           asks == m.kind = "ping_status_req" \/ (m.kind = "sync_init" /\ m.req)
<1> USE DEF PingInv, serverRecv
<1>1. UNCHANGED <<ping_status_req, asking, ping_first, ping_queue, recv_queue, up, links,
                  ping_status, round, known_status, missed>>
  BY DEF clientVars
<1>2. /\ to_server[c] \in Seq(ToServer) /\ to_server[c] # <<>>
      /\ to_client[c] \in Seq(ToClient) /\ ping_status \in StatusTold
      /\ to_server' = [to_server EXCEPT ![c] = Tail(@)]
  BY DEF PingTypeOK
<1>3. /\ Tail(to_server[c]) \in Seq(ToServer) /\ m \in ToServer
      /\ \A x : Sends(to_server[c], x) => x = m \/ Sends(Tail(to_server[c]), x)
  BY <1>2, SendsTail
\* there is a MemberData, since messages come on a connection only
<1>4. up[c] = "up" /\ member[c] \in Registered
  BY <1>2 DEF PingTypeOK, InTime
<1>5. /\ m \in {Req, First(TRUE)} => asks
      /\ asks \in BOOLEAN
      /\ m.kind = "ping" => m.n \in 1 .. round
  BY <1>3 DEF ToServer, Queued, PingTold, Req, First
<1> HIDE DEF asks
<1>6. PICK member_c \in Registered :
         /\ member' = [member EXCEPT ![c] = member_c]
         /\ member_c.there = TRUE /\ member_c.sent = member[c].sent
         /\ (member[c].req \/ asks) => member_c.req
         /\ \/ member_c.duration = member[c].duration
            \/ member_c.duration.against = member_c.sent
  <2> DEFINE duration == IF m.kind = "ping" THEN [against |-> member[c].sent, of |-> m.n]
                                            ELSE member[c].duration
             registered == [member[c] EXCEPT !.req = @ \/ asks, !.duration = duration]
  <2>1. member' = [member EXCEPT ![c] = registered]
    BY <1>4 DEF PingTypeOK, Registered, asks
  <2>2. /\ registered.there = TRUE /\ registered.sent = member[c].sent
        /\ registered.duration = duration
        /\ duration = member[c].duration \/ duration.against = member[c].sent
    BY <1>4 DEF Registered
  <2>4. (member[c].req \/ asks) => registered.req
    BY <1>4, <1>5 DEF Registered
  <2>3. registered \in Registered
    BY <1>4, <1>5 DEF Registered
  <2>. HIDE DEF registered, duration
  <2>. QED  BY <2>1, <2>2, <2>3, <2>4
<1>7. to_client' \in [Client -> Seq(ToClient)]
  <2>1. Status(ping_status) \in ToClient
    BY <1>2 DEF Status, ToClient
  <2>2. Append(to_client[c], Status(ping_status)) \in Seq(ToClient)
    BY <1>2, <2>1, SendsAppend
  <2>. QED  BY <2>2 DEF PingTypeOK, Push
<1>8. PingTypeOK'
  <2>1. to_server' \in [Client -> Seq(ToServer)]
    BY <1>2, <1>3 DEF PingTypeOK
  <2>2. member' \in [Client -> Registered \cup {NoMember}]
    BY ZenonT(30), <1>6 DEF PingTypeOK
  <2>. QED  BY <1>1, <1>7, <2>1, <2>2, SameRound DEF PingTypeOK
<1>9. /\ to_server'[c] = Tail(to_server[c]) /\ member'[c] = member_c
      /\ \A d \in Client \ {c} : to_server'[d] = to_server[d] /\ member'[d] = member[d]
  BY <1>2, <1>6 DEF PingTypeOK
<1>10. InTime(c)' /\ DurationSince(c)'
  BY ZenonT(30), <1>1, <1>4, <1>6, <1>9, SameRound DEF InTime, DurationSince, Registered
<1>11. RequestUnderWay(c)'
  <2>1. Sends(to_server[c], Req) => Sends(to_server'[c], Req) \/ asks
    BY <1>3, <1>5, <1>9
  <2>2. Sends(to_server[c], First(TRUE)) => Sends(to_server'[c], First(TRUE)) \/ asks
    BY <1>3, <1>5, <1>9
  <2>. QED  BY <1>1, <1>4, <1>6, <1>9, <2>1, <2>2 DEF RequestUnderWay, Asked, UnderWay
<1>. QED  BY <1>1, <1>8, <1>9, <1>10, <1>11, OthersKept

LEMMA SeqGrows ==
    ASSUME NEW S, NEW T, S \subseteq T, NEW q \in Seq(S)
    PROVE  q \in Seq(T)
OBVIOUS

LEMMA SeqConcat ==
    ASSUME NEW S, NEW q \in Seq(S), NEW m \in S, NEW r \in Seq(S)
    PROVE  q \o <<m>> \o r \in Seq(S)
<1>1. q \o <<m>> \in Seq(S)
  OBVIOUS
<1>. QED  BY <1>1

LEMMA pingRoundInv ==
    ASSUME PingInv, pingRound
    PROVE  PingInv'
<1> DEFINE measured == {c \in Client : member[c].there /\ member[c].duration # NoDuration}
           durations == {[client |-> c, against |-> member[c].duration.against,
                          of |-> member[c].duration.of] : c \in measured}
           status == [round |-> round', durations |-> durations]
           told(c) == IF member[c].req THEN <<Status(status)>> ELSE <<>>
<1> USE DEF PingInv
<1>0. /\ UNCHANGED <<ping_status_req, asking, ping_first, ping_queue, recv_queue, up, links,
                     to_server, known_status, missed>>
      /\ round' = round + 1 /\ ping_status' = status
      /\ member' = [c \in Client |-> IF member[c].there THEN sendPing(member[c]) ELSE member[c]]
      /\ to_client' = [c \in Client |->
            IF ~member[c].there THEN to_client[c] ELSE to_client[c] \o <<Ping(round')>> \o told(c)]
  BY Zenon DEF pingRound, clientVars
<1>1. /\ UNCHANGED <<ping_status_req, asking, ping_first, ping_queue, recv_queue, up, links,
                     to_server, known_status, missed>>
      /\ round \in Nat /\ round' \in Nat /\ round' = round + 1 /\ ping_status' = status
  <2>1. round \in Nat /\ round' \in Nat
    BY <1>0 DEF PingTypeOK
  <2>. HIDE DEF status
  <2>. QED  BY <1>0, <2>1
<1>2. /\ Queued \subseteq Queued' /\ ToServer \subseteq ToServer' /\ ToClient \subseteq ToClient'
      /\ Ping(round') \in ToClient'
  <2>1. 1 .. round \subseteq 1 .. round' /\ round' \in 1 .. round'
    BY <1>1
  <2>2. PingTold \subseteq PingTold' /\ Ping(round') \in PingTold'
    BY <2>1 DEF PingTold, Ping
  <2>3. Queued \subseteq Queued'
    BY <2>2 DEF Queued
  <2>4. ToServer \subseteq ToServer'
    BY <2>3 DEF ToServer
  <2>5. ToClient \subseteq ToClient' /\ Ping(round') \in ToClient'
    BY <2>2 DEF ToClient
  <2>. QED  BY <2>3, <2>4, <2>5
\* a duration there is counts from the ping of this round, since every MemberData has had it
<1>3. \A c \in measured : /\ member[c].duration.against \in {0, round}
                          /\ member[c].duration.of \in 1 .. round
  <2>1. SUFFICES ASSUME NEW c \in Client, member[c].there, member[c].duration # NoDuration
                 PROVE  member[c].duration.against \in {0, round} /\ member[c].duration.of \in 1 .. round
    OBVIOUS
  <2>2. member[c] \in Registered
    BY <2>1 DEF PingTypeOK, NoMember
  <2>. QED  BY <2>1, <2>2 DEF Registered
<1>4. status \in StatusTold
  <2>1. durations \in SUBSET [client : Client, against : Nat, of : Nat]
    BY <1>1, <1>3
  <2>2. \A d \in durations : d.against \in {0, round} /\ (d.against # 0 => d.of <= d.against)
    BY <1>1, <1>3
  <2>3. MeasuredWell(status)
    BY <1>1, <2>2 DEF MeasuredWell
  <2>. HIDE DEF durations
  <2>. QED  BY <1>1, <2>1, <2>3 DEF StatusTold
<1>5. Status(status) \in ToClient'
  <2>. HIDE DEF status
  <2>. QED  BY <1>4 DEF Status, ToClient
<1>6. \A c \in Client :
         /\ ~member[c].there => member'[c] = member[c]
         /\ member[c].there => member'[c] = sendPing(member[c])
  BY <1>0
<1>7. ASSUME NEW c \in Client
      PROVE  /\ member[c] = NoMember => member'[c] = NoMember
             /\ member[c] \in Registered =>
                   /\ member'[c] \in Registered' /\ member'[c].req = member[c].req
                   /\ member'[c].duration = NoDuration
  <2>1. member[c] = NoMember => member'[c] = NoMember
    BY <1>6 DEF NoMember
  <2>2. ASSUME member[c] \in Registered
        PROVE  /\ member'[c] \in Registered' /\ member'[c].req = member[c].req
               /\ member'[c].duration = NoDuration
    <3>1. member'[c] = [member[c] EXCEPT !.sent = round + 1, !.duration = NoDuration]
      BY <1>6, <2>2 DEF sendPing, Registered
    <3>. HIDE DEF NoDuration
    <3>2. member'[c] = [there |-> TRUE, req |-> member[c].req, sent |-> round', duration |-> NoDuration]
      BY <1>1, <2>2, <3>1 DEF Registered
    <3>3. member[c].req \in BOOLEAN /\ round' \in {0, round'}
      BY <2>2 DEF Registered
    <3>4. NoDuration \in {NoDuration} \cup [against : {0, round'}, of : 1 .. round']
      OBVIOUS
    <3>5. member'[c] \in Registered'
      BY <3>2, <3>3, <3>4 DEF Registered
    <3>. QED  BY <3>2, <3>5
  <2>. QED  BY <2>1, <2>2
<1>m. member' \in [Client -> (Registered \cup {NoMember})']
  <2>1. DOMAIN member' = Client /\ \A c \in Client : member'[c] \in (Registered \cup {NoMember})'
    BY <1>0, <1>7 DEF PingTypeOK
  <2>2. member' = [c \in Client |-> member'[c]]
    BY <1>0
  <2>. QED  BY <2>1, <2>2
<1>8. to_client' \in [Client -> Seq(ToClient')]
  <2>1. ASSUME NEW c \in Client PROVE to_client'[c] \in Seq(ToClient')
    <3>1. to_client[c] \in Seq(ToClient')
      BY <1>2, SeqGrows DEF PingTypeOK
    <3>. HIDE DEF status, told
    <3>2. \/ to_client'[c] = to_client[c]
          \/ to_client'[c] = to_client[c] \o <<Ping(round')>> \o told(c)
      BY <1>0
    <3>3. told(c) \in Seq(ToClient')
      <4>1. <<>> \in Seq(ToClient') /\ <<Status(status)>> \in Seq(ToClient')
        BY <1>5
      <4>. QED  BY <4>1 DEF told
    <3>4. to_client[c] \o <<Ping(round')>> \o told(c) \in Seq(ToClient')
      BY <1>2, <3>1, <3>3, SeqConcat
    <3>. HIDE DEF ToClient
    <3>. QED  BY <3>1, <3>2, <3>4
  <2>. HIDE DEF told
  <2>. QED  BY <1>0, <2>1
<1>9. PingTypeOK'
  <2>1. /\ ping_queue' \in [Client -> Seq(Queued')] /\ recv_queue' \in [Client -> Seq(ToClient')]
        /\ to_server' \in [Client -> Seq(ToServer')]
    <3>1. \A c \in Client : /\ ping_queue[c] \in Seq(Queued') /\ recv_queue[c] \in Seq(ToClient')
                            /\ to_server[c] \in Seq(ToServer')
      BY <1>2, SeqGrows DEF PingTypeOK
    <3>. QED  BY <1>1, <3>1 DEF PingTypeOK
  <2>2. member' \in [Client -> (Registered \cup {NoMember})']
    BY <1>m
  <2>3. ping_status' \in StatusTold /\ round' \in Nat
    BY <1>1, <1>4
  <2>. QED  BY <1>1, <1>8, <2>1, <2>2, <2>3 DEF PingTypeOK
<1>10. ASSUME NEW c \in Client
       PROVE  InTime(c)' /\ DurationSince(c)' /\ RequestUnderWay(c)'
  <2>1. InTime(c)'
    BY <1>1, <1>7 DEF InTime
  <2>2. DurationSince(c)'
    BY <1>7, NewMemberType DEF DurationSince, PingTypeOK
  <2>3. RequestUnderWay(c)'
    BY <1>1, <1>7 DEF RequestUnderWay, Asked, UnderWay, InTime
  <2>. QED  BY <2>1, <2>2, <2>3
<1>. QED  BY <1>9, <1>10

LEMMA PingNextInv == PingInv /\ [PingNext]_pingVars => PingInv'
<1> SUFFICES ASSUME PingInv, [PingNext]_pingVars PROVE PingInv'
  OBVIOUS
<1>1. CASE UNCHANGED pingVars
  <2>1. UNCHANGED <<ping_status_req, asking, ping_first, ping_queue, recv_queue, up, links,
                    to_server, to_client, member, ping_status, round, known_status, missed>>
    BY <1>1 DEF pingVars, clientVars, linkVars, registryVars
  <2>2. PingTypeOK'
    BY <2>1, SameRound DEF PingInv, PingTypeOK
  <2>3. \A c \in Client : InTime(c)' /\ DurationSince(c)' /\ RequestUnderWay(c)'
    BY <2>1, SameRound
    DEF PingInv, InTime, DurationSince, RequestUnderWay, Asked, UnderWay
  <2>. QED  BY <2>2, <2>3 DEF PingInv
<1>2. CASE pingRound
  BY <1>2, pingRoundInv
<1>3. ASSUME NEW c \in Client,
             \/ pingStatusReq(c) \/ setPingStatusReq(c) \/ syncDataFirst(c) \/ onRecv(c)
             \/ connect(c) \/ sendOne(c) \/ recvMessage(c) \/ disconnect(c) \/ disconnected(c)
             \/ serverRecv(c)
      PROVE PingInv'
  BY <1>3, pingStatusReqInv, setPingStatusReqInv, syncDataFirstInv, onRecvInv, connectInv,
     sendOneInv, recvMessageInv, disconnectInv, disconnectedInv, serverRecvInv
<1>. QED  BY <1>1, <1>2, <1>3 DEF PingNext

----------------------------------------------------------------------------
(* Pings: the order in which they are answered.                            *)

LEMMA LineTail ==
    ASSUME NEW S, NEW q \in Seq(S), q # <<>>
    PROVE  /\ PingsIn(q) = PingOf(Head(q)) \cup PingsIn(Tail(q))
           /\ StatusIn(q) = StatusOf(Head(q)) \cup StatusIn(Tail(q))
           /\ Rising(q) => Rising(Tail(q)) /\ OlderAll(PingOf(Head(q)), PingsIn(Tail(q)))
<1> DEFINE r == Tail(q)
<1>1. /\ Head(q) = q[1] /\ 1 \in DOMAIN q
      /\ \A i \in DOMAIN r : i + 1 \in DOMAIN q /\ r[i] = q[i + 1] /\ 1 < i + 1
      /\ \A i \in DOMAIN q : i = 1 \/ (i - 1 \in DOMAIN r /\ r[i - 1] = q[i])
      /\ DOMAIN r \subseteq Int
  OBVIOUS
<1>2. PingsIn(q) = PingOf(q[1]) \cup PingsIn(r) /\ StatusIn(q) = StatusOf(q[1]) \cup StatusIn(r)
  <2>. HIDE DEF r
  <2>. QED  BY <1>1 DEF PingsIn, StatusIn
<1>3. ASSUME Rising(q) PROVE Rising(r) /\ OlderAll(PingOf(q[1]), PingsIn(r))
  <2>. HIDE DEF r
  <2>1. \A i, j \in DOMAIN r : i < j => i + 1 < j + 1
    BY <1>1
  <2>2. Rising(r)
    BY <1>1, <1>3, <2>1 DEF Rising
  <2>3. \A j \in DOMAIN r : OlderAll(PingOf(q[1]), PingOf(r[j]))
    BY <1>1, <1>3 DEF Rising
  <2>. QED  BY <2>2, <2>3 DEF OlderAll, PingsIn
<1>. QED  BY <1>1, <1>2, <1>3

LEMMA LineAppend ==
    ASSUME NEW S, NEW q \in Seq(S), NEW m \in S
    PROVE  /\ PingsIn(Append(q, m)) = PingsIn(q) \cup PingOf(m)
           /\ StatusIn(Append(q, m)) = StatusIn(q) \cup StatusOf(m)
           /\ Rising(q) /\ OlderAll(PingsIn(q), PingOf(m)) => Rising(Append(q, m))
<1> DEFINE r == Append(q, m)  n == Len(q) + 1
<1>1. /\ n \in DOMAIN r /\ r[n] = m
      /\ \A i \in DOMAIN q : i \in DOMAIN r /\ r[i] = q[i] /\ i < n
      /\ \A i \in DOMAIN r : i = n \/ i \in DOMAIN q
      /\ DOMAIN r \subseteq Int /\ n \in Int
  OBVIOUS
<1>2. PingsIn(r) = PingsIn(q) \cup PingOf(m) /\ StatusIn(r) = StatusIn(q) \cup StatusOf(m)
  <2>. HIDE DEF r, n
  <2>. QED  BY <1>1 DEF PingsIn, StatusIn
<1>3. ASSUME Rising(q), OlderAll(PingsIn(q), PingOf(m)) PROVE Rising(r)
  <2>. HIDE DEF r, n
  <2>1. SUFFICES ASSUME NEW i \in DOMAIN r, NEW j \in DOMAIN r, i < j
                 PROVE  OlderAll(PingOf(r[i]), PingOf(r[j]))
    BY DEF Rising
  <2>2. i \in DOMAIN q
    BY <1>1, <2>1
  <2>3. CASE j = n
    BY <1>1, <1>3, <2>2, <2>3 DEF OlderAll, PingsIn
  <2>4. CASE j \in DOMAIN q
    BY <1>1, <1>3, <2>1, <2>2, <2>4 DEF Rising
  <2>. QED  BY <1>1, <2>3, <2>4
<1>. QED  BY <1>2, <1>3

LEMMA LineRest ==
    ASSUME NEW S, NEW q \in Seq(S), NEW n \in 0 .. Len(q)
    PROVE  LET r == SubSeq(q, n + 1, Len(q))
           IN  PingsIn(r) \subseteq PingsIn(q) /\ (Rising(q) => Rising(r))
<1> DEFINE r == SubSeq(q, n + 1, Len(q))
<1>1. /\ \A i \in DOMAIN r : i + n \in DOMAIN q /\ r[i] = q[i + n]
      /\ DOMAIN r \subseteq Int /\ n \in Int
  OBVIOUS
<1>. HIDE DEF r
<1>2. \A i, j \in DOMAIN r : i < j => i + n < j + n
  BY <1>1
<1>3. PingsIn(r) \subseteq PingsIn(q) /\ (Rising(q) => Rising(r))
  BY <1>1, <1>2 DEF PingsIn, Rising
<1>. QED  BY <1>3 DEF r

LEMMA LineEmpty == PingsIn(<<>>) = {} /\ StatusIn(<<>>) = {} /\ Rising(<<>>)
BY DEF PingsIn, StatusIn, Rising

LEMMA PingInitOrder == PingInit => OrderInv
<1> SUFFICES ASSUME PingInit PROVE OrderInv
  OBVIOUS
<1>1. ASSUME NEW c \in Client
      PROVE  /\ to_server[c] = <<>> /\ ping_queue[c] = <<>> /\ recv_queue[c] = <<>>
             /\ to_client[c] = <<>> /\ LastAnswer(c) = {} /\ known_status[c] = NoStatus
  BY DEF PingInit, LastAnswer, AnswerOf, NoMember
<1>2. \A c \in Client : InLine(c)
  BY <1>1, LineEmpty DEF InLine, OlderAll
<1>3. \A s \in StatusThere : s = NoStatus
  BY <1>1, LineEmpty DEF StatusThere, StatusKnown, PingInit
<1>4. round = 0
  BY DEF PingInit
<1>. QED  BY <1>2, <1>3, <1>4 DEF OrderInv, OlderThanUntold, NewerTold, NoStatus

\* In a step of client c, or of its MemberData, in which no ping is sent and no status made,
\* there is nothing new.
LEMMA OrderOthers ==
    ASSUME OrderInv, NEW c \in Client, round' = round, ping_status' = ping_status,
           \A d \in Client \ {c} :
              /\ to_server'[d] = to_server[d] /\ ping_queue'[d] = ping_queue[d]
              /\ recv_queue'[d] = recv_queue[d] /\ to_client'[d] = to_client[d]
              /\ member'[d] = member[d] /\ known_status'[d] = known_status[d],
           InLine(c)', Untold(c)' \subseteq Untold(c), known_status'[c] \in StatusThere,
           StatusIn(recv_queue'[c]) \subseteq StatusThere,
           StatusIn(to_client'[c]) \subseteq StatusThere
    PROVE  OrderInv'
<1>1. ASSUME NEW d \in Client PROVE InLine(d)' /\ Untold(d)' \subseteq Untold(d)
  <2>1. CASE d = c
    BY <2>1
  <2>2. CASE d # c
    BY <2>2 DEF OrderInv, InLine, Untold, LastAnswer
  <2>. QED  BY <2>1, <2>2
<1>2. StatusThere' \subseteq StatusThere
  <2>1. ASSUME NEW d \in Client
        PROVE  /\ known_status'[d] \in StatusThere
               /\ StatusIn(recv_queue'[d]) \subseteq StatusThere
               /\ StatusIn(to_client'[d]) \subseteq StatusThere
    <3>1. CASE d = c
      BY <3>1
    <3>2. CASE d # c
      BY <3>2 DEF StatusThere, StatusKnown
    <3>. QED  BY <3>1, <3>2
  <2>2. ping_status' \in StatusThere
    BY DEF StatusThere, StatusKnown
  <2>3. ASSUME NEW s \in StatusThere'
        PROVE  \/ s = ping_status'
               \/ \E d \in Client : \/ s = known_status'[d] \/ s \in StatusIn(recv_queue'[d])
                                    \/ s \in StatusIn(to_client'[d])
    BY DEF StatusThere, StatusKnown
  <2>. QED  BY <2>1, <2>2, <2>3
<1>3. ASSUME NEW s \in StatusThere' PROVE OlderThanUntold(s)'
  BY <1>1, <1>2 DEF OrderInv, OlderThanUntold, OlderAll
<1>4. ASSUME NEW s \in StatusThere', NEW t \in StatusThere' PROVE NewerTold(s, t)
  BY <1>2 DEF OrderInv
<1>. QED  BY <1>1, <1>3, <1>4 DEF OrderInv, NewerTold

\* A step of the client in which nothing happens to the queues and the MemberData.
LEMMA OrderStays ==
    ASSUME OrderInv, UNCHANGED <<to_server, ping_queue, recv_queue, to_client, member,
                                 known_status, ping_status, round>>
    PROVE  OrderInv'
<1>1. ASSUME NEW c \in Client PROVE InLine(c)' /\ Untold(c)' = Untold(c)
  BY DEF OrderInv, InLine, Untold, LastAnswer
<1>2. StatusThere' = StatusThere
  BY DEF StatusThere, StatusKnown
<1>3. ASSUME NEW s \in StatusThere' PROVE OlderThanUntold(s)'
  BY <1>1, <1>2 DEF OrderInv, OlderThanUntold
<1>4. ASSUME NEW s \in StatusThere', NEW t \in StatusThere' PROVE NewerTold(s, t)
  BY <1>2 DEF OrderInv
<1>. QED  BY <1>1, <1>3, <1>4 DEF OrderInv, NewerTold

LEMMA StatusHere ==
    ASSUME NEW c \in Client
    PROVE  /\ known_status[c] \in StatusThere /\ ping_status \in StatusThere
           /\ StatusIn(recv_queue[c]) \subseteq StatusThere
           /\ StatusIn(to_client[c]) \subseteq StatusThere
BY DEF StatusThere, StatusKnown

LEMMA pingStatusReqOrder ==
    ASSUME PingInv, OrderInv, NEW c \in Client, pingStatusReq(c)
    PROVE  OrderInv'
<1>1. UNCHANGED <<to_server, recv_queue, to_client, member, known_status, ping_status, round>>
  BY DEF pingStatusReq, linkVars, registryVars
<1>2. ping_queue \in [Client -> Seq(Queued)] /\ Req \in Queued /\ PingOf(Req) = {}
  BY DEF PingInv, PingTypeOK, Queued, Req, PingOf
<1>3. /\ ping_queue'[c] = ping_queue[c] \/ ping_queue'[c] = Append(ping_queue[c], Req)
      /\ \A d \in Client \ {c} : ping_queue'[d] = ping_queue[d]
  BY <1>2 DEF pingStatusReq, Push
<1>4. PingsIn(ping_queue'[c]) = PingsIn(ping_queue[c])
      /\ (Rising(ping_queue[c]) => Rising(ping_queue'[c]))
  <2>1. ping_queue[c] \in Seq(Queued)
    BY <1>2
  <2>2. PingsIn(Append(ping_queue[c], Req)) = PingsIn(ping_queue[c])
        /\ (Rising(ping_queue[c]) => Rising(Append(ping_queue[c], Req)))
    <3>1. OlderAll(PingsIn(ping_queue[c]), PingOf(Req))
      BY <1>2 DEF OlderAll
    <3>2. /\ PingsIn(Append(ping_queue[c], Req)) = PingsIn(ping_queue[c]) \cup PingOf(Req)
          /\ (Rising(ping_queue[c]) => Rising(Append(ping_queue[c], Req)))
      <4>1. Req \in Queued
        BY <1>2
      <4> HIDE DEF Req
      <4>. QED  BY <2>1, <3>1, <4>1, LineAppend
    <3>. QED  BY <1>2, <3>2
  <2>. QED  BY <1>3, <2>2
<1>5. InLine(c)' /\ Untold(c)' \subseteq Untold(c)
  BY <1>1, <1>4 DEF OrderInv, InLine, Untold, LastAnswer
<1>. QED  BY <1>1, <1>3, <1>5, StatusHere, OrderOthers

LEMMA onRecvOrder ==
    ASSUME PingInv, OrderInv, NEW c \in Client, onRecv(c)
    PROVE  OrderInv'
<1> DEFINE m == Head(recv_queue[c])
<1>1. UNCHANGED <<to_server, to_client, member, ping_status, round>>
  BY DEF onRecv, linkVars, registryVars
<1>2. /\ recv_queue \in [Client -> Seq(ToClient)] /\ ping_queue \in [Client -> Seq(Queued)]
      /\ known_status \in [Client -> StatusTold] /\ recv_queue[c] # <<>>
      /\ recv_queue' = [recv_queue EXCEPT ![c] = Tail(@)]
  BY DEF PingInv, PingTypeOK, onRecv
<1>3. m \in ToClient
  BY <1>2, SendsTail
<1>4. \/ /\ m \in Queued /\ known_status' = known_status
         /\ ping_queue' = [ping_queue EXCEPT ![c] = Append(@, m)]
      \/ /\ ping_queue' = ping_queue /\ known_status' = known_status
      \/ /\ StatusOf(m) = {m.status} /\ ping_queue' = ping_queue
         /\ known_status' = [known_status EXCEPT ![c] = m.status]
  BY <1>3 DEF ToClient, PingTold, Queued, onRecv, Set, Push, StatusOf
<1>5. /\ PingsIn(recv_queue[c]) = PingOf(m) \cup PingsIn(Tail(recv_queue[c]))
      /\ StatusIn(recv_queue[c]) = StatusOf(m) \cup StatusIn(Tail(recv_queue[c]))
      /\ Rising(recv_queue[c]) => /\ Rising(Tail(recv_queue[c]))
                                  /\ OlderAll(PingOf(m), PingsIn(Tail(recv_queue[c])))
  <2>1. recv_queue[c] \in Seq(ToClient)
    BY <1>2
  <2>. QED  BY <1>2, <2>1, LineTail
<1> HIDE DEF m
<1>6. /\ recv_queue'[c] = Tail(recv_queue[c])
      /\ \A d \in Client \ {c} : /\ recv_queue'[d] = recv_queue[d]
                                 /\ ping_queue'[d] = ping_queue[d]
                                 /\ known_status'[d] = known_status[d]
  BY <1>2, <1>4
<1>7. known_status'[c] = known_status[c] \/ known_status'[c] \in StatusOf(m)
  BY <1>2, <1>4
<1>8. /\ known_status'[c] \in StatusThere /\ StatusIn(recv_queue'[c]) \subseteq StatusThere
      /\ StatusIn(to_client'[c]) \subseteq StatusThere
  BY <1>1, <1>5, <1>6, <1>7, StatusHere
<1>9. InLine(c)' /\ Untold(c)' \subseteq Untold(c)
  <2>1. InLine(c)
    BY DEF OrderInv
  <2>2. CASE ping_queue'[c] = ping_queue[c]
    BY <1>1, <1>5, <1>6, <2>1, <2>2 DEF InLine, Untold, LastAnswer, OlderAll
  <2>3. CASE m \in Queued /\ ping_queue'[c] = Append(ping_queue[c], m)
    <3>1. ping_queue[c] \in Seq(Queued)
      BY <1>2
    <3>2. OlderAll(PingsIn(ping_queue[c]), PingOf(m))
      BY <1>5, <2>1 DEF InLine, OlderAll
    <3>3. /\ PingsIn(ping_queue'[c]) = PingsIn(ping_queue[c]) \cup PingOf(m)
          /\ Rising(ping_queue'[c])
      BY <2>1, <2>3, <3>1, <3>2, LineAppend DEF InLine
    <3>4. /\ PingsIn(recv_queue'[c]) \subseteq PingsIn(recv_queue[c])
          /\ PingOf(m) \subseteq PingsIn(recv_queue[c])
          /\ Rising(recv_queue'[c]) /\ OlderAll(PingOf(m), PingsIn(recv_queue'[c]))
      BY <1>5, <1>6, <2>1 DEF InLine
    <3>. QED  BY <1>1, <2>1, <3>3, <3>4 DEF InLine, Untold, LastAnswer, OlderAll
  <2>. QED  BY <1>2, <1>4, <2>2, <2>3
<1>. QED  BY <1>1, <1>6, <1>8, <1>9, OrderOthers

LEMMA connectOrder ==
    ASSUME PingInv, OrderInv, NEW c \in Client, connect(c)
    PROVE  OrderInv'
<1>1. UNCHANGED <<ping_queue, recv_queue, to_client, ping_status, round, known_status>>
  BY DEF connect
<1>2. PICK m \in {First(TRUE), First(FALSE)} : to_server' = [to_server EXCEPT ![c] = <<m>>]
  <2>1. ping_first[c] \in {NoPingFirst, First(TRUE), First(FALSE)}
    BY DEF connect, PingInv, PingTypeOK, InTime
  <2>2. First(ping_status_req[c]) \in {First(TRUE), First(FALSE)}
    BY MessagesDiffer DEF PingInv, PingTypeOK
  <2>. QED  BY <2>1, <2>2 DEF connect, Set
<1>3. /\ to_server'[c] = <<m>> /\ member'[c] = NewMember
      /\ \A d \in Client \ {c} : to_server'[d] = to_server[d] /\ member'[d] = member[d]
  BY <1>2 DEF connect, Set, PingInv, PingTypeOK
<1>4. PingsIn(<<m>>) = {} /\ Rising(<<m>>)
  <2>1. PingOf(m) = {}
    BY <1>2 DEF First, PingOf
  <2>2. DOMAIN <<m>> = {1} /\ <<m>>[1] = m
    OBVIOUS
  <2>. QED  BY <2>1, <2>2 DEF PingsIn, Rising, OlderAll
<1>5. LastAnswer(c)' = {}
  BY <1>3 DEF LastAnswer, AnswerOf, NewMember
<1>6. InLine(c)' /\ Untold(c)' \subseteq Untold(c)
  BY <1>1, <1>3, <1>4, <1>5 DEF OrderInv, InLine, Untold, OlderAll
<1>. QED  BY <1>1, <1>3, <1>6, StatusHere, OrderOthers

LEMMA sendOneOrder ==
    ASSUME PingInv, OrderInv, NEW c \in Client, sendOne(c)
    PROVE  OrderInv'
<1> DEFINE m == Head(ping_queue[c])
<1>1. UNCHANGED <<recv_queue, to_client, member, ping_status, round, known_status>>
  BY DEF sendOne, registryVars
<1>2. /\ ping_queue[c] \in Seq(Queued) /\ to_server[c] \in Seq(ToServer) /\ ping_queue[c] # <<>>
      /\ ping_queue'[c] = Tail(ping_queue[c]) /\ to_server'[c] = Append(to_server[c], m)
      /\ \A d \in Client \ {c} : ping_queue'[d] = ping_queue[d] /\ to_server'[d] = to_server[d]
  BY DEF PingInv, PingTypeOK, sendOne, Push
<1>3. m \in ToServer
  BY <1>2, SendsTail, MessagesDiffer
<1>4. /\ PingsIn(ping_queue[c]) = PingOf(m) \cup PingsIn(ping_queue'[c])
      /\ Rising(ping_queue[c]) => /\ Rising(ping_queue'[c])
                                  /\ OlderAll(PingOf(m), PingsIn(ping_queue'[c]))
  BY <1>2, LineTail
<1> HIDE DEF m
<1>5. InLine(c)
  BY DEF OrderInv
<1>6. PingsIn(to_server'[c]) = PingsIn(to_server[c]) \cup PingOf(m) /\ Rising(to_server'[c])
  <2>1. OlderAll(PingsIn(to_server[c]), PingOf(m))
    BY <1>4, <1>5 DEF InLine, OlderAll
  <2>. QED  BY <1>2, <1>3, <1>5, <2>1, LineAppend DEF InLine
<1>7. InLine(c)' /\ Untold(c)' \subseteq Untold(c)
  BY <1>1, <1>4, <1>5, <1>6 DEF InLine, Untold, LastAnswer, OlderAll
<1>. QED  BY <1>1, <1>2, <1>7, StatusHere, OrderOthers

LEMMA recvMessageOrder ==
    ASSUME PingInv, OrderInv, NEW c \in Client, recvMessage(c)
    PROVE  OrderInv'
<1> DEFINE m == Head(to_client[c])
<1>1. UNCHANGED <<to_server, ping_queue, member, ping_status, round, known_status>>
  BY DEF recvMessage, registryVars
<1>2. /\ to_client[c] \in Seq(ToClient) /\ recv_queue[c] \in Seq(ToClient) /\ to_client[c] # <<>>
      /\ to_client'[c] = Tail(to_client[c]) /\ recv_queue'[c] = Append(recv_queue[c], m)
      /\ \A d \in Client \ {c} : to_client'[d] = to_client[d] /\ recv_queue'[d] = recv_queue[d]
  BY DEF PingInv, PingTypeOK, recvMessage, Push
<1>3. m \in ToClient
  BY <1>2, SendsTail
<1>4. /\ PingsIn(to_client[c]) = PingOf(m) \cup PingsIn(to_client'[c])
      /\ StatusIn(to_client[c]) = StatusOf(m) \cup StatusIn(to_client'[c])
      /\ Rising(to_client[c]) => /\ Rising(to_client'[c])
                                 /\ OlderAll(PingOf(m), PingsIn(to_client'[c]))
  BY <1>2, LineTail
<1> HIDE DEF m
<1>5. InLine(c)
  BY DEF OrderInv
<1>6. /\ PingsIn(recv_queue'[c]) = PingsIn(recv_queue[c]) \cup PingOf(m)
      /\ StatusIn(recv_queue'[c]) = StatusIn(recv_queue[c]) \cup StatusOf(m)
      /\ Rising(recv_queue'[c])
  <2>1. OlderAll(PingsIn(recv_queue[c]), PingOf(m))
    BY <1>4, <1>5 DEF InLine, OlderAll
  <2>. QED  BY <1>2, <1>3, <1>5, <2>1, LineAppend DEF InLine
<1>7. InLine(c)' /\ Untold(c)' \subseteq Untold(c)
  BY <1>1, <1>4, <1>5, <1>6 DEF InLine, Untold, LastAnswer, OlderAll
<1>8. /\ StatusIn(recv_queue'[c]) \subseteq StatusThere
      /\ StatusIn(to_client'[c]) \subseteq StatusThere /\ known_status'[c] \in StatusThere
  BY <1>1, <1>4, <1>6, StatusHere
<1>. QED  BY <1>1, <1>2, <1>7, <1>8, OrderOthers

LEMMA disconnectOrder ==
    ASSUME PingInv, OrderInv, NEW c \in Client, disconnect(c)
    PROVE  OrderInv'
<1>1. UNCHANGED <<recv_queue, ping_status, round, known_status>>
  BY DEF disconnect
<1>2. PICK n \in 0 .. Len(ping_queue[c]) :
         ping_queue' = [ping_queue EXCEPT ![c] =
                           SubSeq(ping_queue[c], n + 1, Len(ping_queue[c]))]
  BY DEF disconnect, Set
<1>3. ping_queue \in [Client -> Seq(Queued)] /\ ping_queue[c] \in Seq(Queued)
  BY DEF PingInv, PingTypeOK
<1>4. /\ ping_queue'[c] = SubSeq(ping_queue[c], n + 1, Len(ping_queue[c]))
      /\ to_server'[c] = <<>> /\ to_client'[c] = <<>> /\ member'[c] = NoMember
      /\ \A d \in Client \ {c} :
            /\ ping_queue'[d] = ping_queue[d] /\ to_server'[d] = to_server[d]
            /\ to_client'[d] = to_client[d] /\ member'[d] = member[d]
  BY <1>2, <1>3 DEF disconnect, Set, PingInv, PingTypeOK
<1>5. PingsIn(ping_queue'[c]) \subseteq PingsIn(ping_queue[c])
      /\ (Rising(ping_queue[c]) => Rising(ping_queue'[c]))
  BY <1>3, <1>4, LineRest
<1>6. LastAnswer(c)' = {}
  BY <1>4 DEF LastAnswer, AnswerOf, NoMember
<1>7. InLine(c)' /\ Untold(c)' \subseteq Untold(c)
  BY <1>1, <1>4, <1>5, <1>6, LineEmpty DEF OrderInv, InLine, Untold, OlderAll
<1>. QED  BY <1>1, <1>4, <1>7, StatusHere, LineEmpty, OrderOthers

LEMMA serverRecvOrder ==
    ASSUME PingInv, OrderInv, NEW c \in Client, serverRecv(c)
    PROVE  OrderInv'
<1> DEFINE m == Head(to_server[c])
<1>1. UNCHANGED <<ping_queue, recv_queue, ping_status, round, known_status>>
  BY DEF serverRecv, clientVars
<1>2. /\ to_server[c] \in Seq(ToServer) /\ to_server[c] # <<>> /\ to_client[c] \in Seq(ToClient)
      /\ to_server'[c] = Tail(to_server[c]) /\ Status(ping_status) \in ToClient
      /\ \/ to_client'[c] = to_client[c]
         \/ to_client'[c] = Append(to_client[c], Status(ping_status))
      /\ \A d \in Client \ {c} : /\ to_server'[d] = to_server[d] /\ to_client'[d] = to_client[d]
                                 /\ member'[d] = member[d]
  BY DEF PingInv, PingTypeOK, serverRecv, Push, Status, ToClient
<1>3. /\ PingsIn(to_server[c]) = PingOf(m) \cup PingsIn(to_server'[c])
      /\ Rising(to_server[c]) => /\ Rising(to_server'[c])
                                 /\ OlderAll(PingOf(m), PingsIn(to_server'[c]))
  BY <1>2, LineTail
<1>4. member[c] \in Registered
  BY <1>2 DEF PingInv, PingTypeOK, InTime
<1>5. LastAnswer(c)' = LastAnswer(c) \/ LastAnswer(c)' = PingOf(m)
  <2>1. CASE m.kind = "ping"
    <3>1. member'[c].there = TRUE /\ member'[c].duration = [against |-> member[c].sent, of |-> m.n]
      BY <1>4, <2>1 DEF serverRecv, Registered, PingInv, PingTypeOK
    <3>2. member[c].sent # -1
      BY <1>4 DEF Registered, PingInv, PingTypeOK
    <3>. QED  BY <2>1, <3>1, <3>2 DEF LastAnswer, AnswerOf, PingOf, NoDuration
  <2>2. CASE m.kind # "ping"
    <3>1. member'[c].there = member[c].there /\ member'[c].duration = member[c].duration
      BY <1>4, <2>2 DEF serverRecv, Registered, PingInv, PingTypeOK
    <3>. QED  BY <3>1 DEF LastAnswer, AnswerOf
  <2>. QED  BY <2>1, <2>2
<1> HIDE DEF m
<1>6. /\ PingsIn(to_client'[c]) = PingsIn(to_client[c])
      /\ StatusIn(to_client'[c]) \subseteq StatusIn(to_client[c]) \cup {ping_status}
      /\ Rising(to_client[c]) => Rising(to_client'[c])
  <2>1. PingOf(Status(ping_status)) = {} /\ StatusOf(Status(ping_status)) = {ping_status}
    BY DEF Status, PingOf, StatusOf
  <2>2. OlderAll(PingsIn(to_client[c]), PingOf(Status(ping_status)))
    BY <2>1 DEF OlderAll
  <2> DEFINE r == Append(to_client[c], Status(ping_status))
  <2>3. /\ PingsIn(r) = PingsIn(to_client[c]) \cup PingOf(Status(ping_status))
        /\ StatusIn(r) = StatusIn(to_client[c]) \cup StatusOf(Status(ping_status))
        /\ Rising(to_client[c]) => Rising(r)
    BY <1>2, <2>2, LineAppend
  <2>. HIDE DEF r
  <2>4. to_client'[c] = to_client[c] \/ to_client'[c] = r
    BY <1>2 DEF r
  <2>. QED  BY <2>1, <2>3, <2>4
<1>7. InLine(c)
  BY DEF OrderInv
<1>8. InLine(c)' /\ Untold(c)' \subseteq Untold(c)
  BY <1>1, <1>3, <1>5, <1>6, <1>7 DEF InLine, Untold, OlderAll
<1>9. StatusIn(to_client'[c]) \subseteq StatusThere
  BY <1>6, StatusHere
<1>. QED  BY <1>1, <1>2, <1>8, <1>9, StatusHere, OrderOthers

LEMMA StatusTyped == PingInv => \A s \in StatusThere : s \in StatusTold
<1> SUFFICES ASSUME PingInv, NEW s \in StatusThere PROVE s \in StatusTold
  OBVIOUS
<1>1. ASSUME NEW q \in Seq(ToClient), s \in StatusIn(q) PROVE s \in StatusTold
  <2>1. PICK i \in DOMAIN q : s \in StatusOf(q[i])
    BY <1>1 DEF StatusIn
  <2>2. q[i] \in ToClient
    BY <2>1
  <2>. QED  BY <2>1, <2>2 DEF StatusOf, ToClient, PingTold
<1>. QED  BY <1>1 DEF StatusThere, StatusKnown, PingInv, PingTypeOK

LEMMA LineConcat ==
    ASSUME NEW S, NEW q \in Seq(S), NEW m \in S, NEW s \in S
    PROVE  /\ q \o <<m>> \o <<>> = Append(q, m) /\ q \o <<m>> \o <<s>> = Append(Append(q, m), s)
           /\ Append(q, m) \in Seq(S)
<1>1. q \o <<m>> = Append(q, m) /\ Append(q, m) \in Seq(S)
  OBVIOUS
<1> DEFINE r == Append(q, m)
<1> HIDE DEF r
<1>2. ASSUME r \in Seq(S) PROVE r \o <<>> = r /\ r \o <<s>> = Append(r, s)
  BY <1>2
<1>. QED  BY <1>1, <1>2 DEF r

LEMMA pingRoundOrder ==
    ASSUME PingInv, PingInv', OrderInv, pingRound
    PROVE  OrderInv'
<1> DEFINE measured == {c \in Client : member[c].there /\ member[c].duration # NoDuration}
           durations == {[client |-> c, against |-> member[c].duration.against,
                          of |-> member[c].duration.of] : c \in measured}
           status == [round |-> round', durations |-> durations]
           told(c) == IF member[c].req THEN <<Status(status)>> ELSE <<>>
<1>1. /\ UNCHANGED <<ping_queue, recv_queue, to_server, known_status>>
      /\ round' = round + 1 /\ ping_status' = status
      /\ member' = [c \in Client |-> IF member[c].there THEN sendPing(member[c]) ELSE member[c]]
      /\ to_client' = [c \in Client |->
            IF ~member[c].there THEN to_client[c] ELSE to_client[c] \o <<Ping(round')>> \o told(c)]
  BY Zenon DEF pingRound, clientVars
<1>2. round \in Nat /\ round' \in Nat /\ round < round'
  BY <1>1 DEF PingInv, PingTypeOK
<1>3. /\ status.round = round'
      /\ \A c \in Client, d \in status.durations : d.client = c => d.of \in LastAnswer(c)
  BY DEF LastAnswer, AnswerOf
<1> HIDE DEF status
\* all pings there are have been sent before
<1>4. ASSUME NEW c \in Client
      PROVE  \A n \in Untold(c) : n \in Nat /\ n < round'
  <2>1. ASSUME NEW m, m \in ToServer \cup ToClient, NEW n \in PingOf(m)
        PROVE  n \in Nat /\ n < round'
    BY <1>1, <1>2, <2>1 DEF ToServer, ToClient, Queued, PingTold, PingOf, Req, First
  <2>2. ASSUME NEW q, \/ q \in Seq(ToServer) \/ q \in Seq(ToClient) \/ q \in Seq(Queued),
               NEW n \in PingsIn(q)
        PROVE  n \in Nat /\ n < round'
    <3>1. PICK i \in DOMAIN q : n \in PingOf(q[i])
      BY DEF PingsIn
    <3>2. q[i] \in ToServer \cup ToClient
      BY <2>2, <3>1, MessagesDiffer
    <3>. QED  BY <2>1, <3>1, <3>2
  <2>3. ASSUME NEW n \in LastAnswer(c) PROVE n \in Nat /\ n < round'
    <3>1. member[c] \in Registered /\ member[c].duration # NoDuration /\ n = member[c].duration.of
      <4>1. member[c].there /\ member[c].duration # NoDuration /\ n = member[c].duration.of
        BY <2>3 DEF LastAnswer, AnswerOf
      <4>2. member[c] \in Registered \cup {NoMember}
        BY DEF PingInv, PingTypeOK
      <4>. QED  BY <4>1, <4>2, NewMemberType
    <3>2. member[c].duration \in [against : {0, round}, of : 1 .. round]
      BY <3>1 DEF Registered
    <3>. QED  BY <1>1, <1>2, <3>1, <3>2
  <2>4. /\ to_server[c] \in Seq(ToServer) /\ ping_queue[c] \in Seq(Queued)
        /\ recv_queue[c] \in Seq(ToClient) /\ to_client[c] \in Seq(ToClient)
    BY DEF PingInv, PingTypeOK
  <2>. QED  BY <2>2, <2>3, <2>4 DEF Untold
<1>5. ASSUME NEW c \in Client
      PROVE  /\ PingsIn(to_client'[c]) \subseteq PingsIn(to_client[c]) \cup {round'}
             /\ StatusIn(to_client'[c]) \subseteq StatusIn(to_client[c]) \cup {status}
             /\ Rising(to_client'[c])
  <2>1. InLine(c)
    BY DEF OrderInv
  <2>2. CASE ~member[c].there
    BY <1>1, <2>1, <2>2 DEF InLine
  <2>3. CASE member[c].there
    <3> DEFINE S == ToClient \cup {Ping(round'), Status(status)}
               q == to_client[c]   r == Append(q, Ping(round'))   t == Append(r, Status(status))
    <3>1. q \in Seq(S)
      <4>1. q \in Seq(ToClient)
        BY DEF PingInv, PingTypeOK
      <4>. QED  BY <4>1, SeqGrows
    <3>2. Ping(round') \in S /\ Status(status) \in S
      OBVIOUS
    <3>3. /\ PingOf(Ping(round')) = {round'} /\ StatusOf(Ping(round')) = {}
          /\ PingOf(Status(status)) = {} /\ StatusOf(Status(status)) = {status}
      BY DEF Ping, Status, PingOf, StatusOf
    <3>4. r \in Seq(S) /\ (to_client'[c] = r \/ to_client'[c] = t)
      <4>1. to_client'[c] = q \o <<Ping(round')>> \o told(c)
        BY <1>1, <2>3
      <4>2. told(c) = <<>> \/ told(c) = <<Status(status)>>
        OBVIOUS
      <4>3. /\ q \o <<Ping(round')>> \o <<>> = r /\ q \o <<Ping(round')>> \o <<Status(status)>> = t
            /\ r \in Seq(S)
        <5>. HIDE DEF S
        <5>. QED  BY <3>1, <3>2, LineConcat
      <4>. HIDE DEF told, r, t, S, q
      <4>. QED  BY <4>1, <4>2, <4>3
    <3>5. OlderAll(PingsIn(q), {round'}) /\ Rising(q)
      BY <1>4, <2>1 DEF OlderAll, Untold, InLine
    <3>. HIDE DEF S
    <3>6. PingsIn(r) = PingsIn(q) \cup {round'} /\ StatusIn(r) = StatusIn(q) /\ Rising(r)
      <4>1. OlderAll(PingsIn(q), PingOf(Ping(round')))
        BY <3>3, <3>5
      <4>2. /\ PingsIn(r) = PingsIn(q) \cup PingOf(Ping(round'))
            /\ StatusIn(r) = StatusIn(q) \cup StatusOf(Ping(round')) /\ Rising(r)
        BY <3>1, <3>2, <3>5, <4>1, LineAppend
      <4>. QED  BY <3>3, <4>2
    <3>. HIDE DEF r
    <3>7. OlderAll(PingsIn(r), PingOf(Status(status)))
      BY <3>3 DEF OlderAll
    <3>8. /\ PingsIn(t) = PingsIn(r) \cup PingOf(Status(status))
          /\ StatusIn(t) = StatusIn(r) \cup StatusOf(Status(status)) /\ Rising(t)
      <4>1. r \in Seq(S) /\ Status(status) \in S /\ Rising(r)
        BY <3>2, <3>4, <3>6
      <4>. QED  BY <3>7, <4>1, LineAppend
    <3>. HIDE DEF t
    <3>. QED  BY <3>3, <3>4, <3>6, <3>8
  <2>. QED  BY <2>2, <2>3
<1>6. ASSUME NEW c \in Client
      PROVE  LastAnswer(c)' = {}
  <2>1. CASE member[c].there
    <3>1. member[c] \in Registered /\ member'[c] = sendPing(member[c])
      BY <1>1, <2>1 DEF PingInv, PingTypeOK, NoMember
    <3>. QED  BY <3>1 DEF sendPing, LastAnswer, AnswerOf, Registered
  <2>2. CASE ~member[c].there
    BY <1>1, <2>2 DEF LastAnswer, AnswerOf
  <2>. QED  BY <2>1, <2>2
<1>7. ASSUME NEW c \in Client
      PROVE  /\ InLine(c)' /\ Untold(c)' \subseteq Untold(c) \cup {round'}
             /\ OlderAll(LastAnswer(c), Untold(c)')
  <2>1. InLine(c) /\ LastAnswer(c)' = {}
    BY <1>6 DEF OrderInv
  <2>2. InLine(c)'
    <3>1. /\ OlderAll(PingsIn(to_server[c]), {round'}) /\ OlderAll(PingsIn(ping_queue[c]), {round'})
          /\ OlderAll(PingsIn(recv_queue[c]), {round'})
      BY <1>4 DEF Untold, OlderAll
    <3>2. /\ PingsIn(to_server'[c]) = PingsIn(to_server[c])
          /\ PingsIn(ping_queue'[c]) = PingsIn(ping_queue[c])
          /\ PingsIn(recv_queue'[c]) = PingsIn(recv_queue[c])
          /\ Rising(to_server'[c]) /\ Rising(ping_queue'[c]) /\ Rising(recv_queue'[c])
      BY <1>1, <2>1 DEF InLine
    <3>. QED  BY <1>5, <2>1, <3>1, <3>2 DEF InLine, OlderAll
  <2>3. Untold(c)' \subseteq Untold(c) \cup {round'}
    BY <1>1, <1>5, <2>1 DEF Untold
  <2>4. Untold(c)' \subseteq PingsIn(to_server[c]) \cup PingsIn(ping_queue[c])
                        \cup PingsIn(recv_queue[c]) \cup PingsIn(to_client[c]) \cup {round'}
    BY <1>1, <1>5, <2>1 DEF Untold
  <2>5. \A n \in LastAnswer(c) : n < round'
    BY <1>4 DEF Untold
  <2>. QED  BY <2>1, <2>2, <2>3, <2>4, <2>5 DEF InLine, OlderAll
<1>8. StatusThere' \subseteq StatusThere \cup {status}
  <2>1. ASSUME NEW s \in StatusThere'
        PROVE  \/ s = ping_status'
               \/ \E d \in Client : \/ s = known_status'[d] \/ s \in StatusIn(recv_queue'[d])
                                    \/ s \in StatusIn(to_client'[d])
    BY DEF StatusThere, StatusKnown
  <2>2. ASSUME NEW d \in Client
        PROVE  /\ known_status'[d] \in StatusThere
               /\ StatusIn(recv_queue'[d]) \subseteq StatusThere
               /\ StatusIn(to_client'[d]) \subseteq StatusThere \cup {status}
    BY <1>1, <1>5, StatusHere
  <2>. QED  BY <1>1, <2>1, <2>2
<1>9. ASSUME NEW s \in StatusThere' PROVE OlderThanUntold(s)'
  <2>1. CASE s = status
    <3>1. \A d \in s.durations : d.client \in Client /\ d.of \in LastAnswer(d.client)
      BY <2>1 DEF status, LastAnswer, AnswerOf
    <3>2. \A d \in s.durations : d.of <= round'
      BY <1>2, <1>4, <3>1 DEF Untold
    <3>. QED  BY <1>2, <1>3, <1>7, <2>1, <3>1, <3>2 DEF OlderThanUntold, OlderAll
  <2>2. CASE s \in StatusThere
    <3>1. s \in StatusTold /\ OlderThanUntold(s)
      BY <2>2, StatusTyped DEF OrderInv
    <3>2. s.round <= round' /\ \A d \in s.durations : d.of < round'
      BY <1>1, <1>2, <3>1 DEF StatusTold, OlderThanUntold
    <3>3. ASSUME NEW c \in Client, NEW d \in s.durations, d.client = c
          PROVE  OlderAll({d.of}, Untold(c)')
      <4>1. OlderAll({d.of}, Untold(c)) /\ d.of < round'
        BY <3>1, <3>2, <3>3 DEF OlderThanUntold
      <4>. QED  BY <1>7, <4>1 DEF OlderAll
    <3>4. s.round <= round' /\ \A d \in s.durations : d.of <= round'
      BY <1>1, <1>2, <3>1 DEF StatusTold, OlderThanUntold
    <3>. QED  BY <3>3, <3>4 DEF OlderThanUntold
  <2>. QED  BY <1>8, <2>1, <2>2
<1>10. ASSUME NEW s \in StatusThere', NEW t \in StatusThere' PROVE NewerTold(s, t)
  <2>1. CASE s \in StatusThere /\ t \in StatusThere
    BY <2>1 DEF OrderInv
  <2>2. CASE t = status /\ s \in StatusThere
    <3>1. OlderThanUntold(s) /\ s \in StatusTold
      BY <2>2, StatusTyped DEF OrderInv
    <3>2. \A e \in t.durations : e.client \in Client
      BY <2>2 DEF status, LastAnswer
    <3>. QED  BY <1>3, <2>2, <3>1 DEF NewerTold, OlderThanUntold, OlderAll, Untold, StatusTold
  <2>3. CASE s = status
    <3>1. t.round <= round' /\ s.round = round' /\ t.round \in Nat
      BY <1>2, <1>3, <1>8, <2>3, StatusTyped DEF OrderInv, OlderThanUntold, StatusTold
    <3>. QED  BY <1>2, <3>1 DEF NewerTold
  <2>. QED  BY <1>8, <2>1, <2>2, <2>3
<1>. QED  BY <1>7, <1>9, <1>10 DEF OrderInv, NewerTold

LEMMA PingNextOrder == PingInv /\ PingInv' /\ OrderInv /\ [PingNext]_pingVars => OrderInv'
<1> SUFFICES ASSUME PingInv, PingInv', OrderInv, [PingNext]_pingVars PROVE OrderInv'
  OBVIOUS
<1>1. CASE UNCHANGED pingVars
  BY <1>1, OrderStays DEF pingVars, clientVars, linkVars, registryVars
<1>2. CASE pingRound
  BY <1>2, pingRoundOrder
<1>3. ASSUME NEW c \in Client, setPingStatusReq(c) \/ syncDataFirst(c) \/ disconnected(c)
      PROVE  OrderInv'
  BY <1>3, OrderStays DEF setPingStatusReq, syncDataFirst, disconnected, linkVars, registryVars
<1>4. ASSUME NEW c \in Client,
             \/ pingStatusReq(c) \/ onRecv(c) \/ connect(c) \/ sendOne(c) \/ recvMessage(c)
             \/ disconnect(c) \/ serverRecv(c)
      PROVE  OrderInv'
  BY <1>4, pingStatusReqOrder, onRecvOrder, connectOrder, sendOneOrder, recvMessageOrder,
     disconnectOrder, serverRecvOrder
<1>. QED  BY <1>1, <1>2, <1>3, <1>4 DEF PingNext

----------------------------------------------------------------------------
\* Requests are on their way and durations count from the last ping in every reachable
\* state.
THEOREM PingsConsistent == PingSpec => []PingInv
BY PingInitInv, PingNextInv, PTL DEF PingSpec

\* The server knows of a request once it has read what the client sent (RequestKnown).
THEOREM RequestsArrive == PingSpec => []RequestKnown
<1>1. PingInv => RequestKnown
  <2>1. SUFFICES ASSUME PingInv, NEW c \in Client,
                        ping_status_req[c], asking[c] = "no", ~missed[c], up[c] = "up",
                        ~Waiting(to_server, c), ~Waiting(ping_queue, c)
                 PROVE  member[c].req
    BY DEF RequestKnown
  <2>2. UnderWay(c) /\ ping_first[c] = Moved
    BY <2>1, MessagesDiffer DEF PingInv, InTime, RequestUnderWay, Asked
  <2>3. Req.kind = "ping_status_req" /\ First(TRUE).kind = "sync_init"
    BY DEF Req, First
  <2>4. ~Sends(ping_queue[c], Req) /\ ~Sends(to_server[c], Req)
        /\ ~Sends(to_server[c], First(TRUE))
    BY <2>1, <2>3 DEF Waiting, Sends
  <2>. QED  BY <2>2, <2>4, MessagesDiffer DEF UnderWay
<1>. QED  BY <1>1, PingsConsistent, PTL

\* The pings of a client are answered, and told, in the order in which they were sent, in
\* every reachable state (OrderInv).
THEOREM PingsInLine == PingSpec => []OrderInv
<1>1. PingInit => OrderInv
  BY PingInitOrder
<1>2. PingInv /\ PingInv' /\ OrderInv /\ [PingNext]_pingVars => OrderInv'
  BY PingNextOrder
<1>. QED  BY <1>1, <1>2, PingsConsistent, PTL DEF PingSpec

\* Every duration that is published or that a client has received counts from the ping of
\* the round before or from none, and is of an answer that no status of another round tells
\* (Measured).
THEOREM DurationsMeasured == PingSpec => []Measured
<1>1. PingInv => \A s \in StatusKnown : MeasuredWell(s)
  BY DEF PingInv, PingTypeOK, StatusTold, StatusKnown
<1>2. OrderInv => \A s, t \in StatusKnown : NewerTold(s, t)
  BY DEF OrderInv, StatusThere
<1>. QED  BY <1>1, <1>2, PingsConsistent, PingsInLine, PTL DEF Measured

----------------------------------------------------------------------------
(* The websocket: bytes, and the pieces they come and go in.                *)

\* The body of a message is a sequence of bytes, as long as the message says.
LEMMA BodyType ==
    ASSUME NEW m \in WsMessage
    PROVE  Body(m) \in Seq(Byte) /\ Len(Body(m)) = m.length
<1>1. m.id \in Nat /\ m.length \in Nat
  BY DEF WsMessage
<1>2. \A i \in 1 .. m.length : [of |-> m.id, at |-> i] \in Byte
  BY <1>1 DEF Byte
<1>. QED  BY <1>1, <1>2 DEF Body

\* Two pieces that follow each other are one.
LEMMA Joined ==
    ASSUME NEW S, NEW s \in Seq(S), NEW i \in Nat, NEW j \in Nat, NEW k \in Nat,
           i <= j, j <= k, k <= Len(s)
    PROVE  /\ SubSeq(s, i + 1, k) \in Seq(S) /\ Len(SubSeq(s, i + 1, k)) = k - i
           /\ SubSeq(s, i + 1, j) \o SubSeq(s, j + 1, k) = SubSeq(s, i + 1, k)
<1>1. ASSUME NEW a \in Nat, NEW b \in Nat, a <= b, b <= k
      PROVE  /\ SubSeq(s, a + 1, b) \in Seq(S) /\ Len(SubSeq(s, a + 1, b)) = b - a
             /\ \A l \in 1 .. b - a : SubSeq(s, a + 1, b)[l] = s[a + l]
  <2>1. \A l \in a + 1 .. b : s[l] \in S
    BY <1>1
  <2>2. /\ SubSeq(s, a + 1, b) \in Seq(S)
        /\ Len(SubSeq(s, a + 1, b)) = IF a + 1 <= b THEN b - (a + 1) + 1 ELSE 0
        /\ \A l \in 1 .. b - (a + 1) + 1 : SubSeq(s, a + 1, b)[l] = s[a + 1 + l - 1]
    BY <1>1, <2>1, SubSeqProperties
  <2>3. \A l \in 1 .. b - a : l \in 1 .. b - (a + 1) + 1 /\ a + 1 + l - 1 = a + l
    BY <1>1
  <2>4. Len(SubSeq(s, a + 1, b)) = b - a
    BY <1>1, <2>2
  <2>. QED  BY <2>2, <2>3, <2>4
<1>2. i + 1 \in 1 .. Len(s) + 1 /\ j \in (i + 1) - 1 .. Len(s) /\ k \in j .. Len(s)
  OBVIOUS
<1>3. \A a \in 1 .. Len(s) + 1 : \A b \in a - 1 .. Len(s) : \A c \in b .. Len(s) :
          SubSeq(s, a, b) \o SubSeq(s, b + 1, c) = SubSeq(s, a, c)
  BY ConcatAdjacentSubSeq
<1>4. SubSeq(s, i + 1, j) \o SubSeq(s, j + 1, k) = SubSeq(s, i + 1, k)
  BY <1>2, <1>3
<1>5. i <= k /\ k <= k
  OBVIOUS
<1>. QED  BY <1>1, <1>4, <1>5

\* Nothing is lost when a piece moves from the beginning of a rest to the end of what was before it.
Shifted(a, s, i, j, k) ==
    (a \o SubSeq(s, i + 1, j)) \o SubSeq(s, j + 1, k) = a \o SubSeq(s, i + 1, k)

LEMMA PieceMoved ==
    ASSUME NEW a \in Seq(Byte), NEW s \in Seq(Byte), NEW i \in Nat, NEW j \in Nat, NEW k \in Nat,
           i <= j, j <= k, k <= Len(s)
    PROVE  /\ a \o SubSeq(s, i + 1, j) \in Seq(Byte)
           /\ Shifted(a, s, i, j, k)
<1> DEFINE x == SubSeq(s, i + 1, j)
           y == SubSeq(s, j + 1, k)
           z == SubSeq(s, i + 1, k)
<1>1. x \o y = z
  BY ONLY Joined, s \in Seq(Byte), i \in Nat, j \in Nat, k \in Nat, i <= j, j <= k, k <= Len(s)
<1>2. x \in Seq(Byte) /\ y \in Seq(Byte)
  <2>1. j <= Len(s) /\ j <= j
    OBVIOUS
  <2>2. x \in Seq(Byte)
    BY ONLY Joined, <2>1, s \in Seq(Byte), i \in Nat, j \in Nat, i <= j
  <2>3. y \in Seq(Byte)
    BY ONLY Joined, s \in Seq(Byte), j \in Nat, k \in Nat, j <= k, k <= Len(s), k <= k, <2>1
  <2>. QED  BY <2>2, <2>3
<1> HIDE DEF x, y, z
<1>3. (a \o x) \o y = a \o (x \o y)
  BY ONLY <1>2, a \in Seq(Byte), ConcatAssociative, SMTT(30)
<1>4. a \o x \in Seq(Byte)
  BY <1>2, ConcatProperties
<1>. QED  BY <1>1, <1>3, <1>4 DEF x, y, z, Shifted

\* The beginning of a sequence that is put together of two.
LEMMA BeginningIsPrefix ==
    ASSUME NEW S, NEW s \in Seq(S), NEW t \in Seq(S)
    PROVE  IsPrefix(s, s \o t)
<1>1. /\ s \o t \in Seq(S) /\ Len(s \o t) = Len(s) + Len(t)
      /\ \A l \in 1 .. Len(s) + Len(t) : (s \o t)[l] = IF l <= Len(s) THEN s[l] ELSE t[l - Len(s)]
  BY ConcatProperties
<1>2. Len(s) \in Nat /\ Len(t) \in Nat /\ Len(s) <= Len(s \o t)
  BY <1>1
<1>3. SubSeq(s \o t, 1, Len(s)) \in Seq(S) /\ Len(SubSeq(s \o t, 1, Len(s))) = Len(s)
      /\ \A l \in 1 .. Len(s) : SubSeq(s \o t, 1, Len(s))[l] = (s \o t)[l]
  <2> DEFINE u == s \o t
             n == Len(s)
  <2> HIDE DEF u, n
  <2>0. u \in Seq(S) /\ n \in Nat /\ n <= Len(u)
    BY <1>1, <1>2 DEF u, n
  <2>1. \A l \in 1 .. n : u[l] \in S
    BY <2>0
  <2>2. /\ SubSeq(u, 1, n) \in Seq(S) /\ Len(SubSeq(u, 1, n)) = (IF 1 <= n THEN n - 1 + 1 ELSE 0)
        /\ \A l \in 1 .. n - 1 + 1 : SubSeq(u, 1, n)[l] = u[1 + l - 1]
    BY <2>0, <2>1, SubSeqProperties
  <2>3. \A l \in 1 .. n : l \in 1 .. n - 1 + 1 /\ 1 + l - 1 = l
    BY <2>0
  <2>. QED  BY <2>0, <2>2, <2>3 DEF u, n
<1>4. \A l \in 1 .. Len(s) : (s \o t)[l] = s[l]
  BY <1>1, <1>2
<1>5. SubSeq(s \o t, 1, Len(s)) = s
  BY <1>2, <1>3, <1>4, SeqEqual
<1>. QED  BY <1>2, <1>5 DEF IsPrefix

\* The buffer, after a piece of the frame it has the beginning of.
LEMMA PlacedAfter ==
    ASSUME NEW S, NEW s \in Seq(S), NEW k \in Nat, NEW n \in Nat, k + n <= Len(s)
    PROVE  Placed(SubSeq(s, 1, k), k, SubSeq(s, k + 1, k + n)) = SubSeq(s, 1, k + n)
<1> DEFINE x == SubSeq(s, 1, k)
           y == SubSeq(s, k + 1, k + n)
<1>1. 0 \in Nat /\ 0 <= k /\ k <= k + n /\ k + n \in Nat /\ 0 + 1 = 1 /\ k <= Len(s)
  OBVIOUS
<1>2. x \in Seq(S) /\ Len(x) = k
  BY <1>1, Joined
<1>3. x \o y = SubSeq(s, 1, k + n)
  BY <1>1, Joined
<1> HIDE DEF x, y
<1>4. [i \in 1 .. k - Len(x) |-> [of |-> 0, at |-> 0]] = <<>>
  BY <1>2
<1>5. x \o <<>> = x
  BY <1>2, ConcatEmptySeq
<1>6. k >= Len(x) /\ x \o [i \in 1 .. k - Len(x) |-> [of |-> 0, at |-> 0]] \o y = x \o y
  <2>1. k >= Len(x)
    BY <1>2
  <2>. QED  BY <1>4, <1>5, <2>1
<1>. QED  BY <1>3, <1>6 DEF Placed, x, y

----------------------------------------------------------------------------
(* The invariant of the websocket: what parts of a step keep.                *)

\* What the server has sent and what was handed over stay.
LEMMA RestSame ==
    ASSUME WebSocketInv, UNCHANGED <<frames, server_sent, handed_over>>, count' \in Nat, count <= count'
    PROVE  RestInFrames'
<1>1. \A ms \in Seq(WsMessage) : Numbered(ms) => Numbered(ms)'
  <2> SUFFICES ASSUME NEW ms \in Seq(WsMessage), Numbered(ms), NEW i \in DOMAIN ms PROVE ms[i].id <= count'
    BY DEF Numbered
  <2>1. count \in Nat
    BY DEF WebSocketInv, WebSocketTypeOK
  <2>2. ms[i] \in WsMessage
    OBVIOUS
  <2>3. ms[i].id \in Nat /\ ms[i].id <= count
    BY <2>2 DEF Numbered, WsMessage
  <2>. QED  BY <2>1, <2>3
<1>2. Numbered(frames)' /\ Numbered(server_sent)'
  BY <1>1 DEF WebSocketInv, RestInFrames, WebSocketTypeOK, Numbered
<1>. QED  BY <1>2 DEF WebSocketInv, RestInFrames

LEMMA BufferSame ==
    ASSUME WebSocketInv, UNCHANGED <<frames, offset, current_ws_buf>>,
           current_curl_connected' => current_curl_connected
    PROVE  BufferIsBeginning'
BY DEF WebSocketInv, BufferIsBeginning

LEMMA SentSame ==
    ASSUME WebSocketInv, UNCHANGED sendVars
    PROVE  RestIsSent'
BY DEF WebSocketInv, RestIsSent, sendVars

----------------------------------------------------------------------------
(* The invariant, action by action.                                          *)

LEMMA WebSocketInitInv == WebSocketInit => WebSocketInv
<1> SUFFICES ASSUME WebSocketInit PROVE WebSocketInv
  OBVIOUS
<1>1. WebSocketTypeOK
  <2>1. sending \in WsMessage
    BY DEF WebSocketInit, NoMessage, WsMessage
  <2>2. \A S : <<>> \in Seq(S)
    OBVIOUS
  <2>3. {closing, current_curl_handle, current_curl_connected, ws_connected, has_recv} \subseteq BOOLEAN
    BY DEF WebSocketInit
  <2>. QED  BY <2>1, <2>2, <2>3 DEF WebSocketInit, WebSocketTypeOK
<1>2. HandleKnown
  BY DEF WebSocketInit, HandleKnown
<1>3. RestInFrames /\ BufferIsBeginning
  BY DEF WebSocketInit, RestInFrames, Numbered, BufferIsBeginning
<1>4. SubSeq(Body(sending), sent_total + 1, sending.length) = <<>>
  BY SubSeqEmpty DEF WebSocketInit, NoMessage
<1>5. RestIsSent
  BY <1>4 DEF WebSocketInit, RestIsSent
<1>. QED  BY <1>1, <1>2, <1>3, <1>5 DEF WebSocketInv

\* A message is taken to be sent when all before have been.
LEMMA BeginToSendInv ==
    ASSUME WebSocketInv, BeginToSend, UNCHANGED arrived, ~Sending
    PROVE  /\ RestIsSent' /\ count' \in Nat /\ count <= count' /\ sent_total' \in Nat
           /\ sending' \in WsMessage /\ client_sent' \in Seq(Byte)
<1>1. PICK n \in Lengths : /\ sending' = [id |-> count + 1, length |-> n]
                           /\ client_sent' = client_sent \o Body(sending')
  BY DEF BeginToSend
<1>2. /\ count \in Nat /\ sent_total \in Nat /\ sending.length \in Nat /\ arrived \in Seq(Byte)
      /\ client_sent \in Seq(Byte) /\ n \in Nat /\ sending \in WsMessage
  BY LengthsAssumption DEF WebSocketInv, WebSocketTypeOK, WsMessage
<1>3. /\ sending' \in WsMessage /\ sending'.length \in Nat /\ Body(sending') \in Seq(Byte)
      /\ Len(Body(sending')) = sending'.length
  <2>1. sending' \in WsMessage
    BY <1>1, <1>2 DEF WsMessage
  <2>2. \A m \in WsMessage : Body(m) \in Seq(Byte) /\ Len(Body(m)) = m.length /\ m.length \in Nat
    BY BodyType DEF WsMessage
  <2>. QED  BY <2>1, <2>2
<1>4. arrived = client_sent
  <2>1. SubSeq(Body(sending), sent_total + 1, sending.length) = <<>>
    BY <1>2, SubSeqEmpty DEF Sending
  <2>2. arrived \o <<>> = arrived
    BY <1>2, ConcatEmptySeq
  <2>. QED  BY <2>1, <2>2 DEF WebSocketInv, RestIsSent
<1>5. SubSeq(Body(sending'), sent_total' + 1, sending'.length) = Body(sending')
  <2>1. sent_total' + 1 = 1
    BY DEF BeginToSend
  <2>2. \A b \in Seq(Byte) : SubSeq(b, 1, Len(b)) = b
    BY SubSeqFull
  <2>. QED  BY <1>3, <2>1, <2>2
<1>6. client_sent' \in Seq(Byte)
  BY <1>1, <1>2, <1>3, ConcatProperties
<1>7. RestIsSent'
  BY <1>1, <1>4, <1>5 DEF RestIsSent
<1>. QED  BY <1>2, <1>3, <1>6, <1>7 DEF BeginToSend

\* What the actions that only move the thread leave as it is.
LEMMA NothingMoves ==
    ASSUME WebSocketInv, UNCHANGED <<frames, offset, server_sent, handed_over, current_ws_buf, count, sendVars>>,
           current_curl_connected' => current_curl_connected,
           {closing, current_curl_handle, current_curl_connected, ws_connected, has_recv}' \subseteq BOOLEAN,
           step' \in {"loop", "init", "first", "recv", "send", "close", "return"}, attempt' \in 0 .. 3,
           HandleKnown'
    PROVE  WebSocketInv'
<1>1. count \in Nat /\ count <= count
  BY DEF WebSocketInv, WebSocketTypeOK
<1>2. RestInFrames' /\ BufferIsBeginning' /\ RestIsSent'
  BY <1>1, RestSame, BufferSame, SentSame
<1>3. WebSocketTypeOK'
  BY DEF WebSocketInv, WebSocketTypeOK, sendVars
<1>. QED  BY <1>2, <1>3 DEF WebSocketInv

LEMMA tryConnectInv ==
    ASSUME WebSocketInv, tryConnect
    PROVE  WebSocketInv'
<1>1. /\ step = "init" /\ attempt < 3 /\ current_ws_buf' = <<>> /\ ~current_curl_connected
      /\ UNCHANGED <<machine, closing, has_recv, sent_total, ws_connected, step, bounds>>
  BY DEF tryConnect, WebSocketInv, HandleKnown
<1>2. CASE /\ NewLink /\ current_curl_handle' = TRUE /\ current_curl_connected' = TRUE /\ attempt' = 3
  <2>1. WebSocketTypeOK'
    <3>1. sending' \in WsMessage
      BY <1>2 DEF NewLink, NoMessage, WsMessage
    <3>2. \A S : <<>> \in Seq(S)
      OBVIOUS
    <3>3. UNCHANGED <<closing, has_recv, ws_connected, step, sent_total, count>>
      BY <1>1 DEF bounds
    <3>. QED  BY <1>1, <1>2, <3>1, <3>2, <3>3 DEF NewLink, WebSocketInv, WebSocketTypeOK
  <2>2. HandleKnown'
    BY <1>1, <1>2 DEF NewLink, HandleKnown
  <2>3. RestInFrames' /\ BufferIsBeginning'
    BY <1>1, <1>2 DEF NewLink, RestInFrames, Numbered, BufferIsBeginning
  <2>4. RestIsSent'
    <3>1. sending' = NoMessage /\ sent_total' \in Nat
      BY <1>2, <2>1 DEF NewLink, WebSocketTypeOK
    <3>2. SubSeq(Body(sending'), sent_total' + 1, sending'.length) = <<>>
      <4>0. PICK t \in Nat : t = sent_total'
        BY <3>1
      <4>1. sending'.length = 0 /\ sent_total' + 1 \in Int /\ 0 < sent_total' + 1
        <5>1. NoMessage.length = 0
          BY DEF NoMessage
        <5>2. t + 1 \in Int /\ 0 < t + 1
          OBVIOUS
        <5>. QED  BY <3>1, <4>0, <5>1, <5>2
      <4>2. \A s : SubSeq(s, sent_total' + 1, 0) = <<>>
        BY <4>1, SubSeqEmpty
      <4>. QED  BY <4>1, <4>2
    <3>. QED  BY <1>2, <3>2 DEF NewLink, RestIsSent
  <2>. QED  BY <2>1, <2>2, <2>3, <2>4 DEF WebSocketInv
<1>3. CASE /\ current_curl_handle' = (Way(attempt) = "none") /\ attempt' = attempt + 1
           /\ OldLink /\ UNCHANGED current_curl_connected
  <2>1. WebSocketTypeOK'
    <3>1. UNCHANGED <<closing, has_recv, ws_connected, step, sent_total, count, frames, offset, server_sent,
                      sending, client_sent, arrived, handed_over>>
      BY <1>1, <1>3 DEF bounds, OldLink, wireVars
    <3>2. current_curl_handle' \in BOOLEAN /\ attempt' \in 0 .. 3
      BY <1>1, <1>3 DEF WebSocketInv, WebSocketTypeOK
    <3>3. <<>> \in Seq(Byte)
      OBVIOUS
    <3>. QED  BY <1>1, <1>3, <3>1, <3>2, <3>3 DEF WebSocketInv, WebSocketTypeOK
  <2>2. HandleKnown'
    BY <1>1, <1>3 DEF OldLink, WebSocketInv, HandleKnown
  <2>3. RestInFrames' /\ BufferIsBeginning' /\ RestIsSent'
    <3>1. count \in Nat /\ count <= count /\ UNCHANGED <<count, frames, server_sent, handed_over, sendVars>>
      BY <1>1, <1>3 DEF WebSocketInv, WebSocketTypeOK, bounds, OldLink, wireVars, sendVars
    <3>. QED  BY <1>1, <1>3, <3>1, RestSame, SentSame DEF BufferIsBeginning
  <2>. QED  BY <2>1, <2>2, <2>3 DEF WebSocketInv
<1>. QED  BY <1>2, <1>3 DEF tryConnect

LEMMA initReturnsInv ==
    ASSUME WebSocketInv, initReturns
    PROVE  WebSocketInv'
<1>1. /\ step = "init" /\ ws_connected' = current_curl_connected
      /\ UNCHANGED <<machine, closing, handleVars, recvVars, arrived, wireVars, attempt, path, link_count>>
  BY DEF initReturns
<1>2. CASE BeginToSend /\ step' = "first" /\ current_curl_connected
  <2>1. ~Sending
    BY <1>1, <1>2 DEF WebSocketInv, WebSocketTypeOK, HandleKnown, Sending, NoMessage
  <2>2. /\ RestIsSent' /\ count' \in Nat /\ count <= count' /\ sent_total' \in Nat
        /\ sending' \in WsMessage /\ client_sent' \in Seq(Byte)
    BY <1>1, <1>2, <2>1, BeginToSendInv
  <2>3. WebSocketTypeOK'
    BY <1>1, <1>2, <2>2 DEF WebSocketInv, WebSocketTypeOK, handleVars, recvVars, wireVars
  <2>4. HandleKnown'
    BY <1>1, <1>2 DEF HandleKnown, handleVars
  <2>5. RestInFrames' /\ BufferIsBeginning'
    BY <1>1, <2>2, RestSame, BufferSame DEF wireVars, recvVars, handleVars
  <2>. QED  BY <2>2, <2>3, <2>4, <2>5 DEF WebSocketInv
<1>3. CASE step' = "loop" /\ UNCHANGED <<sending, client_sent, count, sent_total>>
  <2>1. HandleKnown'
    BY <1>1, <1>3 DEF HandleKnown, handleVars
  <2>2. /\ {closing, current_curl_handle, current_curl_connected, ws_connected, has_recv}' \subseteq BOOLEAN
        /\ attempt' \in 0 .. 3
    BY <1>1 DEF WebSocketInv, WebSocketTypeOK, handleVars, recvVars
  <2>. QED  BY <1>1, <1>3, <2>1, <2>2, NothingMoves DEF handleVars, recvVars, wireVars, sendVars
<1>. QED  BY <1>2, <1>3 DEF initReturns

\* A piece of the message that is being sent moves from what is left of it to what has arrived.
LEMMA sendPieceInv ==
    ASSUME WebSocketInv, sendPiece
    PROVE  WebSocketInv'
<1>1. PICK n \in 0 .. Len(Body(sending)) - sent_total :
          /\ arrived' = arrived \o SubSeq(Body(sending), sent_total + 1, sent_total + n)
          /\ sent_total' = sent_total + n
  BY DEF sendPiece
<1>2. /\ UNCHANGED <<machine, closing, handleVars, recvVars, sending, client_sent, wireVars, threadVars, bounds>>
      /\ Sending
  BY DEF sendPiece
<1>3. /\ Body(sending) \in Seq(Byte) /\ Len(Body(sending)) = sending.length /\ sending.length \in Nat
      /\ sent_total \in Nat /\ arrived \in Seq(Byte)
  BY BodyType DEF WebSocketInv, WebSocketTypeOK, WsMessage
<1> DEFINE b == Body(sending)
           j == sent_total + n
           l == sending.length
<1>4. /\ b \in Seq(Byte) /\ l <= Len(b) /\ j \in Nat /\ sent_total <= j /\ j <= l /\ l \in Nat
  BY <1>1, <1>3
<1> HIDE DEF b, l
<1>5. arrived \o SubSeq(b, sent_total + 1, l) = client_sent
  BY <1>4 DEF WebSocketInv, RestIsSent, b, l
<1> HIDE DEF j
<1>6. /\ arrived \o SubSeq(b, sent_total + 1, j) \in Seq(Byte)
      /\ (arrived \o SubSeq(b, sent_total + 1, j)) \o SubSeq(b, j + 1, l)
            = arrived \o SubSeq(b, sent_total + 1, l)
  <2>1. PICK a \in Seq(Byte), s \in Seq(Byte), i \in Nat : a = arrived /\ s = b /\ i = sent_total
    BY <1>3, <1>4
  <2>2. /\ i <= j /\ j <= l /\ l <= Len(s)
    BY <1>4, <2>1
  <2>3. a \o SubSeq(s, i + 1, j) \in Seq(Byte)
    BY <1>4, <2>2, PieceMoved
  <2>4. Shifted(a, s, i, j, l)
    BY <1>4, <2>2, PieceMoved
  <2>. QED  BY <2>1, <2>3, <2>4 DEF Shifted
<1>7. RestIsSent'
  <2>1. sending' = sending /\ client_sent' = client_sent /\ sent_total' = j
        /\ arrived' = arrived \o SubSeq(b, sent_total + 1, j)
    BY <1>1, <1>2 DEF b, j
  <2>2. arrived' \o SubSeq(b, j + 1, l) = client_sent'
    BY <1>5, <1>6, <2>1
  <2>. QED  BY <1>4, <2>1, <2>2 DEF RestIsSent, b, l
<1>8. WebSocketTypeOK'
  <2>1. arrived' \in Seq(Byte) /\ sent_total' \in Nat
    BY <1>1, <1>4, <1>6 DEF b, j
  <2>. QED  BY <1>2, <2>1 DEF WebSocketInv, WebSocketTypeOK, handleVars, recvVars, wireVars, threadVars, bounds
<1>9. HandleKnown' /\ RestInFrames' /\ BufferIsBeginning'
  <2>1. count \in Nat /\ count <= count
    BY DEF WebSocketInv, WebSocketTypeOK
  <2>2. HandleKnown'
    BY <1>2 DEF WebSocketInv, HandleKnown, threadVars, handleVars
  <2>. QED  BY <1>2, <2>1, <2>2, RestSame, BufferSame DEF wireVars, recvVars, handleVars, bounds
<1>. QED  BY <1>7, <1>8, <1>9 DEF WebSocketInv

LEMMA sendNextInv ==
    ASSUME WebSocketInv, sendNext
    PROVE  WebSocketInv'
<1>1. /\ BeginToSend /\ ~Sending
      /\ UNCHANGED <<machine, closing, handleVars, recvVars, arrived, wireVars, threadVars, link_count>>
  BY DEF sendNext
<1>2. /\ RestIsSent' /\ count' \in Nat /\ count <= count' /\ sent_total' \in Nat
      /\ sending' \in WsMessage /\ client_sent' \in Seq(Byte)
  BY <1>1, BeginToSendInv
<1>3. WebSocketTypeOK'
  BY <1>1, <1>2 DEF WebSocketInv, WebSocketTypeOK, handleVars, recvVars, wireVars, threadVars
<1>4. HandleKnown'
  BY <1>1 DEF sendNext, WebSocketInv, HandleKnown, threadVars, handleVars
<1>5. RestInFrames' /\ BufferIsBeginning'
  BY <1>1, <1>2, RestSame, BufferSame DEF wireVars, recvVars, handleVars
<1>. QED  BY <1>2, <1>3, <1>4, <1>5 DEF WebSocketInv

\* The first message that curl has is the next of the server's that is handed over.
LEMMA FirstIsNext ==
    ASSUME RestInFrames, WebSocketTypeOK, frames # <<>>, frames[1].length > 0
    PROVE  Len(handed_over) + 1 \in DOMAIN server_sent /\ server_sent[Len(handed_over) + 1] = frames[1]
<1> DEFINE l == Len(handed_over)
<1>1. 1 \in DOMAIN frames /\ l \in Nat
  BY DEF WebSocketTypeOK
<1>2. PICK j \in DOMAIN server_sent : j > l /\ server_sent[j] = frames[1]
  BY <1>1 DEF RestInFrames
<1>3. l + 1 \in DOMAIN server_sent /\ l + 1 <= j
  BY <1>1, <1>2 DEF WebSocketTypeOK
<1>4. PICK i \in DOMAIN frames : frames[i] = server_sent[l + 1]
  BY <1>1, <1>3 DEF RestInFrames
<1>5. \A m \in DOMAIN frames : frames[m].id \in Nat
  <2>1. \A m \in DOMAIN frames : frames[m] \in WsMessage
    BY DEF WebSocketTypeOK
  <2>. QED  BY <2>1 DEF WsMessage
<1> HIDE DEF l
<1>6. CASE l + 1 < j
  <2>1. server_sent[l + 1].id < server_sent[j].id
    BY <1>2, <1>3, <1>6 DEF RestInFrames, Numbered
  <2>2. frames[i].id < frames[1].id
    BY <1>2, <1>4, <2>1
  <2>3. i = 1 \/ 1 < i
    BY <1>4 DEF WebSocketTypeOK
  <2>4. 1 < i => frames[1].id < frames[i].id
    BY <1>1, <1>4 DEF RestInFrames, Numbered
  <2>. QED  BY <1>1, <1>4, <1>5, <2>2, <2>3, <2>4
<1>7. j \in Nat
  BY <1>2 DEF WebSocketTypeOK
<1>. QED  BY <1>1, <1>2, <1>3, <1>6, <1>7 DEF l

\* The first message leaves the frames, and is handed over unless it is empty.
LEMMA FrameTaken ==
    ASSUME RestInFrames, WebSocketTypeOK, frames # <<>>, frames' = Tail(frames),
           UNCHANGED <<server_sent, count>>,
           IF frames[1].length > 0 THEN handed_over' = Append(handed_over, Body(frames[1]))
           ELSE UNCHANGED handed_over
    PROVE  RestInFrames'
<1> DEFINE l == Len(handed_over)
<1>1. /\ 1 \in DOMAIN frames /\ l \in Nat /\ DOMAIN frames = 1 .. Len(frames) /\ Len(frames) \in Nat
      /\ DOMAIN frames' = 1 .. Len(frames) - 1 /\ \A i \in DOMAIN frames' : frames'[i] = frames[i + 1]
      /\ \A i \in DOMAIN frames : frames[i] \in WsMessage
      /\ DOMAIN server_sent = 1 .. Len(server_sent) /\ Len(server_sent) \in Nat /\ DOMAIN handed_over = 1 .. l
      /\ handed_over \in Seq(Seq(Byte)) /\ Body(frames[1]) \in Seq(Byte)
  <2>1. /\ 1 \in DOMAIN frames /\ l \in Nat /\ DOMAIN frames = 1 .. Len(frames) /\ Len(frames) \in Nat
        /\ DOMAIN frames' = 1 .. Len(frames) - 1 /\ \A i \in DOMAIN frames' : frames'[i] = frames[i + 1]
        /\ \A i \in DOMAIN frames : frames[i] \in WsMessage
    BY DEF WebSocketTypeOK
  <2>2. /\ DOMAIN server_sent = 1 .. Len(server_sent) /\ Len(server_sent) \in Nat /\ DOMAIN handed_over = 1 .. l
        /\ handed_over \in Seq(Seq(Byte))
    BY DEF WebSocketTypeOK
  <2>3. Body(frames[1]) \in Seq(Byte)
    BY <2>1, BodyType
  <2>. QED  BY <2>1, <2>2, <2>3
<1>2. \A i \in DOMAIN frames' : i + 1 \in DOMAIN frames /\ frames[1].id < frames[i + 1].id
  <2>1. \A i \in DOMAIN frames' : i + 1 \in DOMAIN frames /\ 1 < i + 1
    BY <1>1
  <2>2. \A i, j \in DOMAIN frames : i < j => frames[i].id < frames[j].id
    BY DEF RestInFrames, Numbered
  <2>. QED  BY <1>1, <2>1, <2>2
<1>3. Numbered(frames)' /\ Numbered(server_sent)'
  <2>1. \A i, j \in DOMAIN frames' : i < j => frames[i + 1].id < frames[j + 1].id
    <3>1. \A i, j \in DOMAIN frames' : i < j => i + 1 < j + 1
      BY <1>1
    <3>2. \A i, j \in DOMAIN frames : i < j => frames[i].id < frames[j].id
      BY DEF RestInFrames, Numbered
    <3>. QED  BY <1>2, <3>1, <3>2
  <2>2. \A i \in DOMAIN frames' : frames[i + 1].id <= count
    BY <1>2 DEF RestInFrames, Numbered
  <2>. QED  BY <1>1, <2>1, <2>2 DEF RestInFrames, Numbered
<1>4. CASE frames[1].length > 0
  <2>1. l + 1 \in DOMAIN server_sent /\ server_sent[l + 1] = frames[1]
    BY <1>4, FirstIsNext
  <2> HIDE DEF l
  <2>2. /\ Len(handed_over') = l + 1 /\ DOMAIN handed_over' = 1 .. l + 1
        /\ \A i \in DOMAIN handed_over : handed_over'[i] = handed_over[i]
        /\ handed_over'[l + 1] = Body(frames[1])
    BY <1>1, <1>4, AppendProperties DEF l
  <2>3. \A i \in DOMAIN handed_over' : handed_over'[i] = Body(server_sent[i])
    <3> SUFFICES ASSUME NEW i \in DOMAIN handed_over' PROVE handed_over'[i] = Body(server_sent[i])
      OBVIOUS
    <3>1. i \in DOMAIN handed_over \/ i = l + 1
      <4>1. i \in 1 .. l + 1 /\ l \in Nat
        BY <1>1, <2>2
      <4>2. i \in 1 .. l \/ i = l + 1
        BY <4>1
      <4>. QED  BY <1>1, <4>2
    <3>2. i \in DOMAIN handed_over => handed_over[i] = Body(server_sent[i])
      BY DEF RestInFrames
    <3>. QED  BY <2>1, <2>2, <3>1, <3>2
  <2>4. ASSUME NEW i \in DOMAIN frames', frames'[i].length > 0
        PROVE  \E j \in DOMAIN server_sent : j > l + 1 /\ server_sent[j] = frames'[i]
    <3>1. PICK j \in DOMAIN server_sent : j > l /\ server_sent[j] = frames[i + 1]
      BY <1>1, <1>2, <2>4 DEF RestInFrames, l
    <3>2. frames[1].id \in Nat /\ frames[1].id < server_sent[j].id
      BY <1>1, <1>2, <3>1 DEF WsMessage
    <3>3. j # l + 1
      BY <2>1, <3>2
    <3>4. j > l + 1
      BY <1>1, <3>1, <3>3
    <3>. QED  BY <1>1, <3>1, <3>4
  <2>5. ASSUME NEW j \in DOMAIN server_sent, j > l + 1 PROVE \E i \in DOMAIN frames' : frames'[i] = server_sent[j]
    <3>1. j > l
      BY <1>1, <2>5
    <3>2. PICK i \in DOMAIN frames : frames[i] = server_sent[j]
      BY <3>1 DEF RestInFrames, l
    <3>3. server_sent[l + 1].id < server_sent[j].id
      BY <2>1, <2>5 DEF RestInFrames, Numbered
    <3>4. frames[1].id \in Nat /\ i # 1
      <4>1. frames[1].id \in Nat
        BY <1>1 DEF WsMessage
      <4>2. i = 1 => frames[1].id < frames[1].id
        BY <2>1, <3>2, <3>3
      <4>. QED  BY <4>1, <4>2
    <3>5. i - 1 \in DOMAIN frames' /\ frames'[i - 1] = frames[i]
      BY <1>1, <3>4
    <3>. QED  BY <3>2, <3>5
  <2>6. l + 1 <= Len(server_sent)
    BY <1>1, <2>1
  <2>7. \A j \in DOMAIN server_sent : server_sent[j].length > 0
    BY DEF RestInFrames
  <2>. QED  BY <1>3, <2>2, <2>3, <2>4, <2>5, <2>6, <2>7 DEF RestInFrames
<1>5. CASE ~(frames[1].length > 0)
  <2>1. ASSUME NEW i \in DOMAIN frames', frames'[i].length > 0
        PROVE  \E j \in DOMAIN server_sent : j > l /\ server_sent[j] = frames'[i]
    BY <1>1, <1>2, <2>1 DEF RestInFrames
  <2>2. ASSUME NEW j \in DOMAIN server_sent, j > l PROVE \E i \in DOMAIN frames' : frames'[i] = server_sent[j]
    <3>1. PICK i \in DOMAIN frames : frames[i] = server_sent[j]
      BY <2>2 DEF RestInFrames
    <3>2. i # 1
      BY <1>5, <3>1 DEF RestInFrames
    <3>3. i - 1 \in DOMAIN frames' /\ frames'[i - 1] = frames[i]
      BY <1>1, <3>2
    <3>. QED  BY <3>1, <3>3
  <2>. QED  BY <1>3, <1>5, <2>1, <2>2 DEF RestInFrames
<1>. QED  BY <1>4, <1>5

LEMMA recvPieceInv ==
    ASSUME WebSocketInv, recvPiece
    PROVE  WebSocketInv'
<1> DEFINE m == frames[1]
           body == Body(m)
<1>1. /\ step = "recv" /\ current_curl_handle /\ frames # <<>> /\ current_curl_connected
      /\ UNCHANGED <<machine, closing, handleVars, sendVars, server_sent, threadVars, bounds>>
      /\ Head(frames) = m
  BY DEF recvPiece, WebSocketInv, HandleKnown, WebSocketTypeOK
<1>2. /\ m \in WsMessage /\ m.length \in Nat /\ body \in Seq(Byte) /\ Len(body) = m.length
      /\ offset \in Nat /\ offset <= m.length /\ current_ws_buf = SubSeq(body, 1, offset)
  <2>1. m \in WsMessage
    BY <1>1 DEF WebSocketInv, WebSocketTypeOK
  <2>2. offset \in Nat /\ offset <= m.length /\ current_ws_buf = SubSeq(body, 1, offset)
    BY <1>1 DEF WebSocketInv, WebSocketTypeOK, BufferIsBeginning
  <2>. QED  BY <2>1, <2>2, BodyType DEF WsMessage
<1>3. PICK n \in 0 .. Len(body) - offset :
         LET buf == Placed(current_ws_buf, offset, SubSeq(body, offset + 1, offset + n))
         IN  IF offset + n = Len(body)
             THEN /\ frames' = Tail(frames) /\ offset' = 0
                  /\ IF buf # <<>>
                     THEN handed_over' = Append(handed_over, buf) /\ current_ws_buf' = <<>>
                          /\ has_recv' = TRUE
                     ELSE UNCHANGED recvVars
             ELSE /\ offset' = offset + n /\ current_ws_buf' = buf
                  /\ UNCHANGED <<frames, handed_over, has_recv>>
  BY <1>1 DEF recvPiece
<1> HIDE DEF m, body
<1>4. n \in Nat /\ offset + n \in Nat /\ offset + n <= Len(body)
  BY <1>2, <1>3
<1> DEFINE buf == Placed(current_ws_buf, offset, SubSeq(body, offset + 1, offset + n))
           k == offset + n
<1>5. buf = SubSeq(body, 1, k)
  BY <1>2, <1>4, PlacedAfter
<1>6. k = Len(body) => buf = body
  <2>1. SubSeq(body, 1, Len(body)) = body
    BY <1>2, SubSeqFull
  <2>. QED  BY <1>5, <2>1
<1>7. buf \in Seq(Byte)
  <2> HIDE DEF k, buf
  <2>1. 0 \in Nat /\ 0 <= k /\ k \in Nat /\ k <= Len(body) /\ 0 + 1 = 1
    BY <1>4 DEF k
  <2>2. SubSeq(body, 0 + 1, k) \in Seq(Byte)
    BY ONLY <1>2, <2>1, Joined
  <2>. QED  BY <1>5, <2>1, <2>2
<1> HIDE DEF buf
<1>8. HandleKnown' /\ RestIsSent'
  <2>1. HandleKnown'
    BY <1>1 DEF WebSocketInv, HandleKnown, threadVars, handleVars, sendVars
  <2>. QED  BY <1>1, <2>1, SentSame
<1>9. CASE k = Len(body)
  <2>1. frames' = Tail(frames) /\ offset' = 0
    BY <1>3, <1>9
  <2>2. /\ m.length > 0 => /\ handed_over' = Append(handed_over, body) /\ current_ws_buf' = <<>>
                           /\ has_recv' = TRUE
        /\ ~(m.length > 0) => /\ UNCHANGED <<handed_over, has_recv>> /\ current_ws_buf' = <<>>
    <3>1. m.length > 0 <=> body # <<>>
      BY <1>2
    <3>2. buf = body
      BY <1>6, <1>9
    <3>3. body # <<>> => handed_over' = Append(handed_over, body) /\ current_ws_buf' = <<>> /\ has_recv' = TRUE
      BY <1>3, <1>9, <3>2 DEF buf
    <3>4. body = <<>> => UNCHANGED recvVars
      BY <1>3, <1>9, <3>2 DEF buf
    <3>5. body = <<>> => current_ws_buf = <<>>
      <4>1. body = <<>> => offset = 0
        BY <1>2
      <4>2. SubSeq(body, 1, 0) = <<>>
        BY SubSeqEmpty
      <4>. QED  BY <1>2, <4>1, <4>2
    <3>. QED  BY <3>1, <3>3, <3>4, <3>5 DEF recvVars
  <2>3. RestInFrames'
    <3>1. RestInFrames /\ WebSocketTypeOK /\ UNCHANGED <<server_sent, count>>
      BY <1>1 DEF WebSocketInv, bounds
    <3>2. IF frames[1].length > 0 THEN handed_over' = Append(handed_over, Body(frames[1]))
          ELSE UNCHANGED handed_over
      BY <2>2 DEF m, body
    <3>. QED  BY <1>1, <2>1, <3>1, <3>2, FrameTaken
  <2>4. WebSocketTypeOK'
    <3>1. frames' \in Seq(WsMessage)
      BY <1>1, <2>1 DEF WebSocketInv, WebSocketTypeOK
    <3>2. handed_over' \in Seq(Seq(Byte))
      <4>1. handed_over \in Seq(Seq(Byte))
        BY DEF WebSocketInv, WebSocketTypeOK
      <4>2. Append(handed_over, body) \in Seq(Seq(Byte))
        BY <1>2, <4>1, AppendProperties
      <4>. QED  BY <2>2, <4>1, <4>2
    <3>3. current_ws_buf' \in Seq(Byte) /\ has_recv' \in BOOLEAN /\ offset' \in Nat
      <4>1. <<>> \in Seq(Byte) /\ has_recv \in BOOLEAN
        BY DEF WebSocketInv, WebSocketTypeOK
      <4>2. current_ws_buf' = <<>> /\ (has_recv' = TRUE \/ has_recv' = has_recv)
        BY <2>2
      <4>. QED  BY <2>1, <4>1, <4>2
    <3>4. UNCHANGED <<closing, current_curl_handle, current_curl_connected, ws_connected, step, attempt,
                      sent_total, count, arrived, client_sent, sending, server_sent>>
      BY <1>1 DEF handleVars, sendVars, threadVars, bounds
    <3>. QED  BY <3>1, <3>2, <3>3, <3>4 DEF WebSocketInv, WebSocketTypeOK
  <2>5. BufferIsBeginning'
    <3>1. offset' = 0 /\ current_ws_buf' = <<>>
      BY <2>1, <2>2
    <3>2. frames' # <<>> => frames'[1].length \in Nat
      <4>1. frames' # <<>> => frames'[1] \in WsMessage
        BY <2>4 DEF WebSocketTypeOK
      <4>. QED  BY <4>1 DEF WsMessage
    <3>3. SubSeq(Body(frames'[1]), 1, 0) = <<>>
      BY SubSeqEmpty
    <3>. QED  BY <3>1, <3>2, <3>3 DEF BufferIsBeginning
  <2>. QED  BY <1>8, <2>3, <2>4, <2>5 DEF WebSocketInv
<1>10. CASE k # Len(body)
  <2>1. offset' = k /\ current_ws_buf' = buf /\ UNCHANGED <<frames, handed_over, has_recv>>
    BY <1>3, <1>10 DEF buf
  <2>2. WebSocketTypeOK'
    <3>1. offset' \in Nat /\ current_ws_buf' \in Seq(Byte)
      BY <1>4, <1>7, <2>1
    <3>2. UNCHANGED <<closing, current_curl_handle, current_curl_connected, ws_connected, step, attempt,
                      sent_total, count, arrived, client_sent, sending, server_sent>>
      BY <1>1 DEF handleVars, sendVars, threadVars, bounds
    <3>. QED  BY <2>1, <3>1, <3>2 DEF WebSocketInv, WebSocketTypeOK
  <2>3. RestInFrames'
    <3>1. count \in Nat /\ count <= count /\ count' = count /\ server_sent' = server_sent
      BY <1>1 DEF WebSocketInv, WebSocketTypeOK, bounds
    <3>. QED  BY <2>1, <3>1, RestSame
  <2>4. BufferIsBeginning'
    BY <1>1, <1>2, <1>4, <1>5, <2>1 DEF BufferIsBeginning, m, body
  <2>. QED  BY <1>8, <2>2, <2>3, <2>4 DEF WebSocketInv
<1>. QED  BY <1>9, <1>10

LEMMA serverSendsInv ==
    ASSUME WebSocketInv, serverSends
    PROVE  WebSocketInv'
<1>1. PICK n \in Lengths \cup {0} :
          /\ frames' = Append(frames, [id |-> count + 1, length |-> n])
          /\ server_sent' = IF n = 0 THEN server_sent ELSE Append(server_sent, [id |-> count + 1, length |-> n])
  BY DEF serverSends
<1> DEFINE m == [id |-> count + 1, length |-> n]
<1>2. /\ count' = count + 1 /\ current_curl_connected
      /\ UNCHANGED <<machine, closing, handleVars, recvVars, sendVars, offset, threadVars, link_count>>
  BY DEF serverSends
<1>3. count \in Nat /\ m \in WsMessage /\ m.id = count + 1 /\ m.length = n /\ n \in Nat
  <2>1. n \in Nat
    BY LengthsAssumption
  <2>2. count \in Nat
    BY DEF WebSocketInv, WebSocketTypeOK
  <2>. QED  BY <2>1, <2>2 DEF WsMessage
<1>4. frames' = Append(frames, m) /\ server_sent' = IF n = 0 THEN server_sent ELSE Append(server_sent, m)
  BY <1>1
<1> HIDE DEF m
<1>5. ASSUME NEW q \in Seq(WsMessage), NEW r \in Seq(WsMessage), Numbered(q), r = q \/ r = Append(q, m)
      PROVE  \A i \in DOMAIN r : r[i].id <= count' /\ \A j \in DOMAIN r : i < j => r[i].id < r[j].id
  <2>1. \A i, j \in DOMAIN q : i < j => q[i].id < q[j].id
    BY <1>5 DEF Numbered
  <2>2. \A i \in DOMAIN q : q[i].id <= count' /\ q[i].id < m.id
    <3> SUFFICES ASSUME NEW i \in DOMAIN q PROVE q[i].id <= count' /\ q[i].id < m.id
      OBVIOUS
    <3>1. q[i] \in WsMessage /\ q[i].id <= count
      BY <1>5 DEF Numbered
    <3>. QED  BY <1>2, <1>3, <3>1 DEF WsMessage
  <2>3. CASE r = q
    BY <2>1, <2>2, <2>3
  <2>4. CASE r = Append(q, m)
    <3>1. /\ DOMAIN q = 1 .. Len(q) /\ DOMAIN r = 1 .. Len(q) + 1 /\ Len(q) \in Nat
          /\ r[Len(q) + 1] = m /\ \A i \in 1 .. Len(q) : r[i] = q[i]
      BY <1>3, <2>4, AppendProperties
    <3> SUFFICES ASSUME NEW i \in DOMAIN r
                 PROVE  r[i].id <= count' /\ \A j \in DOMAIN r : i < j => r[i].id < r[j].id
      OBVIOUS
    <3>2. CASE i \in 1 .. Len(q)
      <4>1. r[i] = q[i] /\ i \in DOMAIN q
        BY <3>1, <3>2
      <4>2. ASSUME NEW j \in DOMAIN r, i < j PROVE r[i].id < r[j].id
        <5>1. CASE j \in 1 .. Len(q)
          BY <2>1, <3>1, <4>1, <4>2, <5>1
        <5>2. CASE j = Len(q) + 1
          BY <2>2, <3>1, <4>1, <5>2
        <5>. QED  BY <3>1, <5>1, <5>2
      <4>. QED  BY <2>2, <4>1, <4>2
    <3>3. CASE i = Len(q) + 1
      <4>1. r[i].id <= count'
        BY <1>2, <1>3, <3>1, <3>3
      <4>2. \A j \in DOMAIN r : ~(i < j)
        BY <3>1, <3>3
      <4>. QED  BY <4>1, <4>2
    <3>. QED  BY <3>1, <3>2, <3>3
  <2>. QED  BY <1>5, <2>3, <2>4
<1>6. /\ frames \in Seq(WsMessage) /\ server_sent \in Seq(WsMessage)
      /\ frames' \in Seq(WsMessage) /\ server_sent' \in Seq(WsMessage)
      /\ Numbered(frames) /\ Numbered(server_sent)
  <2>1. frames \in Seq(WsMessage) /\ server_sent \in Seq(WsMessage)
    BY DEF WebSocketInv, WebSocketTypeOK
  <2>2. Append(frames, m) \in Seq(WsMessage) /\ Append(server_sent, m) \in Seq(WsMessage)
    BY <1>3, <2>1, AppendProperties
  <2>. QED  BY <1>4, <2>1, <2>2 DEF WebSocketInv, RestInFrames
<1>7. Numbered(frames)' /\ Numbered(server_sent)'
  <2>1. \A i \in DOMAIN frames' : frames'[i].id <= count' /\ \A j \in DOMAIN frames' : i < j => frames'[i].id < frames'[j].id
    BY <1>4, <1>5, <1>6
  <2>2. server_sent' = server_sent \/ server_sent' = Append(server_sent, m)
    BY <1>4
  <2>3. \A i \in DOMAIN server_sent' : /\ server_sent'[i].id <= count'
                                       /\ \A j \in DOMAIN server_sent' : i < j => server_sent'[i].id < server_sent'[j].id
    BY <1>5, <1>6, <2>2
  <2>. QED  BY <2>1, <2>3 DEF Numbered
<1>8. /\ DOMAIN frames = 1 .. Len(frames) /\ DOMAIN frames' = 1 .. Len(frames) + 1 /\ Len(frames) \in Nat
      /\ frames'[Len(frames) + 1] = m /\ \A i \in 1 .. Len(frames) : frames'[i] = frames[i]
  BY <1>3, <1>4, <1>6, AppendProperties
<1>9. /\ DOMAIN server_sent = 1 .. Len(server_sent) /\ Len(server_sent) \in Nat /\ DOMAIN server_sent \subseteq DOMAIN server_sent'
      /\ \A j \in DOMAIN server_sent : server_sent'[j] = server_sent[j]
      /\ n # 0 => /\ Len(server_sent) + 1 \in DOMAIN server_sent' /\ server_sent'[Len(server_sent) + 1] = m
      /\ \A j \in DOMAIN server_sent' : j \in DOMAIN server_sent \/ (n # 0 /\ j = Len(server_sent) + 1)
      /\ Len(server_sent) <= Len(server_sent')
  <2>1. DOMAIN server_sent = 1 .. Len(server_sent) /\ Len(server_sent) \in Nat
    BY <1>6
  <2>2. CASE n = 0
    BY <1>4, <2>1, <2>2
  <2>3. CASE n # 0
    <3>1. /\ Len(server_sent') = Len(server_sent) + 1 /\ DOMAIN server_sent' = 1 .. Len(server_sent) + 1
          /\ server_sent'[Len(server_sent) + 1] = m /\ \A j \in 1 .. Len(server_sent) : server_sent'[j] = server_sent[j]
      BY <1>3, <1>4, <1>6, <2>3, AppendProperties
    <3>. QED  BY <2>1, <2>3, <3>1
  <2>. QED  BY <2>2, <2>3
<1>10. RestInFrames'
  <2> DEFINE l == Len(handed_over)
  <2>1. /\ handed_over' = handed_over /\ l <= Len(server_sent) /\ l \in Nat
        /\ \A i \in DOMAIN handed_over : i \in DOMAIN server_sent /\ handed_over[i] = Body(server_sent[i])
    <3>1. handed_over' = handed_over /\ l <= Len(server_sent) /\ l \in Nat /\ DOMAIN handed_over = 1 .. l
      BY <1>2 DEF recvVars, WebSocketInv, WebSocketTypeOK, RestInFrames
    <3>2. \A i \in DOMAIN handed_over : handed_over[i] = Body(server_sent[i])
      BY DEF WebSocketInv, RestInFrames
    <3>. QED  BY <1>9, <3>1, <3>2
  <2> HIDE DEF l
  <2>2. ASSUME NEW i \in DOMAIN frames', frames'[i].length > 0
        PROVE  \E j \in DOMAIN server_sent' : j > l /\ server_sent'[j] = frames'[i]
    <3>1. CASE i \in 1 .. Len(frames)
      <4>1. frames'[i] = frames[i] /\ i \in DOMAIN frames
        BY <1>8, <3>1
      <4>2. PICK j \in DOMAIN server_sent : j > l /\ server_sent[j] = frames[i]
        BY <2>2, <4>1 DEF WebSocketInv, RestInFrames, l
      <4>. QED  BY <1>9, <4>1, <4>2
    <3>2. CASE i = Len(frames) + 1
      <4>1. frames'[i] = m /\ n # 0
        BY <1>3, <1>8, <2>2, <3>2
      <4>2. Len(server_sent) + 1 > l
        BY <1>9, <2>1
      <4>. QED  BY <1>9, <4>1, <4>2
    <3>. QED  BY <1>8, <3>1, <3>2
  <2>3. ASSUME NEW j \in DOMAIN server_sent'
        PROVE  /\ server_sent'[j].length > 0
               /\ j > l => \E i \in DOMAIN frames' : frames'[i] = server_sent'[j]
    <3>1. CASE j \in DOMAIN server_sent
      <4>1. server_sent[j].length > 0 /\ (j > l => \E i \in DOMAIN frames : frames[i] = server_sent[j])
        BY <3>1 DEF WebSocketInv, RestInFrames, l
      <4>2. \A i \in DOMAIN frames : i \in DOMAIN frames' /\ frames'[i] = frames[i]
        BY <1>8
      <4>. QED  BY <1>9, <3>1, <4>1, <4>2
    <3>2. CASE n # 0 /\ j = Len(server_sent) + 1
      <4>1. server_sent'[j] = m /\ m.length > 0
        BY <1>3, <1>9, <3>2
      <4>2. Len(frames) + 1 \in DOMAIN frames'
        BY <1>8
      <4>. QED  BY <1>8, <4>1, <4>2
    <3>. QED  BY <1>9, <3>1, <3>2
  <2>4. Len(handed_over') <= Len(server_sent') /\ \A i \in DOMAIN handed_over' : handed_over'[i] = Body(server_sent'[i])
    <3>1. Len(server_sent') \in Nat
      BY <1>6
    <3>. QED  BY <1>9, <2>1, <3>1 DEF l
  <2>. QED  BY <1>7, <2>1, <2>2, <2>3, <2>4 DEF RestInFrames, l
<1>11. BufferIsBeginning'
  <2>1. offset' = offset /\ current_ws_buf' = current_ws_buf /\ frames' # <<>>
    BY <1>2, <1>8 DEF recvVars
  <2>2. CASE frames = <<>>
    <3>1. frames'[1] = m /\ offset = 0 /\ current_ws_buf = <<>>
      BY <1>2, <1>8, <2>2 DEF WebSocketInv, BufferIsBeginning
    <3>2. SubSeq(Body(m), 1, 0) = <<>>
      BY SubSeqEmpty
    <3>. QED  BY <1>3, <2>1, <3>1, <3>2 DEF BufferIsBeginning
  <2>3. CASE frames # <<>>
    <3>1. frames'[1] = frames[1]
      BY <1>6, <1>8, <2>3
    <3>. QED  BY <1>2, <2>1, <2>3, <3>1 DEF WebSocketInv, BufferIsBeginning
  <2>. QED  BY <2>2, <2>3
<1>12. WebSocketTypeOK'
  <2>1. count' \in Nat
    BY <1>2, <1>3
  <2>2. UNCHANGED <<closing, current_curl_handle, current_curl_connected, ws_connected, step, attempt, has_recv,
                    sent_total, arrived, client_sent, sending, offset, current_ws_buf, handed_over>>
    BY <1>2 DEF handleVars, sendVars, threadVars, recvVars
  <2>. QED  BY <1>6, <2>1, <2>2 DEF WebSocketInv, WebSocketTypeOK
<1>13. HandleKnown' /\ RestIsSent'
  BY <1>2, SentSame DEF WebSocketInv, HandleKnown, handleVars, threadVars, sendVars
<1>. QED  BY <1>10, <1>11, <1>12, <1>13 DEF WebSocketInv

\* The actions that only move the thread, or end the connection.
LEMMA ThreadMovesInv ==
    ASSUME WebSocketInv,
           \/ startInit \/ startRecv \/ recvAgain \/ recvCloses
           \/ sendFails \/ sendReturns \/ closeClient \/ threadReturns
    PROVE  WebSocketInv'
<1>1. /\ {closing, current_curl_handle, current_curl_connected, ws_connected, has_recv} \subseteq BOOLEAN
      /\ step \in {"loop", "init", "first", "recv", "send", "close", "return"} /\ attempt \in 0 .. 3
  BY DEF WebSocketInv, WebSocketTypeOK
<1>2. HandleKnown
  BY DEF WebSocketInv
<1>3. CASE startInit
  <2>1. ~current_curl_connected /\ HandleKnown'
    BY <1>2, <1>3 DEF startInit, HandleKnown, handleVars
  <2>. QED  BY <1>1, <1>3, <2>1, NothingMoves DEF startInit, handleVars, recvVars, wireVars
<1>4. CASE startRecv
  <2>1. HandleKnown'
    BY <1>2, <1>4 DEF startRecv, HandleKnown, handleVars
  <2>. QED  BY <1>1, <1>4, <2>1, NothingMoves DEF startRecv, handleVars, wireVars, bounds
<1>5. CASE recvAgain
  <2>1. HandleKnown'
    BY <1>2, <1>5 DEF recvAgain, AfterRecv, HandleKnown, handleVars, sendVars
  <2>2. ws_connected' \in BOOLEAN /\ has_recv' \in BOOLEAN
        /\ step' \in {"loop", "init", "first", "recv", "send", "close", "return"}
    BY <1>1, <1>5 DEF recvAgain, AfterRecv
  <2>. QED  BY <1>1, <1>5, <2>1, <2>2, NothingMoves DEF recvAgain, handleVars, wireVars, bounds
<1>6. CASE recvCloses
  <2>1. HandleKnown'
    BY <1>2, <1>6 DEF recvCloses, AfterRecv, Close, HandleKnown
  <2>2. ws_connected' \in BOOLEAN /\ has_recv' \in BOOLEAN
        /\ step' \in {"loop", "init", "first", "recv", "send", "close", "return"}
    BY <1>1, <1>6 DEF recvCloses, AfterRecv
  <2>. QED  BY <1>1, <1>6, <2>1, <2>2, NothingMoves DEF recvCloses, Close, wireVars, bounds
<1>7. CASE sendFails
  <2>1. HandleKnown'
    BY <1>7 DEF sendFails, Close, HandleKnown
  <2>. QED  BY <1>1, <1>7, <2>1, NothingMoves DEF sendFails, Close, recvVars, wireVars, bounds
<1>8. CASE sendReturns
  <2>1. HandleKnown'
    BY <1>2, <1>8 DEF sendReturns, HandleKnown, handleVars
  <2>2. step' \in {"loop", "close"}
    BY <1>8 DEF sendReturns
  <2>. QED  BY <1>1, <1>8, <2>1, <2>2, NothingMoves DEF sendReturns, handleVars, recvVars, wireVars, bounds
<1>9. CASE closeClient
  <2>1. HandleKnown'
    BY <1>2, <1>9 DEF closeClient, HandleKnown, handleVars, sendVars, threadVars
  <2>. QED  BY <1>1, <1>9, <2>1, NothingMoves
            DEF closeClient, handleVars, recvVars, wireVars, threadVars, bounds
<1>10. CASE threadReturns
  <2>1. HandleKnown'
    BY <1>10 DEF threadReturns, HandleKnown
  <2>2. \/ current_curl_handle' = FALSE /\ current_curl_connected' = FALSE
        \/ current_curl_handle' = current_curl_handle /\ current_curl_connected' = current_curl_connected
    BY <1>10 DEF threadReturns, Close, StayOpen, handleVars
  <2>3. /\ {current_curl_handle', current_curl_connected'} \subseteq BOOLEAN
        /\ (current_curl_connected' => current_curl_connected)
    <3>1. current_curl_handle \in BOOLEAN /\ current_curl_connected \in BOOLEAN
      BY <1>1
    <3>2. current_curl_handle' \in BOOLEAN /\ current_curl_connected' \in BOOLEAN
      BY <2>2, <3>1
    <3>. QED  BY <2>2, <3>2
  <2>. QED  BY <1>1, <1>10, <2>1, <2>3, NothingMoves DEF threadReturns, recvVars, wireVars, bounds
<1>. QED  BY <1>3, <1>4, <1>5, <1>6, <1>7, <1>8, <1>9, <1>10

LEMMA WebSocketNextInv == WebSocketInv /\ [WebSocketNext]_webSocketVars => WebSocketInv'
<1> SUFFICES ASSUME WebSocketInv, [WebSocketNext]_webSocketVars
             PROVE  WebSocketInv'
  OBVIOUS
<1>1. CASE tryConnect \/ initReturns
  BY <1>1, tryConnectInv, initReturnsInv
<1>2. CASE recvPiece
  BY <1>2, recvPieceInv
<1>3. CASE sendNext \/ sendPiece
  BY <1>3, sendNextInv, sendPieceInv
<1>4. CASE serverSends
  BY <1>4, serverSendsInv
<1>5. CASE \/ startInit \/ startRecv \/ recvAgain \/ recvCloses
           \/ sendFails \/ sendReturns \/ closeClient \/ threadReturns
  BY <1>5, ThreadMovesInv
<1>6. CASE UNCHANGED webSocketVars
  <2>1. HandleKnown'
    BY <1>6 DEF webSocketVars, handleVars, threadVars, sendVars, WebSocketInv, HandleKnown
  <2>. QED  BY <1>6, <2>1, NothingMoves
            DEF webSocketVars, handleVars, recvVars, wireVars, threadVars, bounds, WebSocketInv, WebSocketTypeOK
<1>. QED  BY <1>1, <1>2, <1>3, <1>4, <1>5, <1>6 DEF WebSocketNext

\* What has been handed over and what curl still has are the messages of the server, and what
\* has arrived and what is left of a message are the bytes the client has taken to send
\* (WebSocket::init, recv and send in client_ws.cc, with the wsThreadMain that calls them).
THEOREM WebSocketConsistent == WebSocketSpec => []WebSocketInv
<1>1. WebSocketInit => WebSocketInv
  BY WebSocketInitInv
<1>2. WebSocketInv /\ [WebSocketNext]_webSocketVars => WebSocketInv'
  BY WebSocketNextInv
<1>. QED  BY <1>1, <1>2, PTL DEF WebSocketSpec

LEMMA WebSocketInvTransports == WebSocketInv => Transported
<1> SUFFICES ASSUME WebSocketInv PROVE Transported
  OBVIOUS
<1>1. MessagesWhole
  <2> DEFINE t == [i \in DOMAIN server_sent |-> Body(server_sent[i])]
             n == Len(handed_over)
  <2>1. server_sent \in Seq(WsMessage) /\ handed_over \in Seq(Seq(Byte)) /\ n \in Nat /\ n <= Len(server_sent)
    BY DEF WebSocketInv, WebSocketTypeOK, RestInFrames
  <2>2. t \in Seq(Seq(Byte)) /\ Len(t) = Len(server_sent)
    <3>1. \A i \in 1 .. Len(server_sent) : Body(server_sent[i]) \in Seq(Byte)
      BY <2>1, BodyType
    <3>2. DOMAIN server_sent = 1 .. Len(server_sent) /\ Len(server_sent) \in Nat
      BY <2>1
    <3>. QED  BY <3>1, <3>2, IsASeq
  <2>3. \A i \in 1 .. n : t[i] = handed_over[i]
    <3>1. \A i \in 1 .. n : i \in DOMAIN handed_over /\ i \in DOMAIN server_sent
      BY <2>1
    <3>2. \A i \in DOMAIN handed_over : handed_over[i] = Body(server_sent[i])
      BY DEF WebSocketInv, RestInFrames
    <3>. QED  BY <3>1, <3>2
  <2> HIDE DEF t, n
  <2>4. SubSeq(t, 1, n) \in Seq(Seq(Byte)) /\ Len(SubSeq(t, 1, n)) = n
        /\ \A i \in 1 .. n : SubSeq(t, 1, n)[i] = t[i]
    <3>1. n <= Len(t)
      BY <2>1, <2>2
    <3>2. \A i \in 1 .. n : t[i] \in Seq(Byte)
      BY <2>1, <2>2, <3>1
    <3>3. /\ SubSeq(t, 1, n) \in Seq(Seq(Byte)) /\ Len(SubSeq(t, 1, n)) = (IF 1 <= n THEN n - 1 + 1 ELSE 0)
          /\ \A i \in 1 .. n - 1 + 1 : SubSeq(t, 1, n)[i] = t[1 + i - 1]
      BY <2>1, <3>2, SubSeqProperties
    <3>4. \A i \in 1 .. n : i \in 1 .. n - 1 + 1 /\ 1 + i - 1 = i
      BY <2>1
    <3>. QED  BY <2>1, <3>3, <3>4
  <2>5. SubSeq(t, 1, n) = handed_over
    BY <2>1, <2>3, <2>4, SeqEqual DEF n
  <2>6. SubSeq(handed_over, 1, n) = handed_over
    BY <2>1, SubSeqFull DEF n
  <2>7. n <= Len(t)
    BY <2>1, <2>2
  <2>. QED  BY <2>5, <2>6, <2>7 DEF IsPrefix, MessagesWhole, t, n
<1>2. SentInOrder
  <2>1. /\ arrived \in Seq(Byte) /\ sending.length \in Nat /\ sent_total \in Nat
        /\ Body(sending) \in Seq(Byte) /\ Len(Body(sending)) = sending.length
    BY BodyType DEF WebSocketInv, WebSocketTypeOK, WsMessage
  <2> DEFINE rest == SubSeq(Body(sending), sent_total + 1, sending.length)
  <2>2. arrived \o rest = client_sent
    BY DEF WebSocketInv, RestIsSent
  <2>3. ~Sending => rest = <<>>
    BY <2>1, SubSeqEmpty DEF Sending
  <2>4. rest \in Seq(Byte)
    <3>1. Sending => rest \in Seq(Byte)
      <4>. DEFINE s == Body(sending)
                  i == sent_total
                  k == sending.length
      <4>1. Sending => i <= k /\ k <= k /\ k <= Len(s)
        BY <2>1 DEF Sending
      <4>2. s \in Seq(Byte) /\ i \in Nat /\ k \in Nat
        BY <2>1
      <4>. HIDE DEF s, i, k
      <4>3. ASSUME Sending PROVE SubSeq(s, i + 1, k) \in Seq(Byte)
        <5>1. i <= k /\ k <= k /\ k <= Len(s)
          BY <4>1, <4>3
        <5>. QED  BY <4>2, <5>1, Joined
      <4>. QED  BY <4>3 DEF s, i, k
    <3>. HIDE DEF rest
    <3>2. <<>> \in Seq(Byte)
      OBVIOUS
    <3>. QED  BY <2>3, <3>1, <3>2
  <2> HIDE DEF rest
  <2>5. IsPrefix(arrived, client_sent)
    BY <2>1, <2>2, <2>4, BeginningIsPrefix
  <2>6. ~Sending => arrived = client_sent
    BY <2>1, <2>2, <2>3, ConcatEmptySeq
  <2>. QED  BY <2>5, <2>6 DEF SentInOrder
<1>. QED  BY <1>1, <1>2 DEF Transported

\* The connection transports messages whole and in order, both ways, whatever pieces curl gives
\* and takes and wherever a connection ends (WebSocket::recv and send in client_ws.cc).
THEOREM MessagesTransported == WebSocketSpec => []Transported
<1>1. WebSocketInv => Transported
  BY WebSocketInvTransports
<1>. QED  BY <1>1, WebSocketConsistent, PTL

----------------------------------------------------------------------------
(* Log lines: logs that are put together and cut. *)

LEMMA JoinedLines == \A s, t, u \in Seq(Nat) : (s \o t) \o u = s \o (t \o u)
<1> SUFFICES ASSUME NEW s \in Seq(Nat), NEW t \in Seq(Nat), NEW u \in Seq(Nat)
             PROVE  (s \o t) \o u = s \o (t \o u)
  OBVIOUS
<1>. QED  BY ConcatAssociative, SMTT(30)

LEMMA JoinedLen ==
    \A s, t \in Seq(Nat) : Len(s \o t) = Len(s) + Len(t) /\ Len(s) \in Nat /\ Len(t) \in Nat
BY ConcatProperties, LenProperties

LEMMA AlikeSame ==
    ASSUME NEW S, NEW s \in Seq(S) PROVE Alike(s, s)
BY DEF Alike

LEMMA AlikeTurned ==
    ASSUME NEW S, NEW s \in Seq(S), NEW t \in Seq(S), Alike(s, t)
    PROVE  Alike(t, s)
BY DEF Alike

LEMMA AlikeGrows ==
    ASSUME NEW S, NEW s \in Seq(S), NEW t \in Seq(S), NEW x \in Seq(S), Alike(s, t)
    PROVE  Alike(s \o x, t \o x)
<1> DEFINE a == s \o x
           b == t \o x
<1>1. /\ Len(s) \in Nat /\ Len(t) \in Nat /\ Len(x) \in Nat
      /\ Len(a) = Len(s) + Len(x) /\ Len(b) = Len(t) + Len(x)
      /\ \A i \in 1 .. Len(a) : a[i] = IF i <= Len(s) THEN s[i] ELSE x[i - Len(s)]
      /\ \A i \in 1 .. Len(b) : b[i] = IF i <= Len(t) THEN t[i] ELSE x[i - Len(t)]
  BY ConcatProperties
<1> HIDE DEF a, b
<1>2. ASSUME NEW i \in 0 .. Len(a) - 1, i < Len(b) PROVE a[Len(a) - i] = b[Len(b) - i]
  <2>1. /\ i \in Int /\ Len(a) - i \in 1 .. Len(a) /\ Len(b) - i \in 1 .. Len(b)
    BY <1>1, <1>2
  <2>2. CASE i < Len(x)
    <3>1. ~(Len(a) - i <= Len(s)) /\ ~(Len(b) - i <= Len(t))
          /\ Len(a) - i - Len(s) = Len(x) - i /\ Len(b) - i - Len(t) = Len(x) - i
      BY <1>1, <2>1, <2>2
    <3>. QED  BY <1>1, <2>1, <3>1
  <2>3. CASE ~(i < Len(x))
    <3> DEFINE j == i - Len(x)
    <3>1. j \in Int
      BY <1>1, <2>1
    <3>2. /\ j \in 0 .. Len(s) - 1 /\ j < Len(t)
          /\ Len(a) - i = Len(s) - j /\ Len(b) - i = Len(t) - j
          /\ Len(a) - i <= Len(s) /\ Len(b) - i <= Len(t)
      BY <1>1, <1>2, <2>1, <2>3, <3>1
    <3>3. s[Len(s) - j] = t[Len(t) - j]
      BY <3>2 DEF Alike
    <3>. QED  BY <1>1, <2>1, <3>2, <3>3
  <2>. QED  BY <2>2, <2>3
<1>3. Alike(a, b)
  BY <1>2 DEF Alike
<1>. QED  BY <1>3 DEF a, b

LEMMA AlikeEnds ==
    ASSUME NEW S, NEW d \in Seq(S), NEW s \in Seq(S), NEW t \in Seq(S), Alike(d \o s, t)
    PROVE  Alike(s, t)
<1> DEFINE a == d \o s
<1>1. /\ Len(s) \in Nat /\ Len(d) \in Nat /\ Len(t) \in Nat /\ Len(a) = Len(d) + Len(s)
      /\ \A i \in 1 .. Len(a) : a[i] = IF i <= Len(d) THEN d[i] ELSE s[i - Len(d)]
      /\ Alike(a, t)
  BY ConcatProperties
<1> HIDE DEF a
<1>2. ASSUME NEW i \in 0 .. Len(s) - 1, i < Len(t) PROVE s[Len(s) - i] = t[Len(t) - i]
  <2>1. i \in 0 .. Len(a) - 1 /\ Len(a) - i \in 1 .. Len(a)
        /\ ~(Len(a) - i <= Len(d)) /\ Len(a) - i - Len(d) = Len(s) - i
    BY <1>1
  <2>2. a[Len(a) - i] = t[Len(t) - i]
    BY <1>1, <1>2, <2>1 DEF Alike
  <2>. QED  BY <1>1, <2>1, <2>2
<1>. QED  BY <1>2 DEF Alike

\* What is kept of some lines is their end.
LEMMA TrimmedEnds ==
    ASSUME NEW S, NEW s \in Seq(S), NEW k \in Int
    PROVE  /\ Trimmed(s, k) \in Seq(S) /\ Len(Trimmed(s, k)) = KeptOf(Len(s), k)
           /\ \E d \in Seq(S) : s = d \o Trimmed(s, k)
<1>1. CASE k >= 0 /\ Len(s) > k
  <2> DEFINE n == Len(s)
             d == SubSeq(s, 1, n - k)
             e == SubSeq(s, n - k + 1, n)
  <2>1. n \in Nat /\ n - k \in 1 .. n /\ n - k + 1 \in 1 .. n + 1 /\ n - k \in 0 .. n
        /\ \A i \in 1 .. n : s[i] \in S
    BY <1>1
  <2>2. d \in Seq(S)
    <3>1. \A i \in 1 .. n - k : s[i] \in S
      BY <2>1
    <3>. QED  BY <2>1, <3>1, SubSeqProperties
  <2>3. e \in Seq(S) /\ Len(e) = k
    <3>1. \A i \in n - k + 1 .. n : s[i] \in S
      BY <1>1, <2>1
    <3>2. e \in Seq(S) /\ Len(e) = IF n - k + 1 <= n THEN n - (n - k + 1) + 1 ELSE 0
      BY <2>1, <3>1, SubSeqProperties
    <3>. QED  BY <1>1, <2>1, <3>2
  <2>4. d \o e = s
    <3>1. SubSeq(s, 1, n - k) \o SubSeq(s, n - k + 1, n) = SubSeq(s, 1, n)
      <4>1. 1 \in 1 .. Len(s) + 1 /\ n - k \in 1 - 1 .. Len(s) /\ n \in n - k .. Len(s)
        BY <1>1, <2>1
      <4>. QED  BY <4>1, ConcatAdjacentSubSeq
    <3>. QED  BY <3>1, SubSeqFull
  <2>5. Trimmed(s, k) = e
    BY <1>1 DEF Trimmed, Last_
  <2>6. KeptOf(Len(s), k) = k
    BY <1>1 DEF KeptOf
  <2> HIDE DEF d, e
  <2>. QED  BY <2>2, <2>3, <2>4, <2>5, <2>6
<1>2. CASE ~(k >= 0 /\ Len(s) > k)
  <2>1. Trimmed(s, k) = s /\ KeptOf(Len(s), k) = Len(s)
    BY <1>2 DEF Trimmed, KeptOf
  <2>2. <<>> \in Seq(S) /\ <<>> \o s = s
    BY ConcatEmptySeq
  <2>. QED  BY <2>1, <2>2
<1>. QED  BY <1>1, <1>2

\* Lines in order stay so when some in the middle are left out, or new ones come.
LEMMA OrderlyMiddle ==
    ASSUME NEW a \in Seq(Nat), NEW d \in Seq(Nat), NEW b \in Seq(Nat), NEW n \in Nat,
           Orderly(a \o (d \o b), n)
    PROVE  Orderly(a \o b, n)
<1> DEFINE p == a \o (d \o b)
           q == a \o b
<1>1. Len(a) \in Nat /\ Len(d) \in Nat /\ Len(b) \in Nat /\ d \o b \in Seq(Nat)
      /\ Len(d \o b) = Len(d) + Len(b)
      /\ \A i \in 1 .. Len(d) + Len(b) : (d \o b)[i] = IF i <= Len(d) THEN d[i] ELSE b[i - Len(d)]
  BY ConcatProperties
<1>2. /\ p \in Seq(Nat) /\ Len(p) = Len(a) + (Len(d) + Len(b))
      /\ \A i \in 1 .. Len(p) : p[i] = IF i <= Len(a) THEN a[i] ELSE (d \o b)[i - Len(a)]
  BY <1>1, ConcatProperties
<1>3. /\ q \in Seq(Nat) /\ Len(q) = Len(a) + Len(b)
      /\ \A i \in 1 .. Len(q) : q[i] = IF i <= Len(a) THEN a[i] ELSE b[i - Len(a)]
  BY ConcatProperties
<1>4. p \in Seq(1 .. n) /\ \A i, j \in DOMAIN p : i < j => p[i] < p[j]
  BY DEF Orderly
<1> HIDE DEF p, q
<1>5. ASSUME NEW i \in 1 .. Len(q), i <= Len(a) PROVE i \in 1 .. Len(p) /\ q[i] = p[i]
  <2>1. i \in 1 .. Len(p)
    BY <1>1, <1>2, <1>3, <1>5
  <2>. QED  BY <1>2, <1>3, <1>5, <2>1
<1>6. ASSUME NEW i \in 1 .. Len(q), ~(i <= Len(a))
      PROVE  i + Len(d) \in 1 .. Len(p) /\ q[i] = p[i + Len(d)]
  <2>1. i + Len(d) \in 1 .. Len(p) /\ ~(i + Len(d) <= Len(a))
    <3>1. Len(q) = Len(a) + Len(b) /\ Len(p) = Len(a) + (Len(d) + Len(b))
      BY <1>2, <1>3
    <3>2. i \in 1 .. Len(a) + Len(b)
      BY <3>1
    <3>3. Len(a) \in Nat /\ Len(b) \in Nat /\ Len(d) \in Nat
      BY <1>1
    <3>4. i + Len(d) \in 1 .. Len(a) + (Len(d) + Len(b)) /\ ~(i + Len(d) <= Len(a))
      BY <1>6, <3>2, <3>3
    <3>. QED  BY <3>1, <3>4
  <2>2. p[i + Len(d)] = (d \o b)[(i + Len(d)) - Len(a)]
    BY <1>2, <2>1
  <2>3. /\ (i + Len(d)) - Len(a) \in 1 .. Len(d) + Len(b) /\ ~((i + Len(d)) - Len(a) <= Len(d))
        /\ ((i + Len(d)) - Len(a)) - Len(d) = i - Len(a)
    BY <1>1, <1>3, <1>6
  <2>4. (d \o b)[(i + Len(d)) - Len(a)] = b[i - Len(a)]
    BY <1>1, <2>3
  <2>5. q[i] = b[i - Len(a)]
    BY <1>3, <1>6
  <2>. QED  BY <2>1, <2>2, <2>4, <2>5
<1>7. \A i \in 1 .. Len(q) : q[i] \in 1 .. n
  <2> SUFFICES ASSUME NEW i \in 1 .. Len(q) PROVE q[i] \in 1 .. n
    OBVIOUS
  <2>. QED  BY <1>4, <1>5, <1>6, ElementOfSeq
<1>8. q \in Seq(1 .. n)
  <2>1. SubSeq(q, 1, Len(q)) \in Seq(1 .. n)
    BY <1>3, <1>7, SubSeqProperties
  <2>. QED  BY <1>3, <2>1, SubSeqFull
<1>9. ASSUME NEW i \in DOMAIN q, NEW j \in DOMAIN q, i < j PROVE q[i] < q[j]
  <2>1. i \in 1 .. Len(q) /\ j \in 1 .. Len(q) /\ DOMAIN p = 1 .. Len(p)
    BY <1>2, <1>3
  <2>2. CASE i <= Len(a) /\ j <= Len(a)
    BY <1>4, <1>5, <1>9, <2>1, <2>2
  <2>3. CASE i <= Len(a) /\ ~(j <= Len(a))
    <3>1. i < j + Len(d)
      BY <1>1, <1>9, <2>1
    <3>. QED  BY <1>4, <1>5, <1>6, <2>1, <2>3, <3>1
  <2>4. CASE ~(i <= Len(a))
    <3>1. ~(j <= Len(a)) /\ i + Len(d) < j + Len(d)
      BY <1>1, <1>9, <2>1, <2>4
    <3>. QED  BY <1>4, <1>6, <2>1, <2>4, <3>1
  <2>. QED  BY <2>2, <2>3, <2>4
<1>10. Orderly(q, n)
  BY <1>8, <1>9 DEF Orderly
<1>. QED  BY <1>10 DEF q

LEMMA OrderlyEnds ==
    ASSUME NEW d \in Seq(Nat), NEW s \in Seq(Nat), NEW n \in Nat, Orderly(d \o s, n)
    PROVE  Orderly(s, n)
<1>1. <<>> \in Seq(Nat) /\ <<>> \o (d \o s) = d \o s /\ <<>> \o s = s
  BY ConcatProperties, ConcatEmptySeq
<1>. QED  BY <1>1, OrderlyMiddle

LEMMA OrderlyEmpty ==
    ASSUME NEW n \in Nat PROVE Orderly(<<>>, n)
BY DEF Orderly

LEMMA OrderlyAppend ==
    ASSUME NEW n \in Nat, NEW s \in Seq(Nat), Orderly(s, n)
    PROVE  Orderly(s \o <<n + 1>>, n + 1)
<1> DEFINE a == Append(s, n + 1)
<1>1. s \in Seq(1 .. n) /\ Len(s) \in Nat /\ DOMAIN s = 1 .. Len(s)
      /\ (\A i, j \in DOMAIN s : i < j => s[i] < s[j]) /\ \A i \in DOMAIN s : s[i] \in 1 .. n
  BY DEF Orderly
<1>2. s \in Seq(1 .. n + 1) /\ n + 1 \in 1 .. n + 1
  <2>1. 1 .. n \subseteq 1 .. n + 1
    OBVIOUS
  <2>. QED  BY <1>1, <2>1, SeqMonotonic
<1>3. a \in Seq(1 .. n + 1) /\ Len(a) = Len(s) + 1 /\ a[Len(s) + 1] = n + 1
      /\ \A i \in 1 .. Len(s) : a[i] = s[i]
  BY <1>2, AppendProperties
<1>4. a = s \o <<n + 1>>
  BY AppendIsConcat
<1> HIDE DEF a
<1>5. ASSUME NEW i \in DOMAIN a, NEW j \in DOMAIN a, i < j PROVE a[i] < a[j]
  <2>1. i \in 1 .. Len(s) /\ j \in 1 .. Len(s) + 1 /\ a[i] = s[i] /\ s[i] \in 1 .. n
    BY <1>1, <1>3, <1>5
  <2>2. CASE j = Len(s) + 1
    BY <1>3, <2>1, <2>2
  <2>3. CASE j # Len(s) + 1
    <3>1. j \in 1 .. Len(s) /\ i \in DOMAIN s /\ j \in DOMAIN s
      BY <1>1, <2>1, <2>3
    <3>2. s[i] < s[j] /\ a[i] = s[i] /\ a[j] = s[j]
      BY <1>1, <1>3, <1>5, <2>1, <3>1
    <3>. QED  BY <3>2
  <2>. QED  BY <2>2, <2>3
<1>6. Orderly(a, n + 1)
  BY <1>3, <1>5 DEF Orderly
<1>. QED  BY <1>4, <1>6
LEMMA OrderlySeq ==
    ASSUME NEW n \in Nat, NEW s, Orderly(s, n) PROVE s \in Seq(Nat)
<1>1. s \in Seq(1 .. n) /\ 1 .. n \subseteq Nat
  BY DEF Orderly
<1>. QED  BY <1>1, SeqMonotonic

\* The same when lines that come after them are there.
LEMMA OrderlyBeginning ==
    ASSUME NEW s \in Seq(Nat), NEW d \in Seq(Nat), NEW n \in Nat, Orderly(s \o d, n)
    PROVE  Orderly(s, n)
<1>1. <<>> \in Seq(Nat) /\ d \o <<>> = d /\ s \o <<>> = s
  BY ConcatEmptySeq
<1>2. Orderly(s \o (d \o <<>>), n)
  BY <1>1
<1>. QED  BY <1>1, <1>2, OrderlyMiddle

LEMMA OrderlyLater ==
    ASSUME NEW s, NEW n \in Nat, NEW m \in Nat, n <= m, Orderly(s, n) PROVE Orderly(s, m)
<1>1. 1 .. n \subseteq 1 .. m
  OBVIOUS
<1>2. s \in Seq(1 .. m)
  BY <1>1, SeqMonotonic DEF Orderly
<1>. QED  BY <1>2 DEF Orderly

LEMMA KeptOfBound ==
    ASSUME NEW a \in Nat, NEW b \in Nat, NEW k \in Int, NEW c \in Nat, a <= b + c
    PROVE  KeptOf(b, k) \in Nat /\ KeptOf(b, k) <= b /\ KeptOf(a, k) <= KeptOf(b, k) + c
           /\ KeptOf(0, k) = 0 /\ (b <= a => KeptOf(b, k) <= KeptOf(a, k))
           /\ KeptOf(KeptOf(b, k), k) = KeptOf(b, k)
BY DEF KeptOf

(* Log lines: those of several messages. *)

LEMMA EachOfType ==
    ASSUME NEW q \in Seq(LinesSent)
    PROVE  /\ EachOf(q) \in Seq(Seq(Nat)) /\ Len(EachOf(q)) = Len(q) /\ DOMAIN EachOf(q) = DOMAIN q
           /\ InOrder(q) \in Seq(Nat)
<1>1. \A l \in LinesSent : LinesOf(l) \in Seq(Nat)
  BY EmptySeq DEF LinesSent, LinesOf
<1>2. DOMAIN q = 1 .. Len(q) /\ Len(q) \in Nat /\ \A i \in 1 .. Len(q) : q[i] \in LinesSent
  BY LenProperties, ElementOfSeq
<1>5. EachOf(q) = [i \in 1 .. Len(q) |-> LinesOf(q[i])] /\ \A i \in 1 .. Len(q) : LinesOf(q[i]) \in Seq(Nat)
  BY <1>1, <1>2 DEF EachOf
<1>3. EachOf(q) \in Seq(Seq(Nat)) /\ Len(EachOf(q)) = Len(q) /\ DOMAIN EachOf(q) = DOMAIN q
  BY <1>2, <1>5
<1>4. InOrder(q) \in Seq(Nat)
  BY <1>3, FlattenType DEF InOrder
<1>. QED  BY <1>3, <1>4

LEMMA InOrderEmpty == InOrder(<<>>) = <<>>
<1>1. EachOf(<<>>) = <<>>
  BY DEF EachOf
<1>. QED  BY <1>1 DEF InOrder, FlattenSeq

LEMMA InOrderAppend ==
    ASSUME NEW q \in Seq(LinesSent), NEW l \in LinesSent
    PROVE  InOrder(Append(q, l)) = InOrder(q) \o LinesOf(l)
<1>1. Append(q, l) \in Seq(LinesSent) /\ LinesOf(l) \in Seq(Nat)
  BY EmptySeq DEF LinesSent, LinesOf
<1>2. EachOf(Append(q, l)) = Append(EachOf(q), LinesOf(l))
  <2> DEFINE a == EachOf(Append(q, l))
             b == Append(EachOf(q), LinesOf(l))
  <2>1. a \in Seq(Seq(Nat)) /\ b \in Seq(Seq(Nat)) /\ Len(a) = Len(q) + 1 /\ Len(b) = Len(q) + 1
    <3>1. Len(Append(q, l)) = Len(q) + 1
      BY AppendProperties
    <3>2. a \in Seq(Seq(Nat)) /\ Len(a) = Len(q) + 1
      BY <1>1, <3>1, EachOfType
    <3>3. EachOf(q) \in Seq(Seq(Nat)) /\ Len(EachOf(q)) = Len(q)
      BY EachOfType
    <3>4. b \in Seq(Seq(Nat)) /\ Len(b) = Len(EachOf(q)) + 1
      BY <1>1, <3>3, AppendProperties
    <3>. QED  BY <3>2, <3>3, <3>4
  <2>2. ASSUME NEW i \in 1 .. Len(a) PROVE a[i] = b[i]
    <3>1. i \in DOMAIN Append(q, l) /\ a[i] = LinesOf(Append(q, l)[i])
      BY <1>1, <2>1, LenProperties DEF EachOf
    <3>2. CASE i = Len(q) + 1
      <4>1. Append(q, l)[i] = l
        BY <3>2, AppendProperties
      <4>2. b[i] = LinesOf(l)
        BY <1>1, <3>2, EachOfType, AppendProperties
      <4>. QED  BY <3>1, <4>1, <4>2
    <3>3. CASE i # Len(q) + 1
      <4>1. i \in 1 .. Len(q) /\ i \in DOMAIN q
        BY <2>1, <3>3
      <4>2. Append(q, l)[i] = q[i]
        BY <4>1, AppendProperties
      <4>3. b[i] = EachOf(q)[i]
        BY <1>1, <4>1, EachOfType, AppendProperties
      <4>4. EachOf(q)[i] = LinesOf(q[i])
        BY <4>1 DEF EachOf
      <4>. QED  BY <3>1, <4>2, <4>3, <4>4
    <3>. QED  BY <3>2, <3>3
  <2>. QED  BY <2>1, <2>2, SeqEqual
<1>. QED  BY <1>1, <1>2, EachOfType, FlattenAppend DEF InOrder

LEMMA InOrderHead ==
    ASSUME NEW q \in Seq(LinesSent), q # <<>>
    PROVE  InOrder(q) = LinesOf(Head(q)) \o InOrder(Tail(q))
<1>1. Tail(q) \in Seq(LinesSent) /\ Head(q) = q[1] /\ 1 \in DOMAIN q
  OBVIOUS
<1>2. EachOf(q) # <<>> /\ Head(EachOf(q)) = LinesOf(Head(q))
  <2>1. EachOf(q)[1] = LinesOf(q[1])
    BY <1>1 DEF EachOf
  <2>2. EachOf(q) \in Seq(Seq(Nat)) /\ 1 \in DOMAIN EachOf(q)
    BY <1>1, EachOfType
  <2>. QED  BY <1>1, <2>1, <2>2
<1>3. Tail(EachOf(q)) = EachOf(Tail(q))
  <2> DEFINE a == Tail(EachOf(q))
             b == EachOf(Tail(q))
  <2>1. a \in Seq(Seq(Nat)) /\ b \in Seq(Seq(Nat)) /\ Len(a) = Len(q) - 1 /\ Len(b) = Len(q) - 1
        /\ Len(Tail(q)) = Len(q) - 1
    BY <1>1, <1>2, EachOfType, HeadTailProperties
  <2>2. ASSUME NEW i \in 1 .. Len(a) PROVE a[i] = b[i]
    <3>1. i \in DOMAIN Tail(q) /\ i + 1 \in DOMAIN q /\ Tail(q)[i] = q[i + 1]
      BY <1>1, <2>1
    <3>2. a[i] = EachOf(q)[i + 1]
      BY <1>2, EachOfType, HeadTailProperties
    <3>3. EachOf(q)[i + 1] = LinesOf(q[i + 1]) /\ b[i] = LinesOf(Tail(q)[i])
      BY <3>1 DEF EachOf
    <3>. QED  BY <3>1, <3>2, <3>3
  <2>. QED  BY <2>1, <2>2, SeqEqual
<1>. QED  BY <1>2, <1>3, EachOfType, FlattenHead DEF InOrder

(* Log lines: what a reader is going to have of the messages that wait. *)

LEMMA ToReaderType ==
    ASSUME NEW m \in ToReader_
    PROVE  /\ m.kind \in {"init", "res"} /\ m.lines \in LinesSent /\ LinesOf(m.lines) \in Seq(Nat)
           /\ m.kind # "init" => m.lines \in Seq(Nat) /\ LinesOf(m.lines) = m.lines
           /\ m.kind = "init" => LinesOf(m.lines) = <<>>
BY LogsAssumption, EmptySeq DEF ToReader_, LinesSent, LinesOf

LEMMA EachViewType ==
    ASSUME NEW r \in Seq(ToReader_)
    PROVE  /\ EachView(r) \in Seq(Seq(Nat)) /\ Len(EachView(r)) = Len(r)
           /\ DOMAIN EachView(r) = 1 .. Len(r)
<1>1. DOMAIN r = 1 .. Len(r) /\ Len(r) \in Nat /\ \A i \in 1 .. Len(r) : r[i] \in ToReader_
  BY LenProperties, ElementOfSeq
<1>2. \A i \in 1 .. Len(r) : (IF Emptied(r, i) THEN <<>> ELSE LinesOf(r[i].lines)) \in Seq(Nat)
  BY <1>1, ToReaderType, EmptySeq
<1>3. EachView(r) = [i \in 1 .. Len(r) |-> IF Emptied(r, i) THEN <<>> ELSE LinesOf(r[i].lines)]
  BY <1>1 DEF EachView
<1>. QED  BY <1>1, <1>2, <1>3

LEMMA ViewAfterType ==
    ASSUME NEW v \in LinesSent, NEW r \in Seq(ToReader_)
    PROVE  ViewAfter(v, r) \in Seq(Nat)
<1>1. (IF Emptied(r, 1) THEN <<>> ELSE LinesOf(v)) \in Seq(Nat)
  BY EmptySeq DEF LinesSent, LinesOf
<1>2. FlattenSeq(EachView(r)) \in Seq(Nat)
  BY EachViewType, FlattenType
<1>. QED  BY <1>1, <1>2, ConcatProperties DEF ViewAfter

LEMMA ViewAfterNone ==
    ASSUME NEW v \in LinesSent PROVE ViewAfter(v, <<>>) = LinesOf(v)
<1>1. ~Emptied(<<>>, 1)
  BY DEF Emptied
<1>2. EachView(<<>>) = <<>>
  BY DEF EachView
<1>3. FlattenSeq(<<>>) = <<>>
  BY DEF FlattenSeq
<1>4. LinesOf(v) \in Seq(Nat)
  BY EmptySeq DEF LinesSent, LinesOf
<1>. QED  BY <1>1, <1>2, <1>3, <1>4, ConcatEmptySeq DEF ViewAfter

LEMMA ViewAfterRes ==
    ASSUME NEW v \in LinesSent, NEW r \in Seq(ToReader_), NEW l \in Seq(Nat)
    PROVE  Res(l) \in ToReader_ /\ ViewAfter(v, Append(r, Res(l))) = ViewAfter(v, r) \o l
<1> DEFINE q == Append(r, Res(l))
<1>1. Res(l) \in ToReader_ /\ Res(l).kind = "res" /\ Res(l).lines = l /\ LinesOf(l) = l
  BY LogsAssumption DEF Res, ToReader_, LinesOf
<1>2. /\ q \in Seq(ToReader_) /\ Len(q) = Len(r) + 1 /\ Len(r) \in Nat /\ q[Len(r) + 1] = Res(l)
      /\ DOMAIN q = 1 .. Len(r) + 1 /\ DOMAIN r = 1 .. Len(r)
      /\ \A i \in 1 .. Len(r) : q[i] = r[i]
  BY <1>1, AppendProperties, LenProperties
<1> HIDE DEF q
<1>3. \A i \in Int : Emptied(q, i) <=> Emptied(r, i)
  <2> SUFFICES ASSUME NEW i \in Int PROVE Emptied(q, i) <=> Emptied(r, i)
    OBVIOUS
  <2>1. \A j \in DOMAIN q : q[j].kind = "init" => j \in DOMAIN r /\ q[j] = r[j]
    BY <1>1, <1>2
  <2>2. \A j \in DOMAIN r : j \in DOMAIN q /\ q[j] = r[j]
    BY <1>2
  <2>. QED  BY <2>1, <2>2 DEF Emptied
<1>4. ~Emptied(q, Len(r) + 1)
  <2>1. ~Emptied(r, Len(r) + 1)
    BY <1>2 DEF Emptied
  <2>. QED  BY <1>2, <1>3, <2>1
<1>5. EachView(q) = Append(EachView(r), l)
  <2> DEFINE a == EachView(q)
             b == Append(EachView(r), l)
  <2>1. a \in Seq(Seq(Nat)) /\ Len(a) = Len(r) + 1 /\ DOMAIN a = 1 .. Len(r) + 1
    BY <1>2, EachViewType
  <2>2. EachView(r) \in Seq(Seq(Nat)) /\ Len(EachView(r)) = Len(r)
    BY EachViewType
  <2>3. b \in Seq(Seq(Nat)) /\ Len(b) = Len(r) + 1 /\ b[Len(r) + 1] = l
        /\ \A i \in 1 .. Len(r) : b[i] = EachView(r)[i]
    BY <2>2, AppendProperties
  <2>4. ASSUME NEW i \in 1 .. Len(a) PROVE a[i] = b[i]
    <3>1. i \in DOMAIN q /\ a[i] = IF Emptied(q, i) THEN <<>> ELSE LinesOf(q[i].lines)
      BY <1>2, <2>1 DEF EachView
    <3>2. CASE i = Len(r) + 1
      BY <1>1, <1>2, <1>4, <2>3, <3>1, <3>2
    <3>3. CASE i # Len(r) + 1
      <4>1. i \in 1 .. Len(r) /\ i \in DOMAIN r /\ i \in Int
        BY <1>2, <2>1, <3>3
      <4>2. EachView(r)[i] = IF Emptied(r, i) THEN <<>> ELSE LinesOf(r[i].lines)
        BY <4>1 DEF EachView
      <4>. QED  BY <1>2, <1>3, <2>3, <3>1, <4>1, <4>2
    <3>. QED  BY <3>2, <3>3
  <2>. QED  BY <2>1, <2>3, <2>4, SeqEqual
<1> DEFINE w == IF Emptied(r, 1) THEN <<>> ELSE LinesOf(v)
           f == FlattenSeq(EachView(r))
<1>6. w \in Seq(Nat) /\ f \in Seq(Nat)
  BY EmptySeq, EachViewType, FlattenType DEF LinesSent, LinesOf
<1>7. FlattenSeq(EachView(q)) = f \o l
  BY <1>5, EachViewType, FlattenAppend
<1>8. ViewAfter(v, q) = w \o (f \o l)
  <2>1. Emptied(q, 1) <=> Emptied(r, 1)
    BY <1>3
  <2>2. ViewAfter(v, q) = (IF Emptied(q, 1) THEN <<>> ELSE LinesOf(v)) \o FlattenSeq(EachView(q))
    BY DEF ViewAfter
  <2>. QED  BY <1>7, <2>1, <2>2
<1>9. ViewAfter(v, r) = w \o f
  BY DEF ViewAfter
<1> HIDE DEF w, f
<1>10. (w \o f) \o l = w \o (f \o l)
  <2>1. w \in Seq(Nat) /\ f \in Seq(Nat) /\ l \in Seq(Nat)
    BY <1>6
  <2>. QED  BY <2>1, JoinedLines, ZenonT(60)
<1>. QED  BY <1>1, <1>8, <1>9, <1>10 DEF q

LEMMA ViewAfterInit ==
    ASSUME NEW v \in LinesSent, NEW r \in Seq(ToReader_)
    PROVE  Init_ \in ToReader_ /\ ViewAfter(v, Append(r, Init_)) = <<>>
<1> DEFINE q == Append(r, Init_)
<1>1. Init_ \in ToReader_ /\ Init_.kind = "init"
  BY DEF Init_, ToReader_
<1>2. /\ q \in Seq(ToReader_) /\ Len(q) = Len(r) + 1 /\ Len(r) \in Nat /\ q[Len(r) + 1] = Init_
      /\ DOMAIN q = 1 .. Len(r) + 1
  BY <1>1, AppendProperties, LenProperties
<1> HIDE DEF q
<1>3. \A i \in 1 .. Len(r) + 1 : Emptied(q, i)
  <2> SUFFICES ASSUME NEW i \in 1 .. Len(r) + 1 PROVE Emptied(q, i)
    OBVIOUS
  <2>1. Len(r) + 1 \in DOMAIN q /\ Len(r) + 1 >= i
    BY <1>2
  <2>. QED  BY <1>1, <1>2, <2>1 DEF Emptied
<1>4. 1 \in 1 .. Len(r) + 1
  BY <1>2
<1>5. \A i \in DOMAIN EachView(q) : EachView(q)[i] = <<>>
  BY <1>2, <1>3 DEF EachView
<1>6. FlattenSeq(EachView(q)) = <<>>
  BY <1>2, <1>5, EachViewType, FlattenEmpty
<1>7. <<>> \o <<>> = <<>>
  OBVIOUS
<1>8. ViewAfter(v, q) = <<>>
  BY <1>3, <1>4, <1>6, <1>7 DEF ViewAfter
<1>. QED  BY <1>1, <1>8 DEF q

\* The first message of those that wait is read.
LEMMA ViewAfterHead ==
    ASSUME NEW v \in LinesSent, NEW r \in Seq(ToReader_), r # <<>>
    PROVE  /\ Head(r) \in ToReader_ /\ Tail(r) \in Seq(ToReader_)
           /\ Head(r).kind = "init" => ViewAfter(v, r) = ViewAfter(NoLog, Tail(r))
           /\ Head(r).kind # "init" =>
                IF Emptied(Tail(r), 1)
                THEN \A u \in LinesSent : ViewAfter(v, r) = ViewAfter(u, Tail(r))
                ELSE /\ ViewAfter(v, r) = LinesOf(v) \o (Head(r).lines \o FlattenSeq(EachView(Tail(r))))
                     /\ \A u \in LinesSent : ViewAfter(u, Tail(r)) = LinesOf(u) \o FlattenSeq(EachView(Tail(r)))
<1> DEFINE t == Tail(r)
           f == FlattenSeq(EachView(t))
<1>1. /\ t \in Seq(ToReader_) /\ Head(r) = r[1] /\ r[1] \in ToReader_ /\ Len(r) \in Nat /\ Len(r) >= 1
      /\ Len(t) = Len(r) - 1 /\ DOMAIN r = 1 .. Len(r) /\ DOMAIN t = 1 .. Len(t)
      /\ \A i \in 1 .. Len(t) : t[i] = r[i + 1]
  BY HeadTailProperties, LenProperties
<1> HIDE DEF t
<1>2. \A i \in 1 .. Len(r) : Emptied(t, i) <=> Emptied(r, i + 1)
  <2> SUFFICES ASSUME NEW i \in 1 .. Len(r) PROVE Emptied(t, i) <=> Emptied(r, i + 1)
    OBVIOUS
  <2>1. ASSUME Emptied(t, i) PROVE Emptied(r, i + 1)
    <3>1. PICK j \in DOMAIN t : j >= i /\ t[j].kind = "init"
      BY <2>1 DEF Emptied
    <3>2. j + 1 \in DOMAIN r /\ j + 1 >= i + 1 /\ r[j + 1] = t[j]
      BY <1>1, <3>1
    <3>. QED  BY <3>1, <3>2 DEF Emptied
  <2>2. ASSUME Emptied(r, i + 1) PROVE Emptied(t, i)
    <3>1. PICK j \in DOMAIN r : j >= i + 1 /\ r[j].kind = "init"
      BY <2>2 DEF Emptied
    <3>2. j - 1 \in DOMAIN t /\ j - 1 >= i /\ t[j - 1] = r[j]
      BY <1>1, <3>1
    <3>. QED  BY <3>1, <3>2 DEF Emptied
  <2>. QED  BY <2>1, <2>2
<1>3. Emptied(r, 1) <=> (Head(r).kind = "init" \/ Emptied(t, 1))
  <2>1. ASSUME Emptied(r, 1), Head(r).kind # "init" PROVE Emptied(t, 1)
    <3>1. PICK j \in DOMAIN r : j >= 1 /\ r[j].kind = "init"
      BY <2>1 DEF Emptied
    <3>2. j >= 1 + 1
      BY <1>1, <2>1, <3>1
    <3>3. Emptied(r, 1 + 1)
      BY <3>1, <3>2 DEF Emptied
    <3>. QED  BY <1>1, <1>2, <3>3
  <2>2. ASSUME Head(r).kind = "init" PROVE Emptied(r, 1)
    <3>1. 1 \in DOMAIN r /\ 1 >= 1
      BY <1>1
    <3>. QED  BY <1>1, <2>2, <3>1 DEF Emptied
  <2>3. ASSUME Emptied(t, 1) PROVE Emptied(r, 1)
    <3>1. PICK j \in DOMAIN t : j >= 1 /\ t[j].kind = "init"
      BY <2>3 DEF Emptied
    <3>2. j + 1 \in DOMAIN r /\ j + 1 >= 1 /\ r[j + 1] = t[j]
      BY <1>1, <3>1
    <3>. QED  BY <3>1, <3>2 DEF Emptied
  <2>. QED  BY <2>1, <2>2, <2>3
<1>4. EachView(r) # <<>> /\ EachView(r) \in Seq(Seq(Nat)) /\ Len(EachView(r)) = Len(r)
  BY <1>1, EachViewType
<1>5. Tail(EachView(r)) = EachView(t)
  <2> DEFINE a == Tail(EachView(r))
             b == EachView(t)
  <2>1. a \in Seq(Seq(Nat)) /\ b \in Seq(Seq(Nat)) /\ Len(a) = Len(r) - 1 /\ Len(b) = Len(r) - 1
        /\ \A i \in 1 .. Len(a) : a[i] = EachView(r)[i + 1]
    BY <1>1, <1>4, EachViewType, HeadTailProperties
  <2>2. ASSUME NEW i \in 1 .. Len(a) PROVE a[i] = b[i]
    <3>0. i \in 1 .. Len(t)
      BY <1>1, <2>1
    <3>1. i \in DOMAIN t /\ i \in 1 .. Len(r) /\ i + 1 \in DOMAIN r /\ t[i] = r[i + 1]
      BY <1>1, <3>0
    <3>2. EachView(r)[i + 1] = IF Emptied(r, i + 1) THEN <<>> ELSE LinesOf(r[i + 1].lines)
      BY <3>1 DEF EachView
    <3>3. b[i] = IF Emptied(t, i) THEN <<>> ELSE LinesOf(t[i].lines)
      BY <3>1 DEF EachView
    <3>4. Emptied(t, i) <=> Emptied(r, i + 1)
      BY <1>2, <3>1
    <3>5. a[i] = EachView(r)[i + 1]
      BY <2>1
    <3> HIDE DEF a, b
    <3>. QED  BY <3>1, <3>2, <3>3, <3>4, <3>5
  <2>. QED  BY <2>1, <2>2, SeqEqual
<1>6. Head(EachView(r)) = IF Emptied(r, 1) THEN <<>> ELSE LinesOf(Head(r).lines)
  <2>1. EachView(r)[1] = IF Emptied(r, 1) THEN <<>> ELSE LinesOf(r[1].lines)
    BY <1>1 DEF EachView
  <2>2. Head(EachView(r)) = EachView(r)[1]
    BY <1>4
  <2>. QED  BY <1>1, <2>1, <2>2
<1>7. FlattenSeq(EachView(r)) = Head(EachView(r)) \o f
  BY <1>4, <1>5, FlattenHead
<1>8. f \in Seq(Nat)
  BY <1>1, EachViewType, FlattenType
<1>9. LinesOf(NoLog) = <<>> /\ <<>> \o (<<>> \o f) = <<>> \o f
  BY <1>8, ConcatEmptySeq DEF LinesOf
<1>10. CASE Head(r).kind = "init"
  BY <1>1, <1>3, <1>6, <1>7, <1>9, <1>10 DEF ViewAfter, t
<1>11. CASE Head(r).kind # "init" /\ Emptied(t, 1)
  BY <1>1, <1>3, <1>6, <1>7, <1>9, <1>11 DEF ViewAfter, t
<1>12. CASE Head(r).kind # "init" /\ ~Emptied(t, 1)
  <2>1. LinesOf(Head(r).lines) = Head(r).lines
    BY <1>1, <1>12, ToReaderType
  <2>. QED  BY <1>1, <1>3, <1>6, <1>7, <1>12, <2>1 DEF ViewAfter, t
<1>. QED  BY <1>10, <1>11, <1>12 DEF t

(* Log lines: the log of the application. *)

LEMMA SentKeeps ==
    ASSUME LogsTypeOK, \A k \in DOMAIN logs : logs[k].sent <= Len(logs[k].data),
           NEW obj \in DOMAIN logs
    PROVE  /\ Sent(obj) \in Seq([data : Seq(Nat), sent : Nat]) /\ Len(Sent(obj)) = Len(logs)
           /\ DOMAIN Sent(obj) = DOMAIN logs
           /\ \A k \in DOMAIN logs : Sent(obj)[k].data = logs[k].data
                                     /\ Sent(obj)[k].sent <= Len(Sent(obj)[k].data)
           /\ Sent(obj)[obj].sent = Len(logs[obj].data)
<1> DEFINE T == [data : Seq(Nat), sent : Nat]
<1>0. logs \in Seq(T)
  BY DEF LogsTypeOK
<1>1. logs \in Seq(T) /\ DOMAIN logs = 1 .. Len(logs) /\ \A k \in DOMAIN logs : logs[k] \in T
  <2> HIDE DEF T
  <2>. QED  BY <1>0, LenProperties, ElementOfSeq
<1> DEFINE e == [logs[obj] EXCEPT !.sent = Len(logs[obj].data)]
<1>2. e \in T /\ e.data = logs[obj].data /\ e.sent = Len(logs[obj].data)
  BY <1>1, LenProperties
<1>3. Sent(obj) = [logs EXCEPT ![obj] = e]
  BY DEF Sent
<1> HIDE DEF e
<1>4. Sent(obj) \in Seq(T) /\ Len(Sent(obj)) = Len(logs)
      /\ \A k \in 1 .. Len(logs) : Sent(obj)[k] = IF k = obj THEN e ELSE logs[k]
  BY <1>1, <1>2, <1>3, ExceptSeq
<1>5. DOMAIN Sent(obj) = DOMAIN logs
  BY <1>1, <1>4, LenProperties
<1>6. ASSUME NEW k \in DOMAIN logs
      PROVE  Sent(obj)[k].data = logs[k].data /\ Sent(obj)[k].sent <= Len(Sent(obj)[k].data)
  <2>1. CASE k = obj
    <3>1. Sent(obj)[k] = e /\ Len(logs[obj].data) \in Nat
      BY <1>1, <1>4, <2>1, LenProperties
    <3>. QED  BY <1>2, <2>1, <3>1
  <2>2. CASE k # obj
    BY <1>1, <1>4, <2>2
  <2>. QED  BY <2>1, <2>2
<1>7. Sent(obj)[obj].sent = Len(logs[obj].data)
  BY <1>1, <1>2, <1>4
<1>. QED  BY <1>4, <1>5, <1>6, <1>7

LEMMA NewLinesType ==
    ASSUME LogsTypeOK, NEW obj \in DOMAIN logs
    PROVE  NewLines(obj) \in Seq(Nat) /\ AllLines(obj) \in Seq(Nat)
<1>1. logs[obj].data \in Seq(Nat) /\ logs[obj].sent \in Nat
  <2>1. logs \in Seq([data : Seq(Nat), sent : Nat]) /\ obj \in 1 .. Len(logs)
    BY LenProperties DEF LogsTypeOK
  <2>2. logs[obj] \in [data : Seq(Nat), sent : Nat]
    BY <2>1, ElementOfSeq
  <2>. QED  BY <2>2
<1>2. \A i \in logs[obj].sent + 1 .. Len(logs[obj].data) : logs[obj].data[i] \in Nat
  BY <1>1
<1>3. Len(logs[obj].data) \in Int /\ logs[obj].sent + 1 \in Int
  BY <1>1
<1>4. SubSeq(logs[obj].data, logs[obj].sent + 1, Len(logs[obj].data)) \in Seq(Nat)
  BY <1>2, <1>3, SubSeqProperties
<1>. QED  BY <1>1, <1>4 DEF NewLines, AllLines

LEMMA LinesType ==
    ASSUME NEW l \in LinesSent PROVE LinesOf(l) \in Seq(Nat)
BY EmptySeq DEF LinesSent, LinesOf

LEMMA LinesAreLines ==
    ASSUME NEW l \in Seq(Nat) PROVE l \in LinesSent /\ LinesOf(l) = l
BY LogsAssumption DEF LinesSent, LinesOf

LEMMA OwnLogType ==
    ASSUME LogsTypeOK
    PROVE  /\ OwnLog \in 0 .. Len(logs) /\ DOMAIN logs = 1 .. Len(logs) /\ Len(logs) \in Nat
           /\ (OwnLog # 0 => OwnLog \in DOMAIN logs) /\ (data_send # 0 => data_send \in DOMAIN logs)
           /\ Unsent \in Seq(Nat)
<1>1. DOMAIN logs = 1 .. Len(logs) /\ Len(logs) \in Nat
  BY LenProperties DEF LogsTypeOK
<1>2. OwnLog \in 0 .. Len(logs)
  BY DEF LogsTypeOK, OwnLog
<1>3. (OwnLog # 0 => OwnLog \in DOMAIN logs) /\ (data_send # 0 => data_send \in DOMAIN logs)
  BY <1>1, <1>2 DEF LogsTypeOK
<1>4. Unsent \in Seq(Nat)
  BY <1>3, NewLinesType, EmptySeq DEF Unsent
<1>. QED  BY <1>1, <1>2, <1>3, <1>4

\* All that there is, or what is new, is taken to be sent.
LEMMA Taken ==
    ASSUME LogsTypeOK, WrittenLogged, TakeAll \/ TakeNew, calls'.line = calls.line
    PROVE  /\ logs' \in Seq([data : Seq(Nat), sent : Nat])
           /\ data_send' \in 0 .. Len(logs') /\ data_recv' \in 0 .. Len(logs')
           /\ WrittenLogged' /\ written' = written /\ Unsent' = <<>>
           /\ AllOfIt \in LinesSent /\ LinesOf(AllOfIt) = written
           /\ NewOfIt \in LinesSent /\ LinesOf(NewOfIt) = Unsent
<1>1. /\ OwnLog \in 0 .. Len(logs) /\ DOMAIN logs = 1 .. Len(logs) /\ Len(logs) \in Nat
      /\ (OwnLog # 0 => OwnLog \in DOMAIN logs) /\ (data_send # 0 => data_send \in DOMAIN logs)
  BY OwnLogType
<1>2. logs \in Seq([data : Seq(Nat), sent : Nat])
      /\ \A k \in DOMAIN logs : logs[k].sent <= Len(logs[k].data)
  BY DEF LogsTypeOK, WrittenLogged
<1>3. data_send' = 0 /\ data_recv' = OwnLog /\ written' = written
  BY DEF TakeAll, TakeNew
<1>4. /\ logs' \in Seq([data : Seq(Nat), sent : Nat]) /\ Len(logs') = Len(logs)
      /\ DOMAIN logs' = DOMAIN logs
      /\ \A k \in DOMAIN logs : logs'[k].data = logs[k].data /\ logs'[k].sent <= Len(logs'[k].data)
      /\ OwnLog # 0 => logs'[OwnLog].sent = Len(logs[OwnLog].data)
  <2>1. CASE TakeAll /\ OwnLog # 0
    <3>1. logs' = Sent(OwnLog)
      BY <2>1 DEF TakeAll
    <3>. QED  BY <1>1, <1>2, <2>1, <3>1, SentKeeps
  <2>2. CASE TakeAll /\ OwnLog = 0
    BY <1>2, <2>2 DEF TakeAll
  <2>3. CASE TakeNew /\ data_send # 0
    <3>1. logs' = Sent(data_send) /\ OwnLog = data_send
      BY <2>3 DEF TakeNew, OwnLog
    <3>. QED  BY <1>1, <1>2, <2>3, <3>1, SentKeeps
  <2>4. CASE TakeNew /\ data_send = 0
    <3>1. logs' = logs /\ OwnLog = data_recv
      BY <2>4 DEF TakeNew, OwnLog
    <3>. QED  BY <1>2, <2>4, <3>1 DEF WrittenLogged
  <2>. QED  BY <2>1, <2>2, <2>3, <2>4
<1>5. data_send' \in 0 .. Len(logs') /\ data_recv' \in 0 .. Len(logs')
  BY <1>1, <1>3, <1>4
<1>6. OwnLog' = OwnLog
  BY <1>3 DEF OwnLog
<1>7. WrittenLogged'
  <2>1. written' = (IF OwnLog' = 0 THEN <<>> ELSE logs'[OwnLog'].data)
    BY <1>1, <1>3, <1>4, <1>6 DEF WrittenLogged
  <2>2. Orderly(written', calls'.line)
    BY <1>3 DEF WrittenLogged
  <2>3. data_recv' # 0 => logs'[data_recv'].sent = Len(logs'[data_recv'].data)
    BY <1>1, <1>3, <1>4
  <2>4. \A k \in DOMAIN logs' : logs'[k].sent <= Len(logs'[k].data)
    BY <1>4
  <2>. QED  BY <2>1, <2>2, <2>3, <2>4 DEF WrittenLogged
<1>8. Unsent' = <<>>
  BY <1>3 DEF Unsent
<1>9. AllOfIt \in LinesSent /\ LinesOf(AllOfIt) = written
  <2>1. CASE OwnLog = 0
    BY <2>1 DEF AllOfIt, LinesSent, LinesOf, WrittenLogged
  <2>2. CASE OwnLog # 0
    <3>1. AllOfIt = logs[OwnLog].data /\ AllOfIt \in Seq(Nat) /\ written = logs[OwnLog].data
      BY <1>1, <2>2, NewLinesType DEF AllOfIt, AllLines, WrittenLogged
    <3>. QED  BY <3>1, LinesAreLines
  <2>. QED  BY <2>1, <2>2
<1>10. NewOfIt \in LinesSent /\ LinesOf(NewOfIt) = Unsent
  <2>1. CASE data_send = 0
    BY <2>1 DEF NewOfIt, LinesSent, LinesOf, Unsent
  <2>2. CASE data_send # 0
    <3>1. NewOfIt = Unsent /\ NewOfIt \in Seq(Nat)
      BY <1>1, <2>2, NewLinesType DEF NewOfIt, Unsent
    <3>. QED  BY <3>1, LinesAreLines
  <2>. QED  BY <2>1, <2>2
<1>. QED  BY <1>3, <1>4, <1>5, <1>7, <1>8, <1>9, <1>10

(* Log lines: what is on its way. *)

LEMMA OnWireType ==
    ASSUME NEW q \in Seq(ToServer_)
    PROVE  /\ [i \in DOMAIN q |-> q[i].lines] \in Seq(LinesSent)
           /\ Len([i \in DOMAIN q |-> q[i].lines]) = Len(q)
           /\ InOrder([i \in DOMAIN q |-> q[i].lines]) \in Seq(Nat)
<1>1. DOMAIN q = 1 .. Len(q) /\ Len(q) \in Nat /\ \A i \in 1 .. Len(q) : q[i] \in ToServer_
  BY LenProperties, ElementOfSeq
<1>2. \A i \in 1 .. Len(q) : q[i].lines \in LinesSent
  BY <1>1 DEF ToServer_
<1>3. [i \in DOMAIN q |-> q[i].lines] \in Seq(LinesSent) /\ Len([i \in DOMAIN q |-> q[i].lines]) = Len(q)
  BY <1>1, <1>2
<1>. QED  BY <1>3, EachOfType

LEMMA OnWireAppend ==
    ASSUME NEW q \in Seq(ToServer_), NEW m \in ToServer_
    PROVE  InOrder([i \in DOMAIN Append(q, m) |-> Append(q, m)[i].lines]) =
             InOrder([i \in DOMAIN q |-> q[i].lines]) \o LinesOf(m.lines)
<1> DEFINE p == Append(q, m)
           a == [i \in DOMAIN p |-> p[i].lines]
           b == [i \in DOMAIN q |-> q[i].lines]
<1>1. p \in Seq(ToServer_) /\ Len(p) = Len(q) + 1 /\ p[Len(q) + 1] = m /\ Len(q) \in Nat
      /\ \A i \in 1 .. Len(q) : p[i] = q[i]
  BY AppendProperties, LenProperties
<1>2. DOMAIN p = 1 .. Len(q) + 1 /\ DOMAIN q = 1 .. Len(q) /\ m.lines \in LinesSent
  BY <1>1, LenProperties DEF ToServer_
<1> HIDE DEF p
<1>3. a \in Seq(LinesSent) /\ Len(a) = Len(q) + 1 /\ b \in Seq(LinesSent) /\ Len(b) = Len(q)
  BY <1>1, <1>2, OnWireType
<1>4. Append(b, m.lines) \in Seq(LinesSent) /\ Len(Append(b, m.lines)) = Len(q) + 1
      /\ Append(b, m.lines)[Len(q) + 1] = m.lines
      /\ \A i \in 1 .. Len(q) : Append(b, m.lines)[i] = b[i]
  <2> HIDE DEF a, b
  <2>. QED  BY <1>2, <1>3, AppendProperties
<1>5. \A i \in 1 .. Len(q) + 1 : a[i] = Append(b, m.lines)[i]
  BY <1>1, <1>2, <1>4
<1>6. a = Append(b, m.lines)
  <2> HIDE DEF a, b
  <2>. QED  BY <1>3, <1>4, <1>5, SeqEqual
<1> HIDE DEF a, b
<1>7. InOrder(a) = InOrder(b) \o LinesOf(m.lines)
  BY <1>2, <1>3, <1>6, InOrderAppend
<1>. QED  BY <1>7 DEF a, b, p

LEMMA OnWireHead ==
    ASSUME NEW q \in Seq(ToServer_), q # <<>>
    PROVE  InOrder([i \in DOMAIN q |-> q[i].lines]) =
             LinesOf(Head(q).lines) \o InOrder([i \in DOMAIN Tail(q) |-> Tail(q)[i].lines])
<1> DEFINE t == Tail(q)
           a == [i \in DOMAIN q |-> q[i].lines]
           b == [i \in DOMAIN t |-> t[i].lines]
<1>1. /\ t \in Seq(ToServer_) /\ Head(q) = q[1] /\ Len(q) \in Nat /\ Len(q) >= 1
      /\ Len(t) = Len(q) - 1 /\ DOMAIN q = 1 .. Len(q) /\ DOMAIN t = 1 .. Len(q) - 1
      /\ \A i \in 1 .. Len(t) : t[i] = q[i + 1]
  BY HeadTailProperties, LenProperties
<1> HIDE DEF t
<1>2. a \in Seq(LinesSent) /\ Len(a) = Len(q) /\ b \in Seq(LinesSent) /\ Len(b) = Len(q) - 1
  BY <1>1, OnWireType
<1>7. a[1] = q[1].lines
  <2>1. 1 \in DOMAIN q
    BY <1>1
  <2>. QED  BY <2>1
<1>3. \A i \in 1 .. Len(q) - 1 : b[i] = a[i + 1]
  <2> SUFFICES ASSUME NEW i \in 1 .. Len(q) - 1 PROVE b[i] = a[i + 1]
    OBVIOUS
  <2>1. i + 1 \in DOMAIN q /\ i \in DOMAIN t /\ t[i] = q[i + 1]
    BY <1>1
  <2>. QED  BY <2>1
<1> HIDE DEF a, b
<1>4. a # <<>> /\ Head(a) = a[1]
  BY <1>1, <1>2
<1>5. Tail(a) = b
  <2>1. Tail(a) \in Seq(LinesSent) /\ Len(Tail(a)) = Len(q) - 1 /\ \A i \in 1 .. Len(Tail(a)) : Tail(a)[i] = a[i + 1]
    BY <1>2, <1>4, HeadTailProperties
  <2>. QED  BY <1>2, <1>3, <2>1, SeqEqual
<1>6. InOrder(a) = LinesOf(q[1].lines) \o InOrder(b)
  BY <1>2, <1>4, <1>5, <1>7, InOrderHead
<1>. QED  BY <1>1, <1>6 DEF a, b, t

LEMMA PiecesType ==
    ASSUME LogsTypeOK
    PROVE  /\ Unsent \in Seq(Nat) /\ Pushing \in Seq(Nat) /\ SendingLines \in Seq(Nat)
           /\ InOrder(sync_queue) \in Seq(Nat) /\ Behind \in Seq(Nat)
           /\ \A c \in Connections : OnWire(c) \in Seq(Nat) /\ LinesOf(log[c]) \in Seq(Nat)
           /\ con > 0 => con \in Connections /\ OnTheWay \in Seq(Nat)
           /\ WillView \in Seq(Nat) /\ Known \in Seq(Nat)
<1>1. Unsent \in Seq(Nat)
  BY OwnLogType
<1>2. Pushing \in Seq(Nat)
  <2>1. app.pc = "push" => app.lines \in LinesSent
    BY DEF LogsTypeOK
  <2>. QED  BY <2>1, LinesType, EmptySeq DEF Pushing
<1>3. SendingLines \in Seq(Nat)
  <2>1. ws.pc = "send" => ws.queue \in Seq(LinesSent)
    BY DEF LogsTypeOK
  <2>. QED  BY <2>1, EachOfType, EmptySeq DEF SendingLines
<1>4. InOrder(sync_queue) \in Seq(Nat)
  BY EachOfType DEF LogsTypeOK
<1>5. Behind \in Seq(Nat)
  <2>1. Pushing \o Unsent \in Seq(Nat)
    BY <1>1, <1>2, ConcatProperties
  <2>. QED  BY <1>4, <2>1, ConcatProperties DEF Behind
<1>6. ASSUME NEW c \in Connections PROVE OnWire(c) \in Seq(Nat) /\ LinesOf(log[c]) \in Seq(Nat)
  <2>1. wire[c] \in Seq(ToServer_) /\ log[c] \in LinesSent
    BY DEF LogsTypeOK
  <2>. QED  BY <2>1, OnWireType, LinesType DEF OnWire
<1>7. con > 0 => con \in Connections /\ OnTheWay \in Seq(Nat)
  <2> SUFFICES ASSUME con > 0 PROVE con \in Connections /\ OnTheWay \in Seq(Nat)
    OBVIOUS
  <2>1. con \in Connections
    BY LogsAssumption DEF LogsTypeOK, Connections
  <2>2. SendingLines \o Behind \in Seq(Nat)
    BY <1>3, <1>5, ConcatProperties
  <2>. QED  BY <1>6, <2>1, <2>2, ConcatProperties DEF OnTheWay
<1>8. WillView \in Seq(Nat)
  BY ViewAfterType DEF WillView, LogsTypeOK
<1>9. Known \in Seq(Nat)
  <2>1. current # 0 => current \in Connections
    BY LogsAssumption DEF LogsTypeOK, Connections
  <2>. QED  BY <1>6, <2>1, EmptySeq DEF Known
<1>. QED  BY <1>1, <1>2, <1>3, <1>4, <1>5, <1>6, <1>7, <1>8, <1>9

(* Log lines: steps of the writer. *)

\* What a step of the writer leaves of the reader's side.
LEMMA ReadersSideSame ==
    ASSUME LogsInv, UNCHANGED <<log, current, log_req, readerVars>>
    PROVE  WillView' = WillView /\ Known' = Known /\ ReqUnderWay'
<1>1. WillView' = WillView /\ Known' = Known
  BY DEF WillView, Known, readerVars
<1>2. ReqUnderWay
  BY DEF LogsInv
<1>. QED  BY <1>1, <1>2 DEF ReqUnderWay, readerVars

\* What is to come may move on, as long as it remains the same.
LEMMA SameToCome ==
    ASSUME LogsInv, con' = con, sync_first' = sync_first, OnTheWay' = OnTheWay,
           sync_first = MovedFirst \/ Behind' = Behind,
           UNCHANGED <<log, current, log_req, readerVars, overtaken, repeated, wiped>>,
           calls'.line = calls.line
    PROVE  WillLog' = WillLog /\ (written' = written => LogsAgree') /\ ReqUnderWay' /\ ViewAgrees'
<1>1. WillView' = WillView /\ Known' = Known /\ ReqUnderWay'
  BY ReadersSideSame
<1>2. WillLog' = WillLog
  BY DEF WillLog
<1>3. LogsAgree /\ ViewAgrees
  BY DEF LogsInv
<1>4. written' = written => LogsAgree'
  BY <1>2, <1>3 DEF LogsAgree
<1>5. ViewAgrees'
  BY <1>1, <1>3 DEF ViewAgrees, readerVars
<1>. QED  BY <1>1, <1>2, <1>4, <1>5

LEMMA LinesCounted ==
    ASSUME LogsTypeOK, NEW m, NEW f \in {"line", "sync", "clear", "loss"}, Bounded(f, m)
    PROVE  /\ calls' \in [line : Nat, sync : Nat, clear : Nat, loss : Nat]
           /\ f = "line" => calls'.line = calls.line + 1
           /\ f # "line" => calls'.line = calls.line
           /\ calls.line \in Nat
<1>1. calls \in [line : Nat, sync : Nat, clear : Nat, loss : Nat]
      /\ calls' = [calls EXCEPT ![f] = @ + 1]
  BY DEF LogsTypeOK, Bounded
<1>2. f \in DOMAIN calls /\ calls[f] \in Nat
  BY <1>1
<1>. QED  BY <1>1, <1>2

LEMMA NewLine ==
    ASSUME NEW d \in Seq(Nat), NEW s \in 0 .. Len(d), NEW x \in Nat
    PROVE  /\ SubSeq(Append(d, x), s + 1, Len(Append(d, x))) = SubSeq(d, s + 1, Len(d)) \o <<x>>
           /\ s = Len(d) => SubSeq(d, s + 1, Len(d)) = <<>>
<1> DEFINE a == Append(d, x)
<1>1. a \in Seq(Nat) /\ Len(a) = Len(d) + 1 /\ a[Len(d) + 1] = x /\ Len(d) \in Nat /\ s \in Nat
      /\ \A i \in 1 .. Len(d) : a[i] = d[i]
  BY AppendProperties, LenProperties
<1> HIDE DEF a
<1>2. s + 1 \in 1 .. Len(a) /\ Len(a) \in s + 1 .. Len(a) /\ Len(a) - 1 = Len(d)
  BY <1>1
<1>3. SubSeq(a, s + 1, Len(a)) = SubSeq(a, s + 1, Len(a) - 1) \o <<a[Len(a)]>>
  BY <1>1, <1>2, SubSeqRecursiveSecond
<1>4. SubSeq(a, s + 1, Len(d)) = SubSeq(d, s + 1, Len(d))
  <2>1. \A i \in s + 1 .. Len(d) : a[i] \in Nat /\ d[i] \in Nat /\ a[i] = d[i]
    <3> SUFFICES ASSUME NEW i \in s + 1 .. Len(d) PROVE a[i] \in Nat /\ d[i] \in Nat /\ a[i] = d[i]
      OBVIOUS
    <3>1. i \in 1 .. Len(d)
      BY <1>1
    <3>2. d[i] \in Nat
      BY <3>1, ElementOfSeq
    <3>. QED  BY <1>1, <3>1, <3>2
  <2> DEFINE p == SubSeq(a, s + 1, Len(d))
             q == SubSeq(d, s + 1, Len(d))
  <2>2. /\ p \in Seq(Nat) /\ Len(p) = IF s + 1 <= Len(d) THEN Len(d) - (s + 1) + 1 ELSE 0
        /\ \A i \in 1 .. Len(d) - (s + 1) + 1 : p[i] = a[s + 1 + i - 1]
    BY <1>1, <2>1, SubSeqProperties
  <2>3. /\ q \in Seq(Nat) /\ Len(q) = IF s + 1 <= Len(d) THEN Len(d) - (s + 1) + 1 ELSE 0
        /\ \A i \in 1 .. Len(d) - (s + 1) + 1 : q[i] = d[s + 1 + i - 1]
    BY <1>1, <2>1, SubSeqProperties
  <2> HIDE DEF p, q
  <2>4. ASSUME NEW i \in 1 .. Len(p) PROVE p[i] = q[i]
    <3>1. i \in 1 .. Len(d) - (s + 1) + 1 /\ s + 1 + i - 1 \in s + 1 .. Len(d)
      BY <1>1, <2>2
    <3>. QED  BY <2>1, <2>2, <2>3, <3>1
  <2>5. p = q
    BY <2>2, <2>3, <2>4, SeqEqual
  <2>. QED  BY <2>5 DEF p, q
<1>5. s = Len(d) => SubSeq(d, s + 1, Len(d)) = <<>>
  BY <1>1, SubSeqEmpty
<1>. QED  BY <1>1, <1>2, <1>3, <1>4, <1>5 DEF a

LEMMA writeLogLines ==
    ASSUME LogsInv, writeLog
    PROVE  /\ logs' \in Seq([data : Seq(Nat), sent : Nat])
           /\ data_send' \in 0 .. Len(logs') /\ data_recv' \in 0 .. Len(logs')
           /\ WrittenLogged' /\ written' = written \o <<calls'.line>>
           /\ Unsent' = Unsent \o <<calls'.line>>
<1> DEFINE T == [data : Seq(Nat), sent : Nat]
           x == calls'.line
           obj == IF OwnLog # 0 THEN OwnLog ELSE Len(logs) + 1
           fresh == [data |-> <<>>, sent |-> 0]
           old == IF OwnLog # 0 THEN logs ELSE Append(logs, fresh)
<1>1. LogsTypeOK /\ WrittenLogged
  BY DEF LogsInv
<1>2. x = calls.line + 1 /\ x \in Nat /\ calls.line \in Nat
  BY <1>1, LinesCounted DEF writeLog
<1>3. /\ OwnLog \in 0 .. Len(logs) /\ DOMAIN logs = 1 .. Len(logs) /\ Len(logs) \in Nat
      /\ (OwnLog # 0 => OwnLog \in DOMAIN logs) /\ (data_send # 0 => data_send \in DOMAIN logs)
      /\ logs \in Seq(T)
  BY <1>1, OwnLogType DEF LogsTypeOK
<1>4. fresh \in T /\ fresh.data = <<>> /\ fresh.sent = 0
  BY EmptySeq
<1>5. /\ logs' = [old EXCEPT ![obj].data = Append(@, x)] /\ data_send' = obj
      /\ written' = Append(written, x) /\ data_recv' = data_recv
  BY DEF writeLog
<1> HIDE DEF x, fresh
<1>6. /\ old \in Seq(T) /\ obj \in DOMAIN old /\ DOMAIN old = 1 .. Len(old) /\ Len(logs) <= Len(old)
      /\ Len(old) \in Nat /\ obj \in 1 .. Len(old)
      /\ \A k \in DOMAIN old : old[k].sent <= Len(old[k].data)
      /\ old[obj].data = written
      /\ Unsent = SubSeq(old[obj].data, old[obj].sent + 1, Len(old[obj].data))
  <2>1. CASE OwnLog # 0
    <3>1. old = logs /\ obj = OwnLog /\ written = logs[OwnLog].data
      BY <1>1, <2>1 DEF WrittenLogged
    <3>2. Unsent = SubSeq(logs[obj].data, logs[obj].sent + 1, Len(logs[obj].data))
      <4>1. CASE data_send # 0
        BY <3>1, <4>1 DEF Unsent, NewLines, OwnLog
      <4>2. CASE data_send = 0
        <5>1. obj = data_recv /\ logs[obj].sent = Len(logs[obj].data) /\ Unsent = <<>>
          BY <1>1, <2>1, <3>1, <4>2 DEF OwnLog, WrittenLogged, Unsent
        <5>2. Len(logs[obj].data) \in Nat
          <6>1. obj \in 1 .. Len(logs)
            BY <1>3, <2>1, <3>1
          <6>2. logs[obj] \in T
            <7> HIDE DEF T, obj
            <7>. QED  BY <1>3, <6>1, ElementOfSeq
          <6>3. logs[obj].data \in Seq(Nat)
            BY <6>2
          <6>. QED  BY <6>3
        <5>3. SubSeq(logs[obj].data, Len(logs[obj].data) + 1, Len(logs[obj].data)) = <<>>
          BY <5>2, SubSeqEmpty
        <5> HIDE DEF obj
        <5>. QED  BY <5>1, <5>3
      <4>. QED  BY <4>1, <4>2
    <3>3. old \in Seq(T) /\ obj \in DOMAIN old /\ DOMAIN old = 1 .. Len(old) /\ Len(logs) <= Len(old)
          /\ Len(old) \in Nat /\ obj \in 1 .. Len(old)
      <4> HIDE DEF T, old, obj
      <4>. QED  BY <1>3, <2>1, <3>1
    <3>4. \A k \in DOMAIN old : old[k].sent <= Len(old[k].data)
      <4> HIDE DEF old, obj
      <4>. QED  BY <1>1, <3>1 DEF WrittenLogged
    <3> HIDE DEF old, obj
    <3>. QED  BY <3>1, <3>2, <3>3, <3>4
  <2>2. CASE OwnLog = 0
    <3>1. obj = Len(logs) + 1 /\ old = Append(logs, fresh) /\ written = <<>> /\ data_send = 0
      BY <1>1, <2>2 DEF WrittenLogged, OwnLog
    <3>2. old \in Seq(T) /\ Len(old) = Len(logs) + 1 /\ old[obj] = fresh
          /\ \A k \in 1 .. Len(logs) : old[k] = logs[k]
      <4> HIDE DEF T, old, obj
      <4>. QED  BY <1>3, <1>4, <3>1, AppendProperties
    <3>3. DOMAIN old = 1 .. Len(logs) + 1
      <4> HIDE DEF T, old
      <4>1. DOMAIN old = 1 .. Len(old)
        BY <3>2, LenProperties
      <4>. QED  BY <3>2, <4>1
    <3>4. obj \in DOMAIN old
      <4> HIDE DEF old, obj
      <4>. QED  BY <1>3, <3>1, <3>3
    <3>5. \A k \in DOMAIN old : old[k].sent <= Len(old[k].data)
      <4> SUFFICES ASSUME NEW k \in DOMAIN old PROVE old[k].sent <= Len(old[k].data)
        OBVIOUS
      <4>1. CASE k = obj
        <5> HIDE DEF old, obj
        <5>. QED  BY <1>4, <3>2, <4>1
      <4>2. CASE k # obj
        <5> HIDE DEF old, obj
        <5>1. k \in 1 .. Len(logs) /\ k \in DOMAIN logs
          BY <1>3, <3>1, <3>3, <4>2
        <5>. QED  BY <1>1, <3>2, <5>1 DEF WrittenLogged
      <4>. QED  BY <4>1, <4>2
    <3>6. Unsent = SubSeq(old[obj].data, old[obj].sent + 1, Len(old[obj].data))
      <4>1. Unsent = <<>> /\ old[obj].data = <<>> /\ old[obj].sent = 0
        <5> HIDE DEF old, obj
        <5>. QED  BY <1>4, <3>1, <3>2 DEF Unsent
      <4>2. SubSeq(<<>>, 0 + 1, Len(<<>>)) = <<>>
        OBVIOUS
      <4> HIDE DEF old, obj
      <4>. QED  BY <4>1, <4>2
    <3>7. old[obj].data = written
      <4> HIDE DEF old, obj
      <4>. QED  BY <1>4, <3>1, <3>2
    <3>8. obj \in 1 .. Len(old) /\ Len(old) \in Nat /\ Len(logs) <= Len(old) /\ DOMAIN old = 1 .. Len(old)
      <4> HIDE DEF old
      <4>. QED  BY <1>3, <3>1, <3>2, <3>3
    <3> HIDE DEF old, obj
    <3>. QED  BY <3>2, <3>4, <3>5, <3>6, <3>7, <3>8
  <2>. QED  BY <2>1, <2>2
<1> HIDE DEF old, obj
<1>7. /\ logs' \in Seq(T) /\ Len(logs') = Len(old) /\ DOMAIN logs' = DOMAIN old
      /\ \A k \in DOMAIN old : k # obj => logs'[k] = old[k]
      /\ logs'[obj].data = Append(old[obj].data, x) /\ logs'[obj].sent = old[obj].sent
  <2> DEFINE e == [old[obj] EXCEPT !.data = Append(@, x)]
  <2>1. old[obj] \in T
    <3> HIDE DEF T
    <3>. QED  BY <1>6, ElementOfSeq
  <2>2. Append(old[obj].data, x) \in Seq(Nat)
    BY <1>2, <2>1, AppendProperties
  <2>3. e \in T /\ e.data = Append(old[obj].data, x) /\ e.sent = old[obj].sent
    BY <2>1, <2>2
  <2>4. logs' = [old EXCEPT ![obj] = e]
    BY <1>5
  <2> HIDE DEF e, T
  <2>5. /\ [old EXCEPT ![obj] = e] \in Seq(T) /\ Len([old EXCEPT ![obj] = e]) = Len(old)
        /\ \A k \in 1 .. Len(old) : [old EXCEPT ![obj] = e][k] = IF k = obj THEN e ELSE old[k]
    BY <1>6, <2>3, ExceptSeq
  <2>6. logs' \in Seq(T) /\ Len(logs') = Len(old)
        /\ \A k \in 1 .. Len(old) : logs'[k] = IF k = obj THEN e ELSE old[k]
    BY <2>4, <2>5
  <2>7. DOMAIN logs' = 1 .. Len(logs')
    BY <2>6, LenProperties
  <2>8. logs'[obj] = e /\ \A k \in DOMAIN old : k # obj => logs'[k] = old[k]
    BY <1>6, <2>6
  <2>. QED  BY <1>6, <2>3, <2>6, <2>7, <2>8
<1>8. obj # 0 /\ data_send' = obj /\ OwnLog' = obj
  BY <1>5, <1>6 DEF OwnLog
<1>9. old[obj] \in T
  <2> HIDE DEF T
  <2>. QED  BY <1>6, ElementOfSeq
<1>10. /\ old[obj].data \in Seq(Nat) /\ old[obj].sent \in 0 .. Len(old[obj].data)
       /\ Len(Append(old[obj].data, x)) = Len(old[obj].data) + 1 /\ Len(old[obj].data) \in Nat
  <2>1. old[obj].data \in Seq(Nat) /\ old[obj].sent \in Nat /\ old[obj].sent <= Len(old[obj].data)
    BY <1>6, <1>9
  <2>2. Len(Append(old[obj].data, x)) = Len(old[obj].data) + 1 /\ Len(old[obj].data) \in Nat
    BY <1>2, <2>1, AppendProperties, LenProperties
  <2>. QED  BY <2>1, <2>2
<1>11. written' = written \o <<x>> /\ Orderly(written', x)
  <2>1. Orderly(written, calls.line) /\ written \in Seq(Nat)
    BY <1>1, <1>6, <1>10 DEF WrittenLogged
  <2>2. Append(written, x) = written \o <<x>>
    BY <1>2, <2>1, AppendIsConcat
  <2>. QED  BY <1>2, <1>5, <2>1, <2>2, OrderlyAppend
<1>12. Unsent' = Unsent \o <<x>>
  <2>1. Unsent' = SubSeq(logs'[obj].data, logs'[obj].sent + 1, Len(logs'[obj].data))
    BY <1>8 DEF Unsent, NewLines
  <2> DEFINE d == old[obj].data
             s == old[obj].sent
  <2>2. d \in Seq(Nat) /\ s \in 0 .. Len(d) /\ x \in Nat
    BY <1>2, <1>10
  <2>3. Unsent' = SubSeq(Append(d, x), s + 1, Len(Append(d, x))) /\ Unsent = SubSeq(d, s + 1, Len(d))
    BY <1>6, <1>7, <2>1
  <2> HIDE DEF d, s
  <2>4. SubSeq(Append(d, x), s + 1, Len(Append(d, x))) = SubSeq(d, s + 1, Len(d)) \o <<x>>
    BY <2>2, NewLine
  <2>. QED  BY <2>3, <2>4
<1>13. WrittenLogged'
  <2>1. \A k \in DOMAIN logs' : logs'[k].sent <= Len(logs'[k].data)
    <3> SUFFICES ASSUME NEW k \in DOMAIN logs' PROVE logs'[k].sent <= Len(logs'[k].data)
      OBVIOUS
    <3>1. CASE k = obj
      BY <1>7, <1>10, <3>1
    <3>2. CASE k # obj
      BY <1>6, <1>7, <3>2
    <3>. QED  BY <3>1, <3>2
  <2>2. written' = logs'[OwnLog'].data
    BY <1>5, <1>6, <1>7, <1>8
  <2>3. Orderly(written', calls'.line)
    BY <1>11 DEF x
  <2>4. written' = (IF OwnLog' = 0 THEN <<>> ELSE logs'[OwnLog'].data) /\ data_send' # 0
    BY <1>8, <2>2
  <2>. QED  BY <2>1, <2>3, <2>4 DEF WrittenLogged
<1>14. data_send' \in 0 .. Len(logs') /\ data_recv' \in 0 .. Len(logs')
  <2>1. data_recv \in 0 .. Len(logs) /\ data_recv' = data_recv
    BY <1>1, <1>5 DEF LogsTypeOK
  <2>2. Len(logs') = Len(old) /\ data_send' = obj
    BY <1>7, <1>8
  <2>3. Len(logs) <= Len(old) /\ Len(logs) \in Nat /\ Len(old) \in Nat /\ obj \in 1 .. Len(old)
    BY <1>3, <1>6
  <2>. QED  BY <2>1, <2>2, <2>3
<1>. QED  BY <1>7, <1>11, <1>12, <1>13, <1>14 DEF x

LEMMA FirstLeadsSame ==
    ASSUME FirstLeads, UNCHANGED <<sync_first, ws, connected, con, current, log, wire>>
    PROVE  FirstLeads'
BY DEF FirstLeads

\* The connection there is when sync_first has been sent.
LEMMA MovedConnected ==
    ASSUME LogsInv
    PROVE  /\ sync_first = MovedFirst => connected /\ con > 0 /\ ws.pc # "first"
           /\ connected => con \in Connections /\ (ws.pc # "first" => sync_first = MovedFirst)
           /\ ws.pc \in {"top", "first", "send"}
           /\ (ws.pc = "send" => ws.queue \in Seq(LinesSent) /\ ws.queue # <<>>)
           /\ sync_first # MovedFirst => WillLog = LinesOf(sync_first) \o Behind
           /\ sync_first = MovedFirst => WillLog = LinesOf(log[con]) \o OnTheWay
<1>1. FirstLeads /\ LogsTypeOK
  BY DEF LogsInv
<1>2. sync_first = MovedFirst => connected /\ con > 0 /\ ws.pc # "first"
  BY <1>1 DEF FirstLeads
<1>3. connected => con > 0 /\ (ws.pc # "first" => sync_first = MovedFirst)
  BY <1>1 DEF FirstLeads
<1>4. ws.pc \in {"top", "first", "send"}
      /\ (ws.pc = "send" => ws.queue \in Seq(LinesSent) /\ ws.queue # <<>>)
  BY <1>1 DEF LogsTypeOK
<1>. QED  BY <1>1, <1>2, <1>3, <1>4, PiecesType DEF WillLog

LEMMA writeLogInv ==
    ASSUME LogsInv, writeLog PROVE LogsInv'
<1> DEFINE x == <<calls'.line>>
<1>1. LogsTypeOK /\ FirstLeads /\ LogsAgree /\ ViewAgrees
  BY DEF LogsInv
<1>2. /\ logs' \in Seq([data : Seq(Nat), sent : Nat])
      /\ data_send' \in 0 .. Len(logs') /\ data_recv' \in 0 .. Len(logs')
      /\ WrittenLogged' /\ written' = written \o x /\ Unsent' = Unsent \o x
  BY writeLogLines
<1>3. /\ UNCHANGED <<sync_first, sync_queue, app, ws, connected, con, wire, log, current, log_req,
                     reader, received, view, overtaken, repeated, wiped>>
      /\ UNCHANGED <<log, current, log_req, readerVars>>
  BY DEF writeLog, serverVars, readerVars
<1>4. /\ calls' \in [line : Nat, sync : Nat, clear : Nat, loss : Nat]
      /\ calls'.line = calls.line + 1 /\ calls.line \in Nat
  BY <1>1, LinesCounted DEF writeLog
<1>5. x \in Seq(Nat) /\ Len(x) = 1
  BY <1>4
<1>6. LogsTypeOK'
  <2> DEFINE T == [data : Seq(Nat), sent : Nat]
  <2>1. logs' \in Seq(T) /\ data_send' \in 0 .. Len(logs') /\ data_recv' \in 0 .. Len(logs')
    BY <1>2
  <2>2. calls' \in [line : Nat, sync : Nat, clear : Nat, loss : Nat]
    BY <1>4
  <2>3. LogsTypeOK
    BY <1>1
  <2>4. UNCHANGED <<sync_first, sync_queue, app, ws, connected, con, wire, log, current, log_req,
                    reader, received, view, overtaken, repeated, wiped>>
    BY <1>3
  <2>5. /\ sync_first' \in LinesSent \cup {NoFirst, MovedFirst} /\ sync_queue' \in Seq(LinesSent)
        /\ connected' \in BOOLEAN /\ con' \in 0 .. MaxLosses + 1 /\ current' \in 0 .. con'
        /\ wire' \in [Connections -> Seq(ToServer_)]
        /\ log' \in [Connections -> LinesSent] /\ log_req' \in BOOLEAN
        /\ received' \in Seq(ToReader_) /\ view' \in LinesSent
        /\ {overtaken', repeated', wiped'} \subseteq BOOLEAN
    BY <2>3, <2>4 DEF LogsTypeOK
  <2> HIDE DEF T, x
  <2>. QED  BY <2>1, <2>2, <2>3, <2>4, <2>5 DEF LogsTypeOK, T
<1>7. FirstLeads'
  BY <1>1, <1>3, FirstLeadsSame
<1>8. WillView' = WillView /\ Known' = Known /\ ReqUnderWay'
  BY <1>3, ReadersSideSame
<1> HIDE DEF x
<1>9. Behind \in Seq(Nat) /\ Behind' = Behind \o x
  <2>1. InOrder(sync_queue) \in Seq(Nat) /\ Pushing \in Seq(Nat) /\ Unsent \in Seq(Nat)
        /\ Behind \in Seq(Nat)
    BY <1>1, PiecesType
  <2>2. Behind' = InOrder(sync_queue) \o (Pushing \o (Unsent \o x))
    BY <1>2, <1>3 DEF Behind, Pushing
  <2>5. Pushing \o Unsent \in Seq(Nat)
    BY <2>1
  <2>3. Pushing \o (Unsent \o x) = (Pushing \o Unsent) \o x
    BY <1>5, <2>1, JoinedLines, ZenonT(60)
  <2>4. InOrder(sync_queue) \o ((Pushing \o Unsent) \o x) = (InOrder(sync_queue) \o (Pushing \o Unsent)) \o x
    <3> DEFINE a == InOrder(sync_queue)
               b == Pushing \o Unsent
    <3>1. a \in Seq(Nat) /\ b \in Seq(Nat) /\ x \in Seq(Nat)
      BY <1>5, <2>1, <2>5
    <3> HIDE DEF a, b
    <3>2. a \o (b \o x) = (a \o b) \o x
      BY <3>1, JoinedLines, ZenonT(60)
    <3>. QED  BY <3>2 DEF a, b
  <2>. QED  BY <2>1, <2>2, <2>3, <2>4 DEF Behind
<1>10. con > 0 => OnTheWay \in Seq(Nat) /\ OnTheWay' = OnTheWay \o x
  <2> SUFFICES ASSUME con > 0 PROVE OnTheWay \in Seq(Nat) /\ OnTheWay' = OnTheWay \o x
    OBVIOUS
  <2>1. OnWire(con) \in Seq(Nat) /\ SendingLines \in Seq(Nat) /\ OnTheWay \in Seq(Nat)
    BY <1>1, PiecesType
  <2>2. OnTheWay' = OnWire(con) \o (SendingLines \o (Behind \o x))
    BY <1>3, <1>9 DEF OnTheWay, OnWire, SendingLines
  <2>5. SendingLines \o Behind \in Seq(Nat)
    BY <1>9, <2>1
  <2>3. SendingLines \o (Behind \o x) = (SendingLines \o Behind) \o x
    BY <1>5, <1>9, <2>1, JoinedLines, ZenonT(60)
  <2>4. OnWire(con) \o ((SendingLines \o Behind) \o x) = (OnWire(con) \o (SendingLines \o Behind)) \o x
    BY <1>5, <2>1, <2>5, JoinedLines, ZenonT(60)
  <2>. QED  BY <2>1, <2>2, <2>3, <2>4 DEF OnTheWay
<1>11. sync_first # NoFirst => WillLog \in Seq(Nat) /\ WillLog' = WillLog \o x
  <2>1. CASE sync_first = MovedFirst
    <3>1. con \in Connections /\ LinesOf(log[con]) \in Seq(Nat) /\ con > 0
      BY <1>1, <2>1, MovedConnected, PiecesType
    <3>4. OnTheWay \in Seq(Nat) /\ OnTheWay' = OnTheWay \o x
      BY <1>10, <3>1
    <3>2. LinesOf(log[con]) \o (OnTheWay \o x) = (LinesOf(log[con]) \o OnTheWay) \o x
      BY <1>5, <3>1, <3>4, JoinedLines, ZenonT(60)
    <3>3. LinesOf(log[con]) \o OnTheWay \in Seq(Nat)
      BY <3>1, <3>4
    <3>. QED  BY <1>3, <2>1, <3>2, <3>3, <3>4 DEF WillLog
  <2>2. CASE sync_first \notin {MovedFirst, NoFirst}
    <3>1. LinesOf(sync_first) \in Seq(Nat)
      BY <1>1, <2>2, LinesType DEF LogsTypeOK
    <3>2. LinesOf(sync_first) \o (Behind \o x) = (LinesOf(sync_first) \o Behind) \o x
      BY <1>5, <1>9, <3>1, JoinedLines, ZenonT(60)
    <3>3. LinesOf(sync_first) \o Behind \in Seq(Nat)
      BY <1>9, <3>1
    <3>. QED  BY <1>3, <1>9, <2>2, <3>2, <3>3 DEF WillLog
  <2>. QED  BY <2>1, <2>2
<1>12. LogsAgree'
  <2> SUFFICES ASSUME sync_first # NoFirst, ~overtaken
               PROVE  /\ Orderly(WillLog', calls'.line) /\ Alike(WillLog', written')
                      /\ Len(WillLog') >= KeptOf(Len(written'), KeepLog)
    BY <1>3 DEF LogsAgree
  <2>1. WillLog \in Seq(Nat) /\ WillLog' = WillLog \o x /\ written \in Seq(Nat)
        /\ Orderly(WillLog, calls.line) /\ Alike(WillLog, written)
        /\ Len(WillLog) >= KeptOf(Len(written), KeepLog)
    <3>1. written \in Seq(Nat)
      BY <1>4, OrderlySeq DEF LogsInv, WrittenLogged
    <3>. QED  BY <1>1, <1>11, <3>1 DEF LogsAgree
  <2>2. Orderly(WillLog', calls'.line)
    BY <1>4, <2>1, OrderlyAppend DEF x
  <2>3. Alike(WillLog', written')
    BY <1>2, <1>5, <2>1, AlikeGrows
  <2>4. Len(WillLog') = Len(WillLog) + 1 /\ Len(written') = Len(written) + 1
        /\ Len(WillLog) \in Nat /\ Len(written) \in Nat
    <3>1. written' = written \o x
      BY <1>2
    <3>2. Len(WillLog \o x) = Len(WillLog) + 1 /\ Len(WillLog) \in Nat
      BY <1>5, <2>1, JoinedLen
    <3>3. Len(written \o x) = Len(written) + 1 /\ Len(written) \in Nat
      BY <1>5, <2>1, JoinedLen
    <3>. QED  BY <2>1, <3>1, <3>2, <3>3
  <2>5. KeptOf(Len(written'), KeepLog) <= KeptOf(Len(written), KeepLog) + 1
        /\ KeptOf(Len(written), KeepLog) \in Nat /\ KeptOf(Len(written'), KeepLog) \in Nat
    BY <2>4, LogsAssumption DEF KeptOf
  <2>. QED  BY <2>1, <2>2, <2>3, <2>4, <2>5
<1>13. ViewAgrees'
  <2> SUFFICES ASSUME sync_first = MovedFirst, ~overtaken, ~repeated, current = con,
                      reader.connected, log_req
               PROVE  /\ Orderly(WillView \o OnTheWay', calls'.line) /\ Alike(WillView, Known)
                      /\ wiped \/ Len(WillView) >= KeptOf(Len(Known), KeepLines)
    BY <1>3, <1>8 DEF ViewAgrees
  <2>1. con > 0 /\ OnTheWay \in Seq(Nat) /\ OnTheWay' = OnTheWay \o x /\ WillView \in Seq(Nat)
    BY <1>1, <1>10, MovedConnected, PiecesType
  <2>2. /\ Orderly(WillView \o OnTheWay, calls.line) /\ Alike(WillView, Known)
        /\ wiped \/ Len(WillView) >= KeptOf(Len(Known), KeepLines)
    BY <1>1 DEF ViewAgrees
  <2>5. WillView \o OnTheWay \in Seq(Nat)
    BY <2>1
  <2>3. WillView \o (OnTheWay \o x) = (WillView \o OnTheWay) \o x
    BY <1>5, <2>1, JoinedLines, ZenonT(60)
  <2>4. Orderly((WillView \o OnTheWay) \o x, calls'.line)
    BY <1>4, <2>2, <2>5, OrderlyAppend DEF x
  <2>. QED  BY <2>1, <2>2, <2>3, <2>4
<1>. QED  BY <1>2, <1>6, <1>7, <1>8, <1>12, <1>13 DEF LogsInv

LEMMA clearInv ==
    ASSUME LogsInv, clear PROVE LogsInv'
<1> DEFINE T == [data : Seq(Nat), sent : Nat]
           fresh == [data |-> <<>>, sent |-> 0]
<1>1. LogsTypeOK /\ WrittenLogged /\ FirstLeads /\ LogsAgree /\ ViewAgrees
  BY DEF LogsInv
<1>2. /\ logs' = Append(logs, fresh) /\ data_recv' = Len(logs') /\ data_send' = data_send
      /\ written' = IF data_send = 0 THEN <<>> ELSE written
      /\ UNCHANGED <<sync_first, sync_queue, app, ws, connected, con, wire, log, current, log_req,
                     reader, received, view, overtaken, repeated, wiped>>
      /\ UNCHANGED <<log, current, log_req, readerVars>>
  BY DEF clear, serverVars, readerVars
<1>3. calls' \in [line : Nat, sync : Nat, clear : Nat, loss : Nat] /\ calls'.line = calls.line
      /\ calls.line \in Nat
  BY <1>1, LinesCounted DEF clear
<1>4. logs \in Seq(T) /\ fresh \in T /\ fresh.data = <<>> /\ fresh.sent = 0 /\ Len(fresh.data) = 0
  BY <1>1, EmptySeq DEF LogsTypeOK
<1> HIDE DEF T, fresh
<1>5. /\ logs' \in Seq(T) /\ Len(logs') = Len(logs) + 1 /\ logs'[Len(logs) + 1] = fresh
      /\ \A k \in 1 .. Len(logs) : logs'[k] = logs[k]
  BY <1>2, <1>4, AppendProperties
<1>6. DOMAIN logs' = 1 .. Len(logs') /\ DOMAIN logs = 1 .. Len(logs) /\ Len(logs) \in Nat
      /\ data_send \in 0 .. Len(logs) /\ data_recv' = Len(logs) + 1
  BY <1>1, <1>2, <1>4, <1>5, LenProperties DEF LogsTypeOK
<1>7. data_send' \in 0 .. Len(logs') /\ data_recv' \in 0 .. Len(logs')
  BY <1>2, <1>5, <1>6
<1>8. LogsTypeOK'
  <2>1. LogsTypeOK
    BY <1>1
  <2>2. UNCHANGED <<sync_first, sync_queue, app, ws, connected, con, wire, log, current, log_req,
                    reader, received, view, overtaken, repeated, wiped>>
    BY <1>2
  <2>3. /\ sync_first' \in LinesSent \cup {NoFirst, MovedFirst} /\ sync_queue' \in Seq(LinesSent)
        /\ connected' \in BOOLEAN /\ con' \in 0 .. MaxLosses + 1 /\ current' \in 0 .. con'
        /\ wire' \in [Connections -> Seq(ToServer_)]
        /\ log' \in [Connections -> LinesSent] /\ log_req' \in BOOLEAN
        /\ received' \in Seq(ToReader_) /\ view' \in LinesSent
        /\ {overtaken', repeated', wiped'} \subseteq BOOLEAN
    BY <2>1, <2>2 DEF LogsTypeOK
  <2>. QED  BY <1>3, <1>5, <1>7, <2>1, <2>2, <2>3 DEF LogsTypeOK, T
<1>9. Unsent' = Unsent
  <2>1. data_send # 0 => logs'[data_send] = logs[data_send]
    BY <1>5, <1>6
  <2>. QED  BY <1>2, <2>1 DEF Unsent, NewLines
<1>10. WrittenLogged'
  <2>1. \A k \in DOMAIN logs' : logs'[k].sent <= Len(logs'[k].data)
    <3> SUFFICES ASSUME NEW k \in DOMAIN logs' PROVE logs'[k].sent <= Len(logs'[k].data)
      OBVIOUS
    <3>1. CASE k = Len(logs) + 1
      BY <1>4, <1>5, <3>1
    <3>2. CASE k # Len(logs) + 1
      <4>1. k \in DOMAIN logs /\ logs'[k] = logs[k]
        BY <1>5, <1>6, <3>2
      <4>. QED  BY <1>1, <4>1 DEF WrittenLogged
    <3>. QED  BY <3>1, <3>2
  <2>2. written' = (IF OwnLog' = 0 THEN <<>> ELSE logs'[OwnLog'].data)
    <3>1. CASE data_send = 0
      <4>1. OwnLog' = Len(logs) + 1 /\ OwnLog' # 0
        BY <1>2, <1>6, <3>1 DEF OwnLog
      <4>. QED  BY <1>2, <1>4, <1>5, <3>1, <4>1
    <3>2. CASE data_send # 0
      <4>1. OwnLog' = data_send /\ OwnLog = data_send /\ logs'[data_send] = logs[data_send]
        BY <1>2, <1>5, <1>6, <3>2 DEF OwnLog
      <4>. QED  BY <1>1, <1>2, <3>2, <4>1 DEF WrittenLogged
    <3>. QED  BY <3>1, <3>2
  <2>3. logs'[data_recv'].sent = Len(logs'[data_recv'].data)
    BY <1>4, <1>5, <1>6
  <2>4. Orderly(written', calls'.line)
    BY <1>1, <1>2, <1>3, OrderlyEmpty DEF WrittenLogged
  <2>. QED  BY <2>1, <2>2, <2>3, <2>4 DEF WrittenLogged
<1>11. Behind' = Behind /\ OnTheWay' = OnTheWay
  BY <1>2, <1>9 DEF Behind, Pushing, OnTheWay, OnWire, SendingLines
<1>12. WillLog' = WillLog /\ (written' = written => LogsAgree') /\ ReqUnderWay' /\ ViewAgrees'
  BY <1>2, <1>3, <1>11, SameToCome
<1>13. LogsAgree'
  <2>1. CASE data_send # 0
    BY <1>2, <1>12, <2>1
  <2>2. CASE data_send = 0
    <3> SUFFICES ASSUME sync_first # NoFirst, ~overtaken
                 PROVE  /\ Orderly(WillLog, calls.line) /\ Alike(WillLog, <<>>)
                        /\ Len(WillLog) >= KeptOf(Len(<<>>), KeepLog)
      BY <1>2, <1>3, <1>12, <2>2 DEF LogsAgree
    <3>1. Orderly(WillLog, calls.line)
      BY <1>1 DEF LogsAgree
    <3>2. WillLog \in Seq(Nat)
      BY <1>3, <3>1, OrderlySeq
    <3>3. Alike(WillLog, <<>>)
      BY <3>2 DEF Alike
    <3>4. Len(<<>>) = 0 /\ KeptOf(0, KeepLog) = 0 /\ Len(WillLog) \in Nat
      BY <3>2, LogsAssumption DEF KeptOf
    <3>. QED  BY <3>1, <3>3, <3>4
  <2>. QED  BY <2>1, <2>2
<1>14. FirstLeads'
  BY <1>1, <1>2, FirstLeadsSame
<1>. QED  BY <1>8, <1>10, <1>12, <1>13, <1>14 DEF LogsInv

LEMMA SyncInv ==
    ASSUME LogsInv, Sync PROVE LogsInv'
<1>1. LogsTypeOK /\ WrittenLogged /\ FirstLeads
  BY DEF LogsInv
<1>2. /\ app.pc = "idle" /\ app' = [pc |-> "sync", connected2 |-> connected]
      /\ UNCHANGED <<logs, data_send, data_recv, written, sync_first, sync_queue, ws, connected, con,
                     wire, log, current, log_req, reader, received, view, overtaken, repeated, wiped>>
      /\ UNCHANGED <<log, current, log_req, readerVars, overtaken, repeated, wiped>>
  BY DEF Sync, serverVars, readerVars, logVars
<1>3. calls' \in [line : Nat, sync : Nat, clear : Nat, loss : Nat] /\ calls'.line = calls.line
  BY <1>1, LinesCounted DEF Sync
<1>4. LogsTypeOK'
  <2>1. connected \in BOOLEAN
    BY <1>1 DEF LogsTypeOK
  <2>2. app' \in [pc : {"sync"}, connected2 : BOOLEAN]
    BY <1>2, <2>1
  <2>. QED  BY <1>1, <1>2, <1>3, <2>2 DEF LogsTypeOK
<1>5. WrittenLogged'
  BY <1>1, <1>2, <1>3 DEF WrittenLogged, OwnLog
<1>6. Behind' = Behind /\ OnTheWay' = OnTheWay
  <2>1. Pushing = <<>> /\ Pushing' = <<>>
    BY <1>2 DEF Pushing
  <2>. QED  BY <1>2, <2>1 DEF Behind, Unsent, NewLines, OnTheWay, OnWire, SendingLines
<1>7. LogsAgree' /\ ReqUnderWay' /\ ViewAgrees'
  BY <1>2, <1>3, <1>6, SameToCome
<1>8. FirstLeads'
  BY <1>1, <1>2, FirstLeadsSame
<1>. QED  BY <1>4, <1>5, <1>7, <1>8 DEF LogsInv

\* What sync_first contains anew, if it overtakes nothing.
LEMMA NothingBehind ==
    ASSUME LogsTypeOK, ~Overtakes
    PROVE  InOrder(sync_queue) = <<>> /\ Pushing = <<>>
<1>1. sync_queue \in Seq(LinesSent)
  BY DEF LogsTypeOK
<1>2. \A i \in DOMAIN sync_queue : LinesOf(sync_queue[i]) = <<>>
  BY DEF Overtakes, LinesOf
<1>3. \A i \in DOMAIN EachOf(sync_queue) : EachOf(sync_queue)[i] = <<>>
  BY <1>2 DEF EachOf
<1>4. EachOf(sync_queue) \in Seq(Seq(Nat))
  BY <1>1, EachOfType
<1>5. InOrder(sync_queue) = <<>>
  BY <1>3, <1>4, FlattenEmpty DEF InOrder
<1>6. Pushing = <<>>
  BY DEF Overtakes, Pushing, LinesOf
<1>. QED  BY <1>5, <1>6

\* Then the server is going to have what was written.
LEMMA FirstAgrees ==
    ASSUME LogsInv, written' = written, WillLog' = written, calls'.line = calls.line
    PROVE  /\ Orderly(WillLog', calls'.line) /\ Alike(WillLog', written')
           /\ Len(WillLog') >= KeptOf(Len(written'), KeepLog)
<1>1. Orderly(written, calls.line) /\ calls.line \in Nat
  BY DEF LogsInv, WrittenLogged, LogsTypeOK
<1>2. written \in Seq(Nat)
  BY <1>1, OrderlySeq
<1>3. Alike(written, written)
  BY <1>2, AlikeSame
<1>4. Len(written) \in Nat
  BY <1>2, LenProperties
<1>5. Len(written) >= KeptOf(Len(written), KeepLog)
  BY <1>4, LogsAssumption DEF KeptOf
<1>. QED  BY <1>1, <1>3, <1>5

LEMMA syncDataInv ==
    ASSUME LogsInv, syncData PROVE LogsInv'
<1>1. LogsTypeOK /\ WrittenLogged /\ FirstLeads /\ LogsAgree /\ ViewAgrees
  BY DEF LogsInv
<1>2. /\ app.pc = "sync"
      /\ UNCHANGED <<sync_queue, ws, connected, con, wire, log, current, log_req,
                     reader, received, view, repeated, wiped, calls>>
      /\ UNCHANGED <<log, current, log_req, readerVars, repeated, wiped>>
  BY DEF syncData, serverVars, readerVars
<1>3. TakeAll \/ TakeNew
  BY DEF syncData
<1>4. /\ logs' \in Seq([data : Seq(Nat), sent : Nat])
      /\ data_send' \in 0 .. Len(logs') /\ data_recv' \in 0 .. Len(logs')
      /\ WrittenLogged' /\ written' = written /\ Unsent' = <<>>
      /\ AllOfIt \in LinesSent /\ LinesOf(AllOfIt) = written
      /\ NewOfIt \in LinesSent /\ LinesOf(NewOfIt) = Unsent
  BY <1>1, <1>2, <1>3, Taken
<1> DEFINE T == [data : Seq(Nat), sent : Nat]
<1>5. logs' \in Seq(T) /\ data_send' \in 0 .. Len(logs') /\ data_recv' \in 0 .. Len(logs')
  BY <1>4
<1>6. WillView' = WillView /\ Known' = Known /\ ReqUnderWay'
  BY <1>2, ReadersSideSame
<1>7. Pushing = <<>>
  BY <1>2 DEF Pushing
<1> HIDE DEF T
<1>8. CASE sync_first' = AllOfIt /\ overtaken' = Overtakes /\ app' = [pc |-> "idle"] /\ sync_first = NoFirst
  <2>1. LogsTypeOK'
    <3>1. Overtakes \in BOOLEAN
      BY DEF Overtakes
    <3>2. app' \in [pc : {"idle"}]
      BY <1>8
    <3>3. LogsTypeOK
      BY <1>1
    <3>. QED  BY <1>2, <1>4, <1>5, <1>8, <3>1, <3>2, <3>3 DEF LogsTypeOK, T
  <2>2. AllOfIt \notin {NoFirst, MovedFirst}
    <3>1. NoFirst \notin Seq(Nat) /\ MovedFirst \notin Seq(Nat) /\ NoLog # NoFirst /\ NoLog # MovedFirst
      BY LogsAssumption
    <3>2. AllOfIt \in Seq(Nat) \/ AllOfIt = NoLog
      BY <1>4 DEF LinesSent
    <3>. QED  BY <3>1, <3>2, Zenon
  <2>3. FirstLeads'
    <3>1. sync_first # MovedFirst /\ sync_first' # MovedFirst
      BY <1>8, <2>2, LogsAssumption
    <3>2. UNCHANGED <<ws, connected, con, wire, log, current>>
      BY <1>2
    <3>. QED  BY <1>1, <3>1, <3>2 DEF FirstLeads
  <2>4. LogsAgree'
    <3>1. CASE overtaken'
      BY <3>1 DEF LogsAgree
    <3>2. CASE ~overtaken'
      <4>1. InOrder(sync_queue) = <<>> /\ Pushing' = <<>>
        BY <1>1, <1>8, <3>2, NothingBehind DEF Pushing
      <4>2. Behind' = <<>> \o (<<>> \o <<>>)
        BY <1>2, <1>4, <4>1 DEF Behind
      <4>3. Behind' = <<>>
        BY <4>2
      <4>4. written \in Seq(Nat)
        BY <1>1, OrderlySeq DEF WrittenLogged, LogsTypeOK
      <4>5. WillLog' = written
        <5>1. WillLog' = LinesOf(sync_first') \o Behind'
          BY <1>8, <2>2 DEF WillLog
        <5>. QED  BY <1>4, <1>8, <4>3, <4>4, <5>1, ConcatEmptySeq
      <4>. QED  BY <1>2, <1>4, <4>5, FirstAgrees DEF LogsAgree
    <3>. QED  BY <3>1, <3>2
  <2>5. ViewAgrees'
    BY <1>8, <2>2 DEF ViewAgrees
  <2>. QED  BY <1>4, <1>6, <2>1, <2>3, <2>4, <2>5 DEF LogsInv
<1>9. CASE app' = [pc |-> "push", lines |-> NewOfIt] /\ UNCHANGED <<sync_first, overtaken>>
  <2>1. LogsTypeOK'
    <3>1. app' \in [pc : {"push"}, lines : LinesSent]
      BY <1>4, <1>9
    <3>2. LogsTypeOK
      BY <1>1
    <3>. QED  BY <1>2, <1>5, <1>9, <3>1, <3>2 DEF LogsTypeOK, T
  <2>2. Behind' = Behind /\ OnTheWay' = OnTheWay
    <3>1. Pushing' = Unsent
      BY <1>4, <1>9 DEF Pushing
    <3>2. Unsent \o <<>> = Unsent /\ <<>> \o Unsent = Unsent
      BY <1>1, PiecesType, ConcatEmptySeq
    <3>3. Behind' = Behind
      BY <1>2, <1>4, <1>7, <3>1, <3>2 DEF Behind
    <3>. QED  BY <1>2, <3>3 DEF OnTheWay, OnWire, SendingLines
  <2>3. LogsAgree' /\ ReqUnderWay' /\ ViewAgrees'
    <3>1. UNCHANGED <<log, current, log_req, readerVars, overtaken, repeated, wiped>>
          /\ con' = con /\ sync_first' = sync_first /\ calls'.line = calls.line /\ written' = written
      BY <1>2, <1>4, <1>9
    <3>. QED  BY <2>2, <3>1, SameToCome
  <2>4. FirstLeads'
    BY <1>1, <1>2, <1>9, FirstLeadsSame
  <2>. QED  BY <1>4, <2>1, <2>3, <2>4 DEF LogsInv
<1>. QED  BY <1>8, <1>9 DEF syncData

LEMMA messagePushAlwaysInv ==
    ASSUME LogsInv, messagePushAlways PROVE LogsInv'
<1>1. LogsTypeOK /\ WrittenLogged /\ FirstLeads
  BY DEF LogsInv
<1>2. /\ app.pc = "push" /\ app' = [pc |-> "idle"] /\ sync_queue' = Append(sync_queue, app.lines)
      /\ UNCHANGED <<logs, data_send, data_recv, written, sync_first, ws, connected, con,
                     wire, log, current, log_req, reader, received, view, overtaken, repeated, wiped,
                     calls>>
      /\ UNCHANGED <<log, current, log_req, readerVars, overtaken, repeated, wiped>>
  BY DEF messagePushAlways, serverVars, readerVars, logVars
<1>3. app.lines \in LinesSent /\ sync_queue \in Seq(LinesSent)
  BY <1>1, <1>2 DEF LogsTypeOK
<1>4. sync_queue' \in Seq(LinesSent)
  BY <1>2, <1>3, AppendProperties
<1>5. LogsTypeOK'
  <2>1. app' \in [pc : {"idle"}]
    BY <1>2
  <2>. QED  BY <1>1, <1>2, <1>4, <2>1 DEF LogsTypeOK
<1>6. WrittenLogged'
  BY <1>1, <1>2 DEF WrittenLogged, OwnLog
<1>7. Behind' = Behind /\ OnTheWay' = OnTheWay
  <2> DEFINE a == InOrder(sync_queue)
             b == LinesOf(app.lines)
  <2>1. InOrder(sync_queue') = a \o b
    BY <1>2, <1>3, InOrderAppend
  <2>2. a \in Seq(Nat) /\ b \in Seq(Nat) /\ Unsent \in Seq(Nat)
    BY <1>1, <1>3, PiecesType, LinesType
  <2>3. Pushing = b /\ Pushing' = <<>> /\ Unsent' = Unsent
    BY <1>2 DEF Pushing, Unsent, NewLines
  <2> HIDE DEF a, b
  <2>4. <<>> \o Unsent = Unsent
    BY <2>2, ConcatEmptySeq
  <2>5. (a \o b) \o Unsent = a \o (b \o Unsent)
    BY <2>2, JoinedLines, ZenonT(60)
  <2>6. Behind' = (a \o b) \o Unsent
    BY <2>1, <2>3, <2>4 DEF Behind
  <2>7. Behind = a \o (b \o Unsent)
    BY <2>3 DEF Behind, a
  <2>. QED  BY <1>2, <2>5, <2>6, <2>7 DEF OnTheWay, OnWire, SendingLines
<1>8. LogsAgree' /\ ReqUnderWay' /\ ViewAgrees'
  BY <1>2, <1>7, SameToCome
<1>9. FirstLeads'
  BY <1>1, <1>2, FirstLeadsSame
<1>. QED  BY <1>5, <1>6, <1>8, <1>9 DEF LogsInv

LEMMA ConnectInv ==
    ASSUME LogsInv, Connect PROVE LogsInv'
<1>1. LogsTypeOK /\ WrittenLogged /\ FirstLeads /\ LogsAgree
  BY DEF LogsInv
<1>2. /\ ~connected /\ ws.pc = "top" /\ con < MaxLosses + 1
      /\ connected' = TRUE /\ con' = con + 1 /\ ws' = [pc |-> "first"]
      /\ UNCHANGED <<logs, data_send, data_recv, written, sync_first, sync_queue, app,
                     wire, log, current, log_req, reader, received, view, overtaken, repeated, wiped,
                     calls>>
      /\ UNCHANGED <<log, current, log_req, readerVars>>
  BY DEF Connect, serverVars, readerVars, logVars
<1>3. con \in Nat /\ con + 1 \in Connections /\ current \in 0 .. con /\ con + 1 \in 0 .. MaxLosses + 1
  BY <1>1, <1>2, LogsAssumption DEF LogsTypeOK, Connections
<1>4. LogsTypeOK'
  <2>1. ws' \in [pc : {"top", "first"}] /\ current' \in 0 .. con' /\ con' \in 0 .. MaxLosses + 1
        /\ connected' \in BOOLEAN
    BY <1>2, <1>3
  <2>. QED  BY <1>1, <1>2, <2>1 DEF LogsTypeOK
<1>5. WrittenLogged'
  BY <1>1, <1>2 DEF WrittenLogged, OwnLog
<1>6. sync_first # MovedFirst
  BY <1>1, <1>2 DEF FirstLeads
<1>7. FirstLeads'
  <2>1. log[con + 1] = NoLog /\ wire[con + 1] = <<>> /\ current # con + 1
    BY <1>1, <1>3 DEF FirstLeads
  <2>2. \A c \in Connections : c > con + 1 => log[c] = NoLog /\ wire[c] = <<>>
    <3> SUFFICES ASSUME NEW c \in Connections, c > con + 1 PROVE log[c] = NoLog /\ wire[c] = <<>>
      OBVIOUS
    <3>1. c > con
      BY <1>3, LogsAssumption DEF Connections
    <3>. QED  BY <1>1, <3>1 DEF FirstLeads
  <2>3. ws'.pc = "first" /\ con' > 0
    BY <1>2, <1>3
  <2>4. \A c \in Connections : \A i \in DOMAIN wire[c] :
          IF wire[c][i].kind = "init" THEN i = 1 /\ log[c] = NoLog ELSE wire[c][i].lines # NoLog
    BY <1>1 DEF FirstLeads
  <2>. QED  BY <1>2, <1>6, <2>1, <2>2, <2>3, <2>4 DEF FirstLeads
<1>8. LogsAgree'
  <2>1. WillLog' = WillLog
    BY <1>2, <1>6 DEF WillLog, Behind, Pushing, Unsent, NewLines
  <2>. QED  BY <1>1, <1>2, <2>1 DEF LogsAgree
<1>9. ReqUnderWay'
  BY <1>2, ReadersSideSame
<1>10. ViewAgrees'
  BY <1>2, <1>6 DEF ViewAgrees
<1>. QED  BY <1>4, <1>5, <1>7, <1>8, <1>9, <1>10 DEF LogsInv

\* The first message of a connection takes the place of sync_first.
LEMMA SendFirstInv ==
    ASSUME LogsInv, SendFirst PROVE LogsInv'
<1>1. LogsTypeOK /\ WrittenLogged /\ FirstLeads /\ LogsAgree
  BY DEF LogsInv
<1> DEFINE made == sync_first = NoFirst
           m == [kind |-> "init", lines |-> IF made THEN AllOfIt ELSE sync_first]
           T == [data : Seq(Nat), sent : Nat]
<1>2. /\ ws.pc = "first" /\ ws' = [pc |-> "top"] /\ sync_first' = MovedFirst
      /\ wire' = [wire EXCEPT ![con] = <<m>>]
      /\ UNCHANGED <<sync_queue, app, connected, con, log, current, log_req,
                     reader, received, view, repeated, wiped, calls>>
      /\ UNCHANGED <<log, current, log_req, readerVars>>
  BY DEF SendFirst, serverVars, readerVars
<1>3. IF made THEN TakeAll /\ overtaken' = Overtakes ELSE UNCHANGED <<logVars, overtaken>>
  BY DEF SendFirst
<1>4. connected /\ con \in Connections /\ con > 0 /\ sync_first # MovedFirst /\ log[con] = NoLog
      /\ current # con
  BY <1>1, <1>2, MovedConnected DEF FirstLeads
<1>5. /\ logs' \in Seq(T) /\ data_send' \in 0 .. Len(logs') /\ data_recv' \in 0 .. Len(logs')
      /\ WrittenLogged' /\ written' = written /\ overtaken' \in BOOLEAN
      /\ m.lines \in LinesSent
  <2>1. CASE made
    <3>1. /\ logs' \in Seq([data : Seq(Nat), sent : Nat])
          /\ data_send' \in 0 .. Len(logs') /\ data_recv' \in 0 .. Len(logs')
          /\ WrittenLogged' /\ written' = written /\ AllOfIt \in LinesSent
      BY <1>1, <1>2, <1>3, <2>1, Taken
    <3>2. overtaken' \in BOOLEAN
      BY <1>3, <2>1 DEF Overtakes
    <3>. QED  BY <2>1, <3>1, <3>2
  <2>2. CASE ~made
    <3>1. UNCHANGED <<logs, data_send, data_recv, written, overtaken>>
      BY <1>3, <2>2 DEF logVars
    <3>2. WrittenLogged'
      BY <1>1, <1>2, <3>1 DEF WrittenLogged, OwnLog
    <3>3. m.lines \in LinesSent
      BY <1>1, <1>4, <2>2 DEF LogsTypeOK
    <3>. QED  BY <1>1, <3>1, <3>2, <3>3 DEF LogsTypeOK
  <2>. QED  BY <2>1, <2>2
<1>6. m \in ToServer_ /\ m.kind = "init"
  BY <1>5 DEF ToServer_
<1> HIDE DEF m, T
<1>7. wire' \in [Connections -> Seq(ToServer_)] /\ wire'[con] = <<m>>
      /\ \A c \in Connections : c # con => wire'[c] = wire[c]
  <2>1. wire \in [Connections -> Seq(ToServer_)] /\ <<m>> \in Seq(ToServer_)
    BY <1>1, <1>6 DEF LogsTypeOK
  <2>. QED  BY <1>2, <1>4, <2>1
<1>8. LogsTypeOK'
  <2>1. ws' \in [pc : {"top", "first"}]
    BY <1>2
  <2>2. LogsTypeOK
    BY <1>1
  <2>. QED  BY <1>2, <1>5, <1>7, <2>1, <2>2 DEF LogsTypeOK, T
<1>9. FirstLeads'
  <2>1. ASSUME NEW c \in Connections, NEW i \in DOMAIN wire'[c]
        PROVE  IF wire'[c][i].kind = "init" THEN i = 1 /\ log[c] = NoLog ELSE wire'[c][i].lines # NoLog
    <3>1. CASE c = con
      <4>1. i \in DOMAIN <<m>>
        BY <1>7, <2>1, <3>1
      <4>2. i = 1 /\ <<m>>[i] = m
        BY <4>1
      <4>. QED  BY <1>4, <1>6, <1>7, <3>1, <4>2
    <3>2. CASE c # con
      <4>1. wire'[c] = wire[c]
        BY <1>7, <3>2
      <4>2. i \in DOMAIN wire[c]
        BY <2>1, <4>1
      <4>. QED  BY <1>1, <4>1, <4>2 DEF FirstLeads
    <3>. QED  BY <3>1, <3>2
  <2>2. ASSUME NEW c \in Connections, c > con PROVE log[c] = NoLog /\ wire'[c] = <<>>
    <3>1. c # con
      BY <1>4, <2>2 DEF Connections
    <3>. QED  BY <1>1, <1>7, <2>2, <3>1 DEF FirstLeads
  <2>3. ws'.pc = "top"
    BY <1>2
  <2>. QED  BY <1>2, <1>4, <2>1, <2>2, <2>3 DEF FirstLeads
<1>10. OnWire(con)' = LinesOf(m.lines)
  <2>1. wire'[con'] = <<m>>
    BY <1>2, <1>7
  <2>2. OnWire(con)' = InOrder([i \in DOMAIN <<m>> |-> <<m>>[i].lines])
    BY <2>1 DEF OnWire
  <2>3. <<m>> = Append(<<>>, m) /\ <<>> \in Seq(ToServer_)
    OBVIOUS
  <2>4. InOrder([i \in DOMAIN <<m>> |-> <<m>>[i].lines]) =
           InOrder([i \in DOMAIN <<>> |-> <<>>[i].lines]) \o LinesOf(m.lines)
    BY <1>6, <2>3, OnWireAppend
  <2>5. [i \in DOMAIN <<>> |-> <<>>[i].lines] = <<>>
    OBVIOUS
  <2>6. LinesOf(m.lines) \in Seq(Nat)
    BY <1>5, LinesType
  <2>. QED  BY <2>2, <2>4, <2>5, <2>6, InOrderEmpty, ConcatEmptySeq
<1>11. WillLog' = LinesOf(m.lines) \o Behind'
  <2>1. Behind' \in Seq(Nat) /\ LinesOf(m.lines) \in Seq(Nat)
    <3>1. Pushing \in Seq(Nat) /\ InOrder(sync_queue) \in Seq(Nat) /\ Pushing' = Pushing
      BY <1>1, <1>2, PiecesType DEF Pushing
    <3>2. Unsent' \in Seq(Nat)
      <4>1. CASE made
        BY <1>1, <1>2, <1>3, <4>1, Taken, EmptySeq
      <4>2. CASE ~made
        <5>1. Unsent' = Unsent
          BY <1>3, <4>2 DEF logVars, Unsent, NewLines
        <5>. QED  BY <1>1, <5>1, PiecesType
      <4>. QED  BY <4>1, <4>2
    <3>3. Pushing \o Unsent' \in Seq(Nat)
      BY <3>1, <3>2, ConcatProperties
    <3>4. Behind' = InOrder(sync_queue) \o (Pushing \o Unsent')
      BY <1>2, <3>1 DEF Behind
    <3>5. Behind' \in Seq(Nat)
      BY <3>1, <3>3, <3>4, ConcatProperties
    <3>. QED  BY <1>5, <3>5, LinesType
  <2>2. SendingLines' = <<>>
    BY <1>2 DEF SendingLines
  <2>3. OnTheWay' = LinesOf(m.lines) \o (<<>> \o Behind')
    BY <1>10, <2>2 DEF OnTheWay
  <2>4. <<>> \o Behind' = Behind' /\ LinesOf(m.lines) \o Behind' \in Seq(Nat)
    BY <2>1, ConcatEmptySeq, ConcatProperties
  <2>5. LinesOf(log'[con']) = <<>>
    BY <1>2, <1>4 DEF LinesOf
  <2>6. WillLog' = LinesOf(log'[con']) \o OnTheWay'
    BY <1>2 DEF WillLog
  <2>. QED  BY <2>3, <2>4, <2>5, <2>6, ConcatEmptySeq
<1>12. LogsAgree'
  <2>1. CASE overtaken'
    BY <2>1 DEF LogsAgree
  <2>2. CASE ~overtaken' /\ made
    <3>1. LinesOf(m.lines) = written /\ Unsent' = <<>> /\ written \in Seq(Nat)
      BY <1>1, <1>2, <1>3, <2>2, Taken, OrderlySeq DEF m, WrittenLogged, LogsTypeOK
    <3>2. InOrder(sync_queue) = <<>> /\ Pushing' = <<>>
      BY <1>1, <1>2, <1>3, <2>2, NothingBehind DEF Pushing
    <3>3. Behind' = <<>> \o (<<>> \o <<>>)
      BY <1>2, <3>1, <3>2 DEF Behind
    <3>4. Behind' = <<>>
      BY <3>3
    <3>5. WillLog' = written
      BY <1>11, <3>1, <3>4, ConcatEmptySeq
    <3>. QED  BY <1>2, <1>5, <3>5, FirstAgrees DEF LogsAgree
  <2>3. CASE ~overtaken' /\ ~made
    <3>1. UNCHANGED <<logs, data_send, data_recv, written, overtaken>> /\ m.lines = sync_first
      BY <1>3, <2>3 DEF logVars, m
    <3>2. Behind' = Behind
      BY <1>2, <3>1 DEF Behind, Pushing, Unsent, NewLines
    <3>3. WillLog' = WillLog
      BY <1>4, <1>11, <3>1, <3>2 DEF WillLog
    <3>. QED  BY <1>1, <1>2, <2>3, <3>1, <3>3 DEF LogsAgree
  <2>. QED  BY <2>1, <2>2, <2>3
<1>13. ReqUnderWay'
  BY <1>2, ReadersSideSame
<1>14. ViewAgrees'
  BY <1>2, <1>4 DEF ViewAgrees
<1>. QED  BY <1>5, <1>8, <1>9, <1>12, <1>13, <1>14 DEF LogsInv

LEMMA swapInv ==
    ASSUME LogsInv, swap PROVE LogsInv'
<1>1. LogsTypeOK /\ WrittenLogged /\ FirstLeads
  BY DEF LogsInv
<1>2. /\ connected /\ ws.pc = "top" /\ sync_queue # <<>>
      /\ ws' = [pc |-> "send", queue |-> sync_queue] /\ sync_queue' = <<>>
      /\ UNCHANGED <<logs, data_send, data_recv, written, sync_first, app, connected, con,
                     wire, log, current, log_req, reader, received, view, overtaken, repeated, wiped,
                     calls>>
      /\ UNCHANGED <<log, current, log_req, readerVars, overtaken, repeated, wiped>>
  BY DEF swap, serverVars, readerVars, logVars
<1>3. con \in Connections /\ con > 0 /\ sync_first = MovedFirst
  BY <1>1, <1>2, MovedConnected DEF FirstLeads
<1>4. sync_queue \in Seq(LinesSent) /\ ws' \in [pc : {"send"}, queue : Seq(LinesSent) \ {<<>>}]
      /\ sync_queue' \in Seq(LinesSent)
  BY <1>1, <1>2 DEF LogsTypeOK
<1>5. LogsTypeOK'
  BY <1>1, <1>2, <1>4 DEF LogsTypeOK
<1>6. WrittenLogged'
  BY <1>1, <1>2 DEF WrittenLogged, OwnLog
<1>7. OnTheWay' = OnTheWay
  <2> DEFINE a == InOrder(sync_queue)
             b == Pushing \o Unsent
  <2>1. a \in Seq(Nat) /\ Pushing \in Seq(Nat) /\ Unsent \in Seq(Nat) /\ b \in Seq(Nat)
    BY <1>1, PiecesType, ConcatProperties
  <2>2. SendingLines = <<>> /\ SendingLines' = a /\ InOrder(sync_queue') = <<>>
    BY <1>2, InOrderEmpty DEF SendingLines
  <2>3. Pushing' = Pushing /\ Unsent' = Unsent /\ OnWire(con)' = OnWire(con)
    BY <1>2 DEF Pushing, Unsent, NewLines, OnWire
  <2>4. Behind' = <<>> \o b /\ Behind = a \o b
    BY <2>2, <2>3 DEF Behind
  <2>5. OnTheWay' = OnWire(con) \o (a \o (<<>> \o b)) /\ OnTheWay = OnWire(con) \o (<<>> \o (a \o b))
    BY <2>2, <2>3, <2>4 DEF OnTheWay
  <2> HIDE DEF a, b
  <2>6. <<>> \o b = b /\ a \o b \in Seq(Nat)
    BY <2>1, ConcatEmptySeq, ConcatProperties
  <2>7. <<>> \o (a \o b) = a \o b
    BY <2>6, ConcatEmptySeq
  <2>. QED  BY <2>5, <2>6, <2>7
<1>8. LogsAgree' /\ ReqUnderWay' /\ ViewAgrees'
  BY <1>2, <1>3, <1>7, SameToCome
<1>9. FirstLeads'
  <2>1. ws'.pc = "send"
    BY <1>2
  <2>. QED  BY <1>1, <1>2, <1>3, <2>1 DEF FirstLeads
<1>. QED  BY <1>5, <1>6, <1>8, <1>9 DEF LogsInv

LEMMA sendInv ==
    ASSUME LogsInv, send PROVE LogsInv'
<1>1. LogsTypeOK /\ WrittenLogged /\ FirstLeads
  BY DEF LogsInv
<1> DEFINE l == Head(ws.queue)
           m == [kind |-> "log", lines |-> l]
<1>2. /\ ws.pc = "send"
      /\ wire' = IF l = NoLog THEN wire ELSE [wire EXCEPT ![con] = Append(@, m)]
      /\ ws' = IF Len(ws.queue) = 1 THEN [pc |-> "top"] ELSE [ws EXCEPT !.queue = Tail(@)]
      /\ UNCHANGED <<logs, data_send, data_recv, written, sync_first, sync_queue, app, connected, con,
                     log, current, log_req, reader, received, view, overtaken, repeated, wiped, calls>>
      /\ UNCHANGED <<log, current, log_req, readerVars, overtaken, repeated, wiped>>
  BY DEF send, serverVars, readerVars, logVars
<1>3. connected /\ con \in Connections /\ con > 0 /\ sync_first = MovedFirst
  BY <1>1, <1>2, MovedConnected DEF FirstLeads
<1>4. ws \in [pc : {"send"}, queue : Seq(LinesSent) \ {<<>>}]
  BY <1>1, <1>2 DEF LogsTypeOK
<1>5. ws.queue \in Seq(LinesSent) /\ ws.queue # <<>> /\ l \in LinesSent
      /\ Tail(ws.queue) \in Seq(LinesSent) /\ Len(Tail(ws.queue)) = Len(ws.queue) - 1
      /\ (Len(ws.queue) = 1 <=> Tail(ws.queue) = <<>>)
  <2>1. ws.queue \in Seq(LinesSent) /\ ws.queue # <<>>
    BY <1>4
  <2>2. l \in LinesSent /\ Tail(ws.queue) \in Seq(LinesSent) /\ Len(Tail(ws.queue)) = Len(ws.queue) - 1
    BY <2>1, HeadTailProperties
  <2>3. Len(ws.queue) = 1 <=> Tail(ws.queue) = <<>>
    <3>1. Len(ws.queue) \in Nat /\ Len(Tail(ws.queue)) \in Nat
      BY <2>1, <2>2, LenProperties
    <3>2. Len(Tail(ws.queue)) = 0 <=> Tail(ws.queue) = <<>>
      BY <2>2, EmptySeq
    <3>. QED  BY <2>2, <3>1, <3>2
  <2>. QED  BY <2>1, <2>2, <2>3
<1>6. m \in ToServer_ /\ m.kind = "log" /\ m.lines = l
  BY <1>5 DEF ToServer_
<1> HIDE DEF m, l
<1>7. /\ wire' \in [Connections -> Seq(ToServer_)]
      /\ \A c \in Connections : c # con => wire'[c] = wire[c]
      /\ l # NoLog => wire'[con] = Append(wire[con], m)
      /\ l = NoLog => wire'[con] = wire[con]
      /\ wire[con] \in Seq(ToServer_)
  <2>1. wire \in [Connections -> Seq(ToServer_)] /\ wire[con] \in Seq(ToServer_)
    BY <1>1, <1>3 DEF LogsTypeOK
  <2>2. Append(wire[con], m) \in Seq(ToServer_)
    BY <1>6, <2>1, AppendProperties
  <2>. QED  BY <1>2, <1>3, <2>1, <2>2
<1>8. /\ Len(ws.queue) = 1 => ws' = [pc |-> "top"]
      /\ Len(ws.queue) # 1 => ws' \in [pc : {"send"}, queue : Seq(LinesSent) \ {<<>>}]
                              /\ ws'.queue = Tail(ws.queue) /\ ws'.pc = "send"
  BY <1>2, <1>4, <1>5
<1>9. LogsTypeOK'
  <2>1. ws' \in [pc : {"top", "first"}] \cup [pc : {"send"}, queue : Seq(LinesSent) \ {<<>>}]
    BY <1>8
  <2>2. UNCHANGED <<logs, data_send, data_recv, sync_first, sync_queue, app, connected, con,
                    log, current, log_req, reader, received, view, overtaken, repeated, wiped, calls>>
    BY <1>2
  <2>3. wire' \in [Connections -> Seq(ToServer_)]
    BY <1>7
  <2>. QED  BY <1>1, <2>1, <2>2, <2>3 DEF LogsTypeOK
<1>10. WrittenLogged'
  BY <1>1, <1>2 DEF WrittenLogged, OwnLog
<1>11. FirstLeads'
  <2>1. ASSUME NEW c \in Connections, NEW i \in DOMAIN wire'[c]
        PROVE  IF wire'[c][i].kind = "init" THEN i = 1 /\ log[c] = NoLog ELSE wire'[c][i].lines # NoLog
    <3>1. CASE c = con /\ l # NoLog
      <4>1. wire'[c] = Append(wire[c], m) /\ wire[c] \in Seq(ToServer_)
        BY <1>7, <3>1
      <4>2. CASE i \in DOMAIN wire[c]
        <5>1. wire'[c][i] = wire[c][i]
          BY <1>6, <4>1, <4>2, AppendProperties, LenProperties
        <5>. QED  BY <1>1, <4>2, <5>1 DEF FirstLeads
      <4>3. CASE i \notin DOMAIN wire[c]
        <5>1. wire'[c][i] = m
          <6>1. DOMAIN wire[c] = 1 .. Len(wire[c]) /\ Len(wire[c]) \in Nat
            BY <4>1, LenProperties
          <6>2. wire'[c] \in Seq(ToServer_) /\ Len(wire'[c]) = Len(wire[c]) + 1
                /\ wire'[c][Len(wire[c]) + 1] = m
            BY <1>6, <4>1, AppendProperties
          <6>3. DOMAIN wire'[c] = 1 .. Len(wire'[c])
            BY <6>2, LenProperties
          <6>4. i = Len(wire[c]) + 1
            BY <2>1, <4>3, <6>1, <6>2, <6>3
          <6>. QED  BY <6>2, <6>4
        <5>. QED  BY <1>6, <3>1, <5>1
      <4>. QED  BY <4>2, <4>3
    <3>2. CASE c # con \/ l = NoLog
      <4>1. wire'[c] = wire[c]
        BY <1>7, <3>2
      <4>2. i \in DOMAIN wire[c]
        BY <2>1, <4>1
      <4>. QED  BY <1>1, <4>1, <4>2 DEF FirstLeads
    <3>. QED  BY <3>1, <3>2
  <2>2. ASSUME NEW c \in Connections, c > con PROVE log[c] = NoLog /\ wire'[c] = <<>>
    <3>1. c # con
      BY <1>3, <2>2 DEF Connections
    <3>. QED  BY <1>1, <1>7, <2>2, <3>1 DEF FirstLeads
  <2>3. ws'.pc # "first"
    BY <1>8
  <2>. QED  BY <1>1, <1>2, <1>3, <2>1, <2>2, <2>3 DEF FirstLeads
<1>12. OnTheWay' = OnTheWay
  <2> DEFINE w == OnWire(con)
             t == InOrder(Tail(ws.queue))
             k == LinesOf(l)
  <2>1. w \in Seq(Nat) /\ Behind \in Seq(Nat)
    BY <1>1, <1>3, PiecesType
  <2>2. t \in Seq(Nat) /\ k \in Seq(Nat)
    BY <1>5, EachOfType, LinesType
  <2>3. SendingLines = k \o t
    <3>1. SendingLines = InOrder(ws.queue)
      BY <1>2 DEF SendingLines
    <3>2. InOrder(ws.queue) = LinesOf(Head(ws.queue)) \o InOrder(Tail(ws.queue))
      BY <1>5, InOrderHead
    <3>. QED  BY <3>1, <3>2 DEF l
  <2>4. SendingLines' = t
    <3>1. CASE Len(ws.queue) = 1
      <4>1. ws'.pc = "top" /\ Tail(ws.queue) = <<>>
        BY <1>5, <1>8, <3>1
      <4>. QED  BY <4>1, InOrderEmpty DEF SendingLines
    <3>2. CASE Len(ws.queue) # 1
      <4>1. ws'.pc = "send" /\ ws'.queue = Tail(ws.queue)
        BY <1>8, <3>2
      <4>. QED  BY <4>1 DEF SendingLines
    <3>. QED  BY <3>1, <3>2
  <2>5. Behind' = Behind
    BY <1>2 DEF Behind, Pushing, Unsent, NewLines
  <2>6. OnWire(con)' = w \o k
    <3>1. CASE l = NoLog
      <4>1. OnWire(con)' = w
        BY <1>2, <1>7, <3>1 DEF OnWire
      <4>2. k = <<>>
        BY <3>1 DEF LinesOf
      <4>. QED  BY <2>1, <4>1, <4>2, ConcatEmptySeq
    <3>2. CASE l # NoLog
      <4>1. OnWire(con)' = InOrder([i \in DOMAIN Append(wire[con], m) |-> Append(wire[con], m)[i].lines])
        BY <1>2, <1>7, <3>2 DEF OnWire
      <4>2. OnWire(con)' = w \o LinesOf(m.lines)
        BY <1>6, <1>7, <4>1, OnWireAppend DEF OnWire
      <4>. QED  BY <1>6, <4>2
    <3>. QED  BY <3>1, <3>2
  <2>7. OnTheWay' = (w \o k) \o (t \o Behind) /\ OnTheWay = w \o ((k \o t) \o Behind)
    BY <2>3, <2>4, <2>5, <2>6 DEF OnTheWay
  <2> HIDE DEF w, t, k
  <2>8. t \o Behind \in Seq(Nat)
    BY <2>1, <2>2, ConcatProperties
  <2>9. (k \o t) \o Behind = k \o (t \o Behind)
    BY <2>1, <2>2, JoinedLines, ZenonT(60)
  <2>10. (w \o k) \o (t \o Behind) = w \o (k \o (t \o Behind))
    BY <2>1, <2>2, <2>8, JoinedLines, ZenonT(60)
  <2>. QED  BY <2>7, <2>9, <2>10
<1>13. LogsAgree' /\ ReqUnderWay' /\ ViewAgrees'
  BY <1>2, <1>3, <1>12, SameToCome
<1>. QED  BY <1>9, <1>10, <1>11, <1>13 DEF LogsInv

LEMMA DisconnectInv ==
    ASSUME LogsInv, Disconnect PROVE LogsInv'
<1>1. LogsTypeOK /\ WrittenLogged /\ FirstLeads
  BY DEF LogsInv
<1>2. /\ connected /\ ws.pc \in {"top", "send"}
      /\ connected' = FALSE /\ sync_first' = NoFirst /\ ws' = [pc |-> "top"]
      /\ UNCHANGED <<logs, data_send, data_recv, written, sync_queue, app, con, log, current, log_req,
                     reader, received, view, overtaken, repeated, wiped>>
      /\ UNCHANGED <<log, current, log_req, readerVars>>
  BY DEF Disconnect, readerVars, logVars
<1>3. calls' \in [line : Nat, sync : Nat, clear : Nat, loss : Nat] /\ calls'.line = calls.line
  BY <1>1, LinesCounted DEF Disconnect
<1>4. con \in Connections /\ NoFirst # MovedFirst
  BY <1>1, <1>2, MovedConnected, LogsAssumption
<1>5. PICK k \in 0 .. Len(wire[con]) : wire' = [wire EXCEPT ![con] = SubSeq(@, 1, k)]
  BY DEF Disconnect
<1> DEFINE p == SubSeq(wire[con], 1, k)
<1>6. /\ p \in Seq(ToServer_) /\ DOMAIN p \subseteq DOMAIN wire[con]
      /\ \A i \in DOMAIN p : p[i] = wire[con][i]
  <2>1. wire[con] \in Seq(ToServer_)
    BY <1>1, <1>4 DEF LogsTypeOK
  <2>2. DOMAIN wire[con] = 1 .. Len(wire[con]) /\ Len(wire[con]) \in Nat
        /\ \A i \in 1 .. Len(wire[con]) : wire[con][i] \in ToServer_
    BY <2>1, LenProperties, ElementOfSeq
  <2>3. k \in Nat /\ \A i \in 1 .. k : wire[con][i] \in ToServer_
    BY <2>2
  <2>4. /\ p \in Seq(ToServer_) /\ Len(p) = (IF 1 <= k THEN k - 1 + 1 ELSE 0)
        /\ \A i \in 1 .. k - 1 + 1 : p[i] = wire[con][1 + i - 1]
    BY <2>3, SubSeqProperties
  <2> HIDE DEF p
  <2>5. DOMAIN p = 1 .. k
    BY <2>3, <2>4, LenProperties
  <2>6. \A i \in 1 .. k : i \in DOMAIN wire[con] /\ p[i] = wire[con][i]
    <3> SUFFICES ASSUME NEW i \in 1 .. k PROVE i \in DOMAIN wire[con] /\ p[i] = wire[con][i]
      OBVIOUS
    <3>1. i \in 1 .. k - 1 + 1 /\ 1 + i - 1 = i /\ i \in 1 .. Len(wire[con])
      BY <2>2, <2>3
    <3>. QED  BY <2>2, <2>4, <3>1
  <2>. QED  BY <2>4, <2>5, <2>6
<1> HIDE DEF p
<1>7. wire' \in [Connections -> Seq(ToServer_)] /\ wire'[con] = p
      /\ \A c \in Connections : c # con => wire'[c] = wire[c]
  <2>1. wire \in [Connections -> Seq(ToServer_)]
    BY <1>1 DEF LogsTypeOK
  <2>. QED  BY <1>4, <1>5, <1>6, <2>1 DEF p
<1>8. LogsTypeOK'
  <2>1. /\ ws' \in [pc : {"top", "first"}] /\ connected' \in BOOLEAN
        /\ sync_first' \in LinesSent \cup {NoFirst, MovedFirst}
    BY <1>2
  <2>2. UNCHANGED <<logs, data_send, data_recv, sync_queue, app, con, log, current, log_req,
                    reader, received, view, overtaken, repeated, wiped>>
    BY <1>2
  <2>3. wire' \in [Connections -> Seq(ToServer_)]
    BY <1>7
  <2>. QED  BY <1>1, <1>3, <2>1, <2>2, <2>3 DEF LogsTypeOK
<1>9. WrittenLogged'
  BY <1>1, <1>2, <1>3 DEF WrittenLogged, OwnLog
<1>10. FirstLeads'
  <2>1. ASSUME NEW c \in Connections, NEW i \in DOMAIN wire'[c]
        PROVE  IF wire'[c][i].kind = "init" THEN i = 1 /\ log[c] = NoLog ELSE wire'[c][i].lines # NoLog
    <3>1. i \in DOMAIN wire[c] /\ wire'[c][i] = wire[c][i]
      BY <1>6, <1>7, <2>1
    <3>. QED  BY <1>1, <3>1 DEF FirstLeads
  <2>2. ASSUME NEW c \in Connections, c > con PROVE log[c] = NoLog /\ wire'[c] = <<>>
    <3>1. c # con
      BY <1>4, <2>2 DEF Connections
    <3>. QED  BY <1>1, <1>7, <2>2, <3>1 DEF FirstLeads
  <2>3. ws'.pc = "top"
    BY <1>2
  <2>. QED  BY <1>2, <1>4, <2>1, <2>2, <2>3 DEF FirstLeads
<1>11. LogsAgree' /\ ViewAgrees'
  BY <1>2, <1>4 DEF LogsAgree, ViewAgrees
<1>12. ReqUnderWay'
  BY <1>2, ReadersSideSame
<1>. QED  BY <1>8, <1>9, <1>10, <1>11, <1>12 DEF LogsInv

(* The steps of the reader. *)

ReaderSet == [req : BOOLEAN, first : {"req", "empty", NoFirst, MovedFirst}, queue : Nat,
              pc : {"idle", "request", "push"}, connected : BOOLEAN]

LEMMA ReadersFrame ==
    ASSUME LogsInv, UNCHANGED <<writerVars, wire, log, current, overtaken>>, calls'.line = calls.line
    PROVE  /\ OnTheWay' = OnTheWay /\ Known' = Known /\ WillLog' = WillLog
           /\ WrittenLogged' /\ FirstLeads' /\ LogsAgree'
<1>1. UNCHANGED <<logs, data_send, data_recv, written, sync_first, sync_queue, app, ws, connected, con,
                  wire, log, current, overtaken>>
  BY DEF writerVars, logVars
<1>2. Behind' = Behind
  BY <1>1 DEF Behind, Pushing, Unsent, NewLines
<1>3. OnTheWay' = OnTheWay /\ Known' = Known
  BY <1>1, <1>2 DEF OnTheWay, OnWire, SendingLines, Known
<1>4. WillLog' = WillLog
  BY <1>1, <1>2, <1>3 DEF WillLog
<1>5. WrittenLogged'
  BY <1>1 DEF LogsInv, WrittenLogged, OwnLog
<1>6. FirstLeads'
  BY <1>1, FirstLeadsSame DEF LogsInv
<1>7. LogsAgree'
  BY <1>1, <1>4 DEF LogsInv, LogsAgree
<1>. QED  BY <1>3, <1>4, <1>5, <1>6, <1>7

LEMMA ReadersTypeOK ==
    ASSUME LogsInv, UNCHANGED <<writerVars, wire, log, current, overtaken>>,
           calls' \in [line : Nat, sync : Nat, clear : Nat, loss : Nat], log_req' \in BOOLEAN,
           reader' \in ReaderSet, received' \in Seq(ToReader_), view' \in LinesSent,
           repeated' \in BOOLEAN, wiped' \in BOOLEAN
    PROVE  LogsTypeOK'
<1>1. UNCHANGED <<logs, data_send, data_recv, sync_first, sync_queue, app, ws, connected, con,
                  wire, log, current, overtaken>>
  BY DEF writerVars, logVars
<1>. QED  BY <1>1 DEF LogsInv, LogsTypeOK, ReaderSet

\* The variables that the reader's side is about.
LEMMA ReadersType ==
    ASSUME LogsInv
    PROVE  /\ reader \in ReaderSet /\ received \in Seq(ToReader_) /\ view \in LinesSent
           /\ log_req \in BOOLEAN /\ repeated \in BOOLEAN /\ wiped \in BOOLEAN
           /\ calls \in [line : Nat, sync : Nat, clear : Nat, loss : Nat] /\ calls.line \in Nat
           /\ KeepLog \in Int /\ KeepLines \in Int /\ NoFirst # MovedFirst
BY LogsAssumption DEF LogsInv, LogsTypeOK, ReaderSet

\* What the reader asks for does not change what it is going to have.
LEMMA AskingInv ==
    ASSUME LogsInv, UNCHANGED <<writerVars, serverVars, received, view, overtaken, repeated, wiped, calls>>,
           reader' \in ReaderSet, reader'.connected = reader.connected,
           reader'.connected => reader'.first = MovedFirst,
           reader'.req => \/ reader'.pc # "idle" \/ reader'.queue > 0
                          \/ IF reader'.connected THEN log_req ELSE reader'.first \in {NoFirst, "req"}
    PROVE  LogsInv'
<1>1. /\ UNCHANGED <<writerVars, wire, log, current, log_req, received, view, overtaken, repeated, wiped, calls>>
      /\ UNCHANGED <<sync_first, con>>
  BY DEF serverVars, writerVars
<1>2. /\ OnTheWay' = OnTheWay /\ Known' = Known /\ WrittenLogged' /\ FirstLeads' /\ LogsAgree'
  BY <1>1, ReadersFrame
<1>3. LogsTypeOK'
  BY <1>1, ReadersType, ReadersTypeOK
<1>4. WillView' = WillView
  BY <1>1 DEF WillView
<1>5. ReqUnderWay'
  BY <1>1, <1>4 DEF LogsInv, ReqUnderWay
<1>6. ViewAgrees'
  BY <1>1, <1>2, <1>4 DEF LogsInv, ViewAgrees
<1>. QED  BY <1>2, <1>3, <1>5, <1>6 DEF LogsInv

LEMMA requestInv_ ==
    ASSUME LogsInv, request \/ messagePushReq \/ pushReq \/ syncReader PROVE LogsInv'
<1>1. /\ reader \in ReaderSet /\ NoFirst # MovedFirst
      /\ reader.connected => reader.first = MovedFirst
      /\ reader.req => \/ reader.pc # "idle" \/ reader.queue > 0
                       \/ IF reader.connected THEN log_req ELSE reader.first \in {NoFirst, "req"}
  BY ReadersType DEF LogsInv, ReqUnderWay
<1>2. UNCHANGED <<writerVars, serverVars, received, view, overtaken, repeated, wiped, calls>>
  BY DEF request, messagePushReq, pushReq, syncReader
<1>3. CASE request
  BY <1>1, <1>2, <1>3, AskingInv DEF request, ReaderSet
<1>4. CASE messagePushReq
  <2>1. \/ reader' = [reader EXCEPT !.pc = "push"]
        \/ reader' = [reader EXCEPT !.pc = "idle"] /\ reader.first = NoFirst
    <3> DEFINE p == IF reader.first # NoFirst THEN "push" ELSE "idle"
    <3>1. reader' = [reader EXCEPT !.pc = p]
      BY <1>4 DEF messagePushReq
    <3>2. p = "push" \/ (p = "idle" /\ reader.first = NoFirst)
      OBVIOUS
    <3> HIDE DEF p
    <3>. QED  BY <3>1, <3>2
  <2>2. /\ reader' \in ReaderSet /\ reader'.connected = reader.connected
        /\ reader'.connected => reader'.first = MovedFirst
    BY <1>1, <2>1 DEF ReaderSet
  <2>3. reader'.req => \/ reader'.pc # "idle" \/ reader'.queue > 0
                       \/ IF reader'.connected THEN log_req ELSE reader'.first \in {NoFirst, "req"}
    <3>1. CASE reader' = [reader EXCEPT !.pc = "push"]
      BY <1>1, <3>1 DEF ReaderSet
    <3>2. CASE reader' = [reader EXCEPT !.pc = "idle"] /\ reader.first = NoFirst
      <4>1. ~reader.connected
        BY <1>1, <3>2
      <4>2. reader'.connected = reader.connected /\ reader'.first = reader.first
        BY <1>1, <3>2 DEF ReaderSet
      <4>. QED  BY <3>2, <4>1, <4>2
    <3>. QED  BY <2>1, <3>1, <3>2
  <2>. QED  BY <1>2, <2>2, <2>3, AskingInv
<1>5. CASE pushReq
  <2> DEFINE n == reader.queue + 1
  <2>1. reader' = [reader EXCEPT !.pc = "idle", !.queue = n] /\ n \in Nat /\ n > 0
    <3>1. reader' = [reader EXCEPT !.pc = "idle", !.queue = n]
      BY <1>1, <1>5 DEF pushReq, ReaderSet
    <3>. QED  BY <1>1, <3>1 DEF ReaderSet
  <2> HIDE DEF n
  <2>2. reader' \in ReaderSet /\ reader'.connected = reader.connected /\ reader'.first = reader.first
        /\ reader'.queue > 0
    BY <1>1, <2>1 DEF ReaderSet
  <2>. QED  BY <1>1, <1>2, <2>2, AskingInv
<1>6. CASE syncReader
  BY <1>1, <1>2, <1>6, AskingInv DEF syncReader, ReaderSet
<1>. QED  BY <1>3, <1>4, <1>5, <1>6

\* What the server answers adds the log as it is.
LEMMA Answered ==
    ASSUME LogsTypeOK, NEW v \in LinesSent, NEW r \in Seq(ToReader_)
    PROVE  /\ r \o Answer \in Seq(ToReader_) /\ Known \in Seq(Nat)
           /\ ViewAfter(v, r \o Answer) = ViewAfter(v, r) \o Known
<1>1. current # 0 => current \in Connections
  BY LogsAssumption DEF LogsTypeOK, Connections
<1>2. ViewAfter(v, r) \in Seq(Nat)
  BY ViewAfterType
<1>3. CASE Answer = <<>>
  <2>1. Known = <<>>
    <3>1. current # 0 => log[current] \in LinesSent
      BY <1>1 DEF LogsTypeOK
    <3>2. Answer # <<Res(log[current])>>
      BY <1>3
    <3>. QED  BY <3>2 DEF Known, LinesOf, Answer
  <2>. QED  BY <1>2, <1>3, <2>1, ConcatEmptySeq, EmptySeq
<1>4. CASE Answer # <<>>
  <2>1. current # 0 /\ log[current] # NoLog /\ Answer = <<Res(log[current])>>
    BY <1>4 DEF Answer
  <2>2. log[current] \in Seq(Nat)
    BY <1>1, <2>1 DEF LogsTypeOK, LinesSent
  <2>3. Known = log[current]
    BY <2>1 DEF Known, LinesOf
  <2>4. Res(log[current]) \in ToReader_
        /\ ViewAfter(v, Append(r, Res(log[current]))) = ViewAfter(v, r) \o log[current]
    BY <2>2, ViewAfterRes
  <2>5. r \o Answer = Append(r, Res(log[current]))
    BY <2>1, <2>4, AppendIsConcat
  <2>6. Append(r, Res(log[current])) \in Seq(ToReader_)
    BY <2>4, AppendProperties
  <2>. QED  BY <2>2, <2>3, <2>4, <2>5, <2>6
<1>. QED  BY <1>3, <1>4

\* A reader that is going to have what the server has agrees with it.
LEMMA ViewKnown ==
    ASSUME LogsInv, UNCHANGED <<writerVars, wire, log, current, overtaken>>, calls'.line = calls.line,
           WillView' = Known
    PROVE  ViewAgrees'
<1>1. /\ OnTheWay' = OnTheWay /\ Known' = Known /\ WillLog' = WillLog /\ LogsAgree'
  BY ReadersFrame
<1>2. SUFFICES ASSUME sync_first' = MovedFirst, ~overtaken', current' = con'
               PROVE  /\ Orderly(WillView' \o OnTheWay', calls'.line) /\ Alike(WillView', Known')
                      /\ Len(WillView') >= KeptOf(Len(Known'), KeepLines)
  BY DEF ViewAgrees
<1>3. sync_first = MovedFirst /\ current = con /\ con > 0
  <2>1. UNCHANGED <<sync_first, current, con>>
    BY DEF writerVars
  <2>. QED  BY <1>2, <2>1, MovedConnected
<1>4. WillLog = Known \o OnTheWay
  <2>1. con # 0
    BY <1>3 DEF LogsInv, LogsTypeOK
  <2>. QED  BY <1>3, <2>1 DEF WillLog, Known
<1>5. Orderly(WillLog', calls'.line)
  BY <1>1, <1>2, LogsAssumption DEF LogsAgree
<1>6. Known \in Seq(Nat) /\ KeepLines \in Int /\ Len(Known) \in Nat
  BY PiecesType, LogsAssumption, LenProperties DEF LogsInv
<1>7. KeptOf(Len(Known), KeepLines) <= Len(Known)
  BY <1>6 DEF KeptOf
<1>8. Orderly(WillView' \o OnTheWay', calls'.line)
  BY <1>1, <1>4, <1>5
<1>9. Alike(WillView', Known')
  BY <1>1, <1>6, AlikeSame
<1>10. Len(WillView') >= KeptOf(Len(Known'), KeepLines)
  BY <1>1, <1>6, <1>7 DEF KeptOf
<1>. QED  BY <1>8, <1>9, <1>10

LEMMA connectReaderInv ==
    ASSUME LogsInv, connectReader PROVE LogsInv'
<1>1. /\ reader \in ReaderSet /\ ~reader.connected
      /\ reader' = [reader EXCEPT !.connected = TRUE, !.first = MovedFirst]
      /\ log_req' = (IF reader.first = NoFirst THEN reader.req ELSE reader.first = "req")
      /\ repeated' = FALSE /\ wiped' = FALSE
      /\ UNCHANGED <<writerVars, wire, log, current, view, overtaken, calls>>
      /\ UNCHANGED <<writerVars, wire, log, current, overtaken>>
      /\ received \in Seq(ToReader_) /\ view \in LinesSent /\ calls'.line = calls.line
  BY ReadersType DEF connectReader
<1> DEFINE r == received \o (IF current # 0 THEN <<Init_>> ELSE <<>>)
<1>2. received' = r \o (IF log_req' THEN Answer ELSE <<>>)
  BY DEF connectReader
<1>3. r \in Seq(ToReader_) /\ (current # 0 => ViewAfter(view, r) = <<>>)
  <2>1. Init_ \in ToReader_ /\ ViewAfter(view, Append(received, Init_)) = <<>>
    BY <1>1, ViewAfterInit
  <2>2. Append(received, Init_) = received \o <<Init_>> /\ Append(received, Init_) \in Seq(ToReader_)
    BY <1>1, <2>1, AppendIsConcat, AppendProperties
  <2>3. received \o <<>> = received
    BY <1>1, ConcatEmptySeq
  <2>. QED  BY <1>1, <2>1, <2>2, <2>3
<1> HIDE DEF r
<1>4. received' = IF log_req' THEN r \o Answer ELSE r
  BY <1>2, <1>3, ConcatEmptySeq
<1>5. LogsTypeOK /\ Known \in Seq(Nat)
  BY PiecesType DEF LogsInv
<1>6. r \o Answer \in Seq(ToReader_) /\ ViewAfter(view, r \o Answer) = ViewAfter(view, r) \o Known
  BY <1>1, <1>3, <1>5, Answered
<1>7. /\ WrittenLogged' /\ FirstLeads' /\ LogsAgree'
  BY <1>1, ReadersFrame
<1>8. reader' \in ReaderSet /\ reader'.connected /\ reader'.first = MovedFirst
      /\ reader'.req = reader.req /\ reader'.pc = reader.pc /\ reader'.queue = reader.queue
  BY <1>1 DEF ReaderSet
<1>9. log_req' \in BOOLEAN
  <2>1. reader.req \in BOOLEAN
    BY <1>1 DEF ReaderSet
  <2>. QED  BY <1>1, <2>1
<1>10. LogsTypeOK'
  <2>1. received' \in Seq(ToReader_) /\ view' \in LinesSent /\ repeated' \in BOOLEAN /\ wiped' \in BOOLEAN
    BY <1>1, <1>3, <1>4, <1>6
  <2>2. calls' \in [line : Nat, sync : Nat, clear : Nat, loss : Nat]
    BY <1>1, ReadersType
  <2>. QED  BY <1>1, <1>8, <1>9, <2>1, <2>2, ReadersTypeOK
<1>11. ReqUnderWay'
  <2>1. reader.req => reader.pc # "idle" \/ reader.queue > 0 \/ reader.first \in {NoFirst, "req"}
    BY <1>1 DEF LogsInv, ReqUnderWay
  <2>2. reader'.req => \/ reader'.pc # "idle" \/ reader'.queue > 0
                       \/ IF reader'.connected THEN log_req' ELSE reader'.first \in {NoFirst, "req"}
    BY <1>1, <1>8, <2>1
  <2>3. reader'.connected /\ ~log_req' /\ current' # 0 => WillView' = <<>>
    BY <1>1, <1>3, <1>4 DEF WillView
  <2>. QED  BY <1>8, <2>2, <2>3 DEF ReqUnderWay
<1>12. ViewAgrees'
  <2>1. CASE ~log_req' \/ current' = 0
    <3>1. sync_first' = MovedFirst => con' > 0
      <4>1. UNCHANGED <<sync_first, con>>
        BY <1>1 DEF writerVars
      <4>. QED  BY <4>1, MovedConnected
    <3>. QED  BY <2>1, <3>1 DEF ViewAgrees
  <2>2. CASE log_req' /\ current' # 0
    <3>1. WillView' = ViewAfter(view, r) \o Known
      BY <1>1, <1>4, <1>6, <2>2 DEF WillView
    <3>2. ViewAfter(view, r) = <<>>
      BY <1>1, <1>3, <2>2
    <3>3. WillView' = Known
      BY <1>5, <3>1, <3>2, ConcatEmptySeq
    <3>. QED  BY <1>1, <3>3, ViewKnown
  <2>. QED  BY <2>1, <2>2
<1>. QED  BY <1>7, <1>10, <1>11, <1>12 DEF LogsInv

LEMMA sendReqInv ==
    ASSUME LogsInv, sendReq PROVE LogsInv'
<1>1. /\ reader \in ReaderSet /\ reader.connected /\ reader.queue > 0
      /\ reader' = [reader EXCEPT !.queue = @ - 1] /\ log_req' = TRUE
      /\ received' = received \o Answer
      /\ repeated' = (repeated \/ (log_req /\ Answer # <<>>))
      /\ UNCHANGED <<writerVars, wire, log, current, view, overtaken, wiped, calls>>
      /\ UNCHANGED <<writerVars, wire, log, current, overtaken>>
      /\ received \in Seq(ToReader_) /\ view \in LinesSent /\ calls'.line = calls.line
  BY ReadersType DEF sendReq
<1>2. LogsTypeOK /\ Known \in Seq(Nat) /\ WillView \in Seq(Nat)
  BY PiecesType DEF LogsInv
<1>3. received' \in Seq(ToReader_) /\ WillView' = WillView \o Known
  BY <1>1, <1>2, Answered DEF WillView
<1>4. /\ OnTheWay' = OnTheWay /\ Known' = Known /\ WrittenLogged' /\ FirstLeads' /\ LogsAgree'
  BY <1>1, ReadersFrame
<1>5. reader' \in ReaderSet /\ reader'.connected /\ reader'.first = reader.first
  BY <1>1 DEF ReaderSet
<1>6. LogsTypeOK'
  <2>1. view' \in LinesSent /\ wiped' \in BOOLEAN /\ repeated' \in BOOLEAN /\ log_req' \in BOOLEAN
    BY <1>1, ReadersType
  <2>2. calls' \in [line : Nat, sync : Nat, clear : Nat, loss : Nat]
    BY <1>1, ReadersType
  <2>. QED  BY <1>1, <1>3, <1>5, <2>1, <2>2, ReadersTypeOK
<1>7. ReqUnderWay'
  BY <1>1, <1>5 DEF LogsInv, ReqUnderWay
<1>8. ViewAgrees'
  <2>1. CASE repeated' \/ sync_first' # MovedFirst \/ current' # con'
    BY <2>1 DEF ViewAgrees
  <2>2. CASE ~repeated' /\ log_req /\ sync_first' = MovedFirst /\ current' = con'
    <3>1. ~repeated /\ Answer = <<>>
      BY <1>1, <2>2
    <3>2. WillView' = WillView
      BY <1>1, <3>1, ConcatEmptySeq DEF WillView
    <3>3. UNCHANGED <<sync_first, con, current, overtaken, wiped>>
      BY <1>1 DEF writerVars
    <3>4. ViewAgrees
      BY DEF LogsInv
    <3>. QED  BY <1>1, <1>4, <2>2, <3>1, <3>2, <3>3, <3>4 DEF ViewAgrees
  <2>3. CASE ~log_req /\ sync_first' = MovedFirst /\ current' = con'
    <3>1. UNCHANGED <<sync_first, con, current>>
      BY <1>1 DEF writerVars
    <3>2. current # 0
      BY <2>3, <3>1, MovedConnected
    <3>3. WillView = <<>>
      BY <1>1, <2>3, <3>2 DEF LogsInv, ReqUnderWay
    <3>4. WillView' = Known
      BY <1>2, <1>3, <3>3, ConcatEmptySeq
    <3>. QED  BY <1>1, <3>4, ViewKnown
  <2>. QED  BY <2>1, <2>2, <2>3
<1>. QED  BY <1>4, <1>6, <1>7, <1>8 DEF LogsInv

\* The beginning of some messages.
LEMMA FirstOfThem ==
    ASSUME NEW S, NEW q \in Seq(S), NEW k \in 0 .. Len(q) PROVE SubSeq(q, 1, k) \in Seq(S)
<1>1. Len(q) \in Nat /\ \A i \in 1 .. Len(q) : q[i] \in S
  BY LenProperties, ElementOfSeq
<1>2. \A i \in 1 .. k : q[i] \in S
  BY <1>1
<1>3. k \in Int
  BY <1>1
<1>. QED  BY <1>2, <1>3, SubSeqProperties

LEMMA disconnectReaderInv ==
    ASSUME LogsInv, disconnectReader PROVE LogsInv'
<1>1. /\ reader \in ReaderSet
      /\ UNCHANGED <<writerVars, serverVars, view, overtaken, repeated, wiped>>
      /\ received \in Seq(ToReader_)
  BY ReadersType DEF disconnectReader
<1>2. UNCHANGED <<writerVars, wire, log, current, overtaken>> /\ UNCHANGED <<log_req, current>>
  BY <1>1 DEF serverVars
<1>3. calls' \in [line : Nat, sync : Nat, clear : Nat, loss : Nat] /\ calls'.line = calls.line
  BY LinesCounted DEF disconnectReader, LogsInv
<1>4. PICK n \in 0 .. reader.queue :
        reader' = [reader EXCEPT !.connected = FALSE, !.first = NoFirst, !.queue = n]
  BY DEF disconnectReader
<1>5. reader' \in ReaderSet /\ ~reader'.connected /\ reader'.first = NoFirst
  <2>1. n \in Nat
    BY <1>1 DEF ReaderSet
  <2>. QED  BY <1>1, <1>4, <2>1 DEF ReaderSet
<1>6. PICK k \in 0 .. Len(received) : received' = SubSeq(received, 1, k)
  BY DEF disconnectReader
<1>7. received' \in Seq(ToReader_)
  BY <1>1, <1>6, FirstOfThem
<1>8. WrittenLogged' /\ FirstLeads' /\ LogsAgree'
  BY <1>2, <1>3, ReadersFrame
<1>9. LogsTypeOK'
  <2>1. view' \in LinesSent /\ wiped' \in BOOLEAN /\ repeated' \in BOOLEAN /\ log_req' \in BOOLEAN
    BY <1>1, <1>2, ReadersType
  <2>. QED  BY <1>2, <1>3, <1>5, <1>7, <2>1, ReadersTypeOK
<1>10. ReqUnderWay' /\ ViewAgrees'
  BY <1>5 DEF ReqUnderWay, ViewAgrees
<1>. QED  BY <1>8, <1>9, <1>10 DEF LogsInv

\* What the reader is going to have loses lines at its beginning only.
LEMMA ViewShortens ==
    ASSUME LogsInv, UNCHANGED <<writerVars, serverVars, reader, overtaken, repeated>>,
           calls'.line = calls.line, WillView' \in Seq(Nat),
           NEW d \in Seq(Nat), WillView = d \o WillView',
           wiped' \/ (wiped' = wiped /\ Len(WillView') >= KeptOf(Len(WillView), KeepLines))
    PROVE  ReqUnderWay' /\ ViewAgrees'
<1>1. UNCHANGED <<writerVars, wire, log, current, log_req, reader, overtaken, repeated, sync_first, con>>
  BY DEF serverVars, writerVars
<1>2. OnTheWay' = OnTheWay /\ Known' = Known
  BY <1>1, ReadersFrame
<1>3. Len(WillView') \in Nat /\ Len(d) \in Nat /\ Len(WillView) = Len(d) + Len(WillView')
      /\ WillView \in Seq(Nat) /\ Known \in Seq(Nat)
  BY JoinedLen, PiecesType DEF LogsInv
<1>4. ReqUnderWay'
  <2>1. WillView = <<>> => WillView' = <<>>
    <3>1. SUFFICES ASSUME WillView = <<>> PROVE WillView' = <<>>
      OBVIOUS
    <3>2. Len(WillView) = 0
      BY <3>1
    <3>3. Len(WillView') = 0
      BY <1>3, <3>2
    <3>. QED  BY <3>3, EmptySeq
  <2>. QED  BY <1>1, <2>1 DEF LogsInv, ReqUnderWay
<1>5. ViewAgrees'
  <2>1. SUFFICES ASSUME sync_first' = MovedFirst, ~overtaken', ~repeated', current' = con',
                        reader'.connected, log_req'
                 PROVE  /\ Orderly(WillView' \o OnTheWay', calls'.line) /\ Alike(WillView', Known')
                        /\ wiped' \/ Len(WillView') >= KeptOf(Len(Known'), KeepLines)
    BY DEF ViewAgrees
  <2>2. /\ Orderly(WillView \o OnTheWay, calls.line) /\ Alike(WillView, Known)
        /\ wiped \/ Len(WillView) >= KeptOf(Len(Known), KeepLines)
    BY <1>1, <2>1 DEF LogsInv, ViewAgrees
  <2>3. OnTheWay \in Seq(Nat) /\ calls.line \in Nat /\ KeepLines \in Int
    <3>1. con > 0
      BY <1>1, <2>1, MovedConnected
    <3>. QED  BY <3>1, PiecesType, LogsAssumption DEF LogsInv, LogsTypeOK
  <2>4. (d \o WillView') \o OnTheWay = d \o (WillView' \o OnTheWay) /\ WillView' \o OnTheWay \in Seq(Nat)
    <3>1. (d \o WillView') \o OnTheWay = d \o (WillView' \o OnTheWay)
      BY <2>3, JoinedLines, ZenonT(60)
    <3>. QED  BY <2>3, <3>1, ConcatProperties
  <2>5. Orderly(WillView' \o OnTheWay, calls.line)
    BY <2>2, <2>3, <2>4, OrderlyEnds
  <2>6. Alike(WillView', Known)
    BY <1>3, <2>2, AlikeEnds
  <2>7. wiped' \/ Len(WillView') >= KeptOf(Len(Known), KeepLines)
    <3>1. CASE wiped'
      BY <3>1
    <3>2. CASE ~wiped'
      <4> DEFINE v == Len(WillView')
                 o == Len(WillView)
                 k == Len(Known)
      <4>1. v \in Nat /\ o \in Nat /\ k \in Nat
        BY <1>3, LenProperties
      <4>2. v >= KeptOf(o, KeepLines) /\ o >= KeptOf(k, KeepLines)
        BY <2>2, <3>2
      <4> HIDE DEF v, o, k
      <4>3. v >= KeptOf(k, KeepLines)
        BY <2>3, <4>1, <4>2 DEF KeptOf
      <4>. QED  BY <4>3 DEF v, k
    <3>. QED  BY <3>1, <3>2
  <2>. QED  BY <1>1, <1>2, <2>5, <2>6, <2>7
<1>. QED  BY <1>4, <1>5

\* A message read, or clear() of what has been received.
LEMMA ReadingShortens ==
    ASSUME LogsInv, recv \/ clearReceived
    PROVE  /\ received' \in Seq(ToReader_) /\ view' \in LinesSent /\ WillView' \in Seq(Nat)
           /\ \E d \in Seq(Nat) : WillView = d \o WillView'
           /\ recv => Len(WillView') >= KeptOf(Len(WillView), KeepLines)
<1>1. received \in Seq(ToReader_) /\ view \in LinesSent /\ WillView \in Seq(Nat) /\ KeepLines \in Int
  BY ReadersType, PiecesType DEF LogsInv
<1>2. WillView = ViewAfter(view, received) /\ WillView' = ViewAfter(view', received')
  BY DEF WillView
<1>3. ASSUME received' \in Seq(ToReader_), view' \in LinesSent, WillView' = WillView
      PROVE  /\ WillView' \in Seq(Nat) /\ \E d \in Seq(Nat) : WillView = d \o WillView'
             /\ Len(WillView') >= KeptOf(Len(WillView), KeepLines)
  <2>1. WillView = <<>> \o WillView' /\ <<>> \in Seq(Nat)
    BY <1>1, <1>3, ConcatEmptySeq, EmptySeq
  <2>2. Len(WillView) \in Nat
    BY <1>1, LenProperties
  <2>3. Len(WillView') >= KeptOf(Len(WillView), KeepLines)
    BY <1>1, <1>3, <2>2 DEF KeptOf
  <2>. QED  BY <1>1, <1>3, <2>1, <2>3
<1>4. CASE recv
  <2>1. received # <<>> /\ received' = Tail(received)
        /\ view' = IF Head(received).kind = "init" THEN NoLog ELSE Appended(view, Head(received).lines)
    BY <1>4 DEF recv
  <2>2. Head(received) \in ToReader_ /\ received' \in Seq(ToReader_)
    BY <1>1, <2>1, ViewAfterHead
  <2>3. CASE Head(received).kind = "init"
    <3>1. view' = NoLog /\ NoLog \in LinesSent
      BY <2>1, <2>3 DEF LinesSent
    <3>2. WillView' = WillView
      BY <1>1, <1>2, <2>1, <2>3, <3>1, ViewAfterHead
    <3>. QED  BY <1>3, <2>2, <3>1, <3>2
  <2>4. CASE Head(received).kind # "init"
    <3> DEFINE l == Head(received).lines
               o == LinesOf(view)
               x == Trimmed(o \o l, KeepLines)
               f == FlattenSeq(EachView(Tail(received)))
    <3>1. l \in Seq(Nat) /\ o \in Seq(Nat) /\ f \in Seq(Nat)
      <4>1. l \in Seq(Nat)
        BY <2>2, <2>4, ToReaderType
      <4>2. o \in Seq(Nat)
        BY <1>1, LinesType
      <4>3. f \in Seq(Nat)
        BY <2>1, <2>2, EachViewType, FlattenType
      <4>. QED  BY <4>1, <4>2, <4>3
    <3>2. view' = x
      BY <2>1, <2>4 DEF Appended, LinesOf
    <3>3. CASE Emptied(Tail(received), 1)
      <4>1. \A u \in LinesSent : WillView = ViewAfter(u, Tail(received))
        BY <1>1, <1>2, <2>1, <2>4, <3>3, ViewAfterHead
      <4>2. x \in LinesSent
        <5>1. o \o l \in Seq(Nat)
          BY <3>1, ConcatProperties
        <5> HIDE DEF o, l
        <5>. QED  BY <1>1, <5>1, TrimmedEnds DEF LinesSent
      <4>3. WillView' = WillView
        BY <1>2, <2>1, <3>2, <4>1, <4>2
      <4>. QED  BY <1>3, <2>2, <3>2, <4>2, <4>3
    <3>4. CASE ~Emptied(Tail(received), 1)
      <4>1. WillView = o \o (l \o f)
            /\ \A u \in LinesSent : ViewAfter(u, Tail(received)) = LinesOf(u) \o f
        BY <1>1, <1>2, <2>1, <2>4, <3>4, ViewAfterHead
      <4> HIDE DEF l, o, f
      <4>2. o \o l \in Seq(Nat)
        BY <3>1, ConcatProperties
      <4>3. PICK d \in Seq(Nat) : o \o l = d \o x
        BY <1>1, <4>2, TrimmedEnds
      <4>4. x \in Seq(Nat) /\ Len(x) = KeptOf(Len(o \o l), KeepLines)
        BY <1>1, <4>2, TrimmedEnds
      <4> HIDE DEF x
      <4>5. WillView' = x \o f
        <5>1. x \in LinesSent /\ LinesOf(x) = x
          BY <4>4, LinesAreLines
        <5>. QED  BY <1>2, <2>1, <3>2, <4>1, <5>1
      <4>6. WillView = d \o (x \o f) /\ WillView = (o \o l) \o f
        <5>1. (o \o l) \o f = o \o (l \o f)
          BY <3>1, JoinedLines, ZenonT(60)
        <5>2. (d \o x) \o f = d \o (x \o f)
          BY <3>1, <4>3, <4>4, JoinedLines, ZenonT(60)
        <5>. QED  BY <4>1, <4>3, <5>1, <5>2
      <4>7. WillView' \in Seq(Nat)
        BY <3>1, <4>4, <4>5, ConcatProperties
      <4>8. Len(WillView') >= KeptOf(Len(WillView), KeepLines)
        <5> DEFINE n == Len(o \o l)
                   e == Len(f)
        <5>1. Len(WillView') = Len(x) + e /\ Len(WillView) = n + e /\ n \in Nat /\ e \in Nat
          BY <3>1, <4>2, <4>4, <4>5, <4>6, JoinedLen
        <5>2. Len(x) = KeptOf(n, KeepLines)
          BY <4>4
        <5> HIDE DEF n, e
        <5>3. KeptOf(n, KeepLines) + e >= KeptOf(n + e, KeepLines)
          BY <1>1, <5>1 DEF KeptOf
        <5>. QED  BY <5>1, <5>2, <5>3
      <4>9. \E g \in Seq(Nat) : WillView = g \o WillView'
        BY <4>3, <4>5, <4>6
      <4>10. view' \in LinesSent
        BY <3>2, <4>4 DEF LinesSent
      <4>. QED  BY <2>2, <4>7, <4>8, <4>9, <4>10
    <3>. QED  BY <3>3, <3>4
  <2>. QED  BY <2>3, <2>4
<1>5. CASE clearReceived /\ ~recv
  <2>1. view' = <<>> /\ received' = received
    BY <1>5 DEF clearReceived
  <2>2. view' \in LinesSent /\ LinesOf(view') = <<>>
    BY <2>1, EmptySeq DEF LinesSent, LinesOf
  <2> DEFINE f == FlattenSeq(EachView(received))
  <2>3. f \in Seq(Nat) /\ LinesOf(view) \in Seq(Nat)
    BY <1>1, EachViewType, FlattenType, LinesType
  <2>4. WillView = (IF Emptied(received, 1) THEN <<>> ELSE LinesOf(view)) \o f
        /\ WillView' = (IF Emptied(received, 1) THEN <<>> ELSE <<>>) \o f
    BY <1>2, <2>1, <2>2 DEF ViewAfter
  <2> HIDE DEF f
  <2>5. WillView' = f
    BY <2>3, <2>4, ConcatEmptySeq
  <2>6. (IF Emptied(received, 1) THEN <<>> ELSE LinesOf(view)) \in Seq(Nat)
    BY <2>3, EmptySeq
  <2>. QED  BY <1>1, <1>5, <2>1, <2>2, <2>3, <2>4, <2>5, <2>6
<1>. QED  BY <1>4, <1>5

LEMMA recvReaderInv ==
    ASSUME LogsInv, recv \/ clearReceived PROVE LogsInv'
<1>1. /\ UNCHANGED <<writerVars, serverVars, reader, overtaken, repeated>>
      /\ recv => UNCHANGED <<wiped, calls>>
      /\ clearReceived => wiped'
  BY DEF recv, clearReceived
<1>2. UNCHANGED <<writerVars, wire, log, current, overtaken>> /\ log_req' = log_req
  BY <1>1 DEF serverVars
<1>3. calls' \in [line : Nat, sync : Nat, clear : Nat, loss : Nat] /\ calls'.line = calls.line
  <2>1. CASE recv
    BY <1>1, <2>1, ReadersType
  <2>2. CASE clearReceived
    BY <2>2, LinesCounted DEF clearReceived, LogsInv
  <2>. QED  BY <2>1, <2>2
<1>4. recv => Len(WillView') >= KeptOf(Len(WillView), KeepLines)
  BY ReadingShortens
<1>5. PICK d \in Seq(Nat) : WillView = d \o WillView'
  BY ReadingShortens
<1>6. wiped' \/ (wiped' = wiped /\ Len(WillView') >= KeptOf(Len(WillView), KeepLines))
  BY <1>1, <1>4
<1>7. received' \in Seq(ToReader_) /\ view' \in LinesSent /\ WillView' \in Seq(Nat)
  BY ReadingShortens
<1>8. ReqUnderWay' /\ ViewAgrees'
  BY <1>1, <1>3, <1>5, <1>6, <1>7, ViewShortens
<1>9. WrittenLogged' /\ FirstLeads' /\ LogsAgree'
  BY <1>2, <1>3, ReadersFrame
<1>10. LogsTypeOK'
  <2>1. wiped' \in BOOLEAN /\ repeated' \in BOOLEAN /\ log_req' \in BOOLEAN /\ reader' \in ReaderSet
    <3>1. wiped' \in BOOLEAN
      BY ReadersType DEF recv, clearReceived
    <3>. QED  BY <1>1, <1>2, <3>1, ReadersType
  <2>. QED  BY <1>2, <1>3, <1>7, <2>1, ReadersTypeOK
<1>. QED  BY <1>8, <1>9, <1>10 DEF LogsInv

(* The server reads a message of the writer. *)

LEMMA ServerReads ==
    ASSUME LogsInv, NEW c \in Connections, recvFromWriter(c), NEW m, m = Head(wire[c])
    PROVE  /\ wire[c] \in Seq(ToServer_) /\ wire[c] # <<>> /\ m \in ToServer_ /\ c <= con
           /\ con \in Connections /\ con > 0
           /\ wire' \in [Connections -> Seq(ToServer_)] /\ wire'[c] = Tail(wire[c])
           /\ \A e \in Connections : e # c => wire'[e] = wire[e] /\ log'[e] = log[e]
           /\ m.kind = "init" => log[c] = NoLog
           /\ m.kind # "init" => m.lines # NoLog
           /\ \A i \in DOMAIN wire'[c] : wire'[c][i].kind # "init" /\ wire'[c][i].lines # NoLog
           /\ OnWire(c) = LinesOf(m.lines) \o OnWire(c)'
<1>1. wire[c] # <<>> /\ wire' = [wire EXCEPT ![c] = Tail(@)]
      /\ (log' = log \/ log' = [log EXCEPT ![c] = Logged(@, m.lines)])
  BY DEF recvFromWriter
<1>2. /\ wire \in [Connections -> Seq(ToServer_)] /\ log \in [Connections -> LinesSent]
      /\ con \in 0 .. MaxLosses + 1 /\ MaxLosses \in Nat
      /\ \A e \in Connections : e > con => log[e] = NoLog /\ wire[e] = <<>>
      /\ \A i \in DOMAIN wire[c] :
            IF wire[c][i].kind = "init" THEN i = 1 /\ log[c] = NoLog ELSE wire[c][i].lines # NoLog
  BY LogsAssumption DEF LogsInv, LogsTypeOK, FirstLeads
<1>3. c <= con /\ con \in Connections /\ con > 0
  BY <1>1, <1>2 DEF Connections
<1>4. wire[c] \in Seq(ToServer_)
  BY <1>2
<1>5. /\ m \in ToServer_ /\ m = wire[c][1] /\ Tail(wire[c]) \in Seq(ToServer_)
      /\ Len(Tail(wire[c])) = Len(wire[c]) - 1 /\ Len(wire[c]) \in Nat /\ Len(wire[c]) > 0
      /\ \A i \in 1 .. Len(Tail(wire[c])) : Tail(wire[c])[i] = wire[c][i + 1]
  <2>1. Len(wire[c]) \in Nat /\ Len(wire[c]) # 0
    BY <1>1, <1>4, EmptySeq, LenProperties
  <2>. QED  BY <1>1, <1>4, <2>1, HeadTailProperties
<1>6. DOMAIN wire[c] = 1 .. Len(wire[c]) /\ DOMAIN Tail(wire[c]) = 1 .. Len(wire[c]) - 1
  BY <1>4, <1>5, LenProperties
<1>7. wire' \in [Connections -> Seq(ToServer_)] /\ wire'[c] = Tail(wire[c])
      /\ \A e \in Connections : e # c => wire'[e] = wire[e] /\ log'[e] = log[e]
  BY <1>1, <1>2, <1>5
<1>8. (m.kind = "init" => log[c] = NoLog) /\ (m.kind # "init" => m.lines # NoLog)
  <2>1. 1 \in DOMAIN wire[c]
    BY <1>5, <1>6
  <2>. QED  BY <1>2, <1>5, <2>1
<1>9. ASSUME NEW i \in DOMAIN wire'[c] PROVE wire'[c][i].kind # "init" /\ wire'[c][i].lines # NoLog
  <2>1. i \in 1 .. Len(wire[c]) - 1 /\ i + 1 \in DOMAIN wire[c] /\ i + 1 # 1
    BY <1>5, <1>6, <1>7
  <2>2. wire'[c][i] = wire[c][i + 1]
    BY <1>5, <1>7, <2>1
  <2>. QED  BY <1>2, <2>1, <2>2
<1>10. OnWire(c) = LinesOf(m.lines) \o OnWire(c)'
  <2>1. OnWire(c)' = InOrder([i \in DOMAIN Tail(wire[c]) |-> Tail(wire[c])[i].lines])
    BY <1>7 DEF OnWire
  <2>. QED  BY <1>1, <1>4, <2>1, OnWireHead DEF OnWire
<1>. QED  BY <1>1, <1>3, <1>4, <1>5, <1>7, <1>8, <1>9, <1>10

\* The log it then has ends with the lines that have come.
LEMMA ServerLogs ==
    ASSUME LogsInv, NEW c \in Connections, recvFromWriter(c), NEW m, m = Head(wire[c])
    PROVE  /\ log' \in [Connections -> LinesSent] /\ LinesOf(m.lines) \in Seq(Nat)
           /\ LinesOf(log[c]) \in Seq(Nat) /\ LinesOf(log'[c]) \in Seq(Nat)
           /\ \E d \in Seq(Nat) : LinesOf(log[c]) \o LinesOf(m.lines) = d \o LinesOf(log'[c])
           /\ Len(LinesOf(log'[c])) >= KeptOf(Len(LinesOf(log[c]) \o LinesOf(m.lines)), KeepLog)
           /\ m.lines = NoLog => log[c] = NoLog /\ log'[c] = NoLog
           /\ m.lines # NoLog => /\ m.lines \in Seq(Nat) /\ LinesOf(m.lines) = m.lines
                                 /\ log'[c] \in Seq(Nat) /\ LinesOf(log'[c]) = log'[c]
                                 /\ log'[c] = Logged(log[c], m.lines)
<1>1. /\ m \in ToServer_ /\ (m.kind = "init" => log[c] = NoLog) /\ (m.kind # "init" => m.lines # NoLog)
  BY ServerReads
<1>2. log \in [Connections -> LinesSent] /\ KeepLog \in Int /\ NoLog \notin Seq(Nat)
  BY LogsAssumption DEF LogsInv, LogsTypeOK
<1> DEFINE o == LinesOf(log[c])
           x == LinesOf(m.lines)
           n == LinesOf(log'[c])
<1>3. m.lines \in LinesSent /\ x \in Seq(Nat) /\ o \in Seq(Nat)
  BY <1>1, <1>2, LinesType DEF ToServer_
<1>4. CASE m.lines = NoLog
  <2>1. log' = log
    BY <1>4 DEF recvFromWriter
  <2>2. log[c] = NoLog /\ o = <<>> /\ x = <<>> /\ n = <<>>
    BY <1>1, <1>4, <2>1 DEF LinesOf
  <2>3. <<>> \o <<>> = <<>> /\ <<>> \in Seq(Nat) /\ Len(<<>>) = 0
    BY EmptySeq
  <2>4. KeptOf(0, KeepLog) = 0
    BY <1>2 DEF KeptOf
  <2>5. Len(n) >= KeptOf(Len(o \o x), KeepLog)
    BY <2>2, <2>3, <2>4
  <2>6. \E d \in Seq(Nat) : o \o x = d \o n
    BY <2>2, <2>3
  <2>. QED  BY <1>2, <1>3, <1>4, <2>1, <2>2, <2>5, <2>6
<1>5. CASE m.lines # NoLog
  <2>1. log' = [log EXCEPT ![c] = Logged(log[c], m.lines)]
    BY <1>5 DEF recvFromWriter
  <2>2. m.lines \in Seq(Nat) /\ x = m.lines
    BY <1>3, <1>5 DEF LinesSent, LinesOf
  <2>3. Logged(log[c], m.lines) = Trimmed(o \o x, KeepLog)
    <3>1. CASE log[c] = NoLog
      <4>1. <<>> \o m.lines = m.lines
        BY <2>2, ConcatEmptySeq
      <4>2. o = <<>> /\ Logged(log[c], m.lines) = Trimmed(m.lines, KeepLog)
        BY <3>1 DEF LinesOf, Logged
      <4>. QED  BY <2>2, <4>1, <4>2
    <3>2. CASE log[c] # NoLog
      BY <2>2, <3>2 DEF LinesOf, Logged
    <3>. QED  BY <3>1, <3>2
  <2>4. log'[c] = Trimmed(o \o x, KeepLog)
    BY <1>2, <2>1, <2>3
  <2>5. o \o x \in Seq(Nat)
    BY <1>3, ConcatProperties
  <2> HIDE DEF o, x
  <2>6. /\ log'[c] \in Seq(Nat) /\ Len(log'[c]) = KeptOf(Len(o \o x), KeepLog)
        /\ \E d \in Seq(Nat) : o \o x = d \o log'[c]
    <3> DEFINE s == o \o x
               t == Trimmed(s, KeepLog)
    <3>1. s \in Seq(Nat) /\ log'[c] = t
      BY <2>4, <2>5
    <3> HIDE DEF s
    <3>2. t \in Seq(Nat) /\ Len(t) = KeptOf(Len(s), KeepLog) /\ \E d \in Seq(Nat) : s = d \o t
      BY <1>2, <3>1, TrimmedEnds
    <3> HIDE DEF t
    <3>3. log'[c] \in Seq(Nat) /\ Len(log'[c]) = KeptOf(Len(s), KeepLog)
          /\ \E d \in Seq(Nat) : s = d \o log'[c]
      BY <3>1, <3>2
    <3>. QED  BY <3>3 DEF s
  <2>7. n = log'[c]
    BY <2>6, LinesAreLines
  <2>8. log' \in [Connections -> LinesSent]
    BY <1>2, <2>1, <2>6 DEF LinesSent
  <2>9. KeptOf(Len(o \o x), KeepLog) \in Nat
    BY <1>2, <2>5, LenProperties DEF KeptOf
  <2>10. Len(n) >= KeptOf(Len(o \o x), KeepLog)
    BY <2>6, <2>7, <2>9
  <2>11. log'[c] = Logged(log[c], m.lines)
    BY <2>3, <2>4
  <2>. QED  BY <1>3, <1>5, <2>2, <2>6, <2>7, <2>8, <2>10, <2>11 DEF o, x
<1>. QED  BY <1>4, <1>5

\* And what the reader gets of it, if it is connected.
LEMMA ReaderGets ==
    ASSUME LogsInv, NEW c \in Connections, recvFromWriter(c), NEW m, m = Head(wire[c]),
           NEW y, y = (IF log[c] = NoLog THEN LinesOf(log'[c]) ELSE LinesOf(m.lines)),
           NEW v, v = (IF m.kind = "init" THEN <<>> ELSE WillView)
    PROVE  /\ received' \in Seq(ToReader_) /\ y \in Seq(Nat) /\ v \in Seq(Nat)
           /\ reader.connected => WillView' = IF log_req THEN v \o y ELSE v
<1>1. received \in Seq(ToReader_) /\ view \in LinesSent /\ WillView \in Seq(Nat) /\ view' = view
  BY ReadersType, PiecesType DEF LogsInv, recvFromWriter
<1>2. /\ LinesOf(m.lines) \in Seq(Nat) /\ LinesOf(log'[c]) \in Seq(Nat)
      /\ m.lines = NoLog => log[c] = NoLog /\ log'[c] = NoLog
      /\ m.lines # NoLog => /\ m.lines \in Seq(Nat) /\ LinesOf(m.lines) = m.lines
                            /\ log'[c] \in Seq(Nat) /\ LinesOf(log'[c]) = log'[c]
                            /\ log'[c] = Logged(log[c], m.lines)
  BY ServerLogs
<1>3. y \in Seq(Nat) /\ v \in Seq(Nat)
  BY <1>1, <1>2, EmptySeq
<1> DEFINE news == IF m.kind = "init" THEN <<Init_>> ELSE <<>>
           l == IF m.lines = NoLog THEN NoLog ELSE Relayed(log[c], m.lines)
           r == received \o news
<1>4. received' = IF ~reader.connected THEN received
                  ELSE r \o (IF log_req /\ l # NoLog THEN <<Res(l)>> ELSE <<>>)
  BY DEF recvFromWriter, ToReader
<1>5. r \in Seq(ToReader_) /\ ViewAfter(view, r) = v
  <2>1. CASE m.kind = "init"
    <3>1. Init_ \in ToReader_ /\ ViewAfter(view, Append(received, Init_)) = <<>>
      BY <1>1, ViewAfterInit
    <3>2. Append(received, Init_) = received \o <<Init_>> /\ Append(received, Init_) \in Seq(ToReader_)
      BY <1>1, <3>1, AppendIsConcat, AppendProperties
    <3>. QED  BY <2>1, <3>1, <3>2
  <2>2. CASE m.kind # "init"
    <3>1. r = received
      BY <1>1, <2>2, ConcatEmptySeq
    <3>. QED  BY <1>1, <2>2, <3>1 DEF WillView
  <2>. QED  BY <2>1, <2>2
<1>6. m.lines = NoLog => l = NoLog /\ y = <<>>
  BY <1>2 DEF LinesOf
<1>7. m.lines # NoLog => l = y /\ l # NoLog
  <2>1. SUFFICES ASSUME m.lines # NoLog PROVE l = y /\ l # NoLog
    OBVIOUS
  <2>2. CASE log[c] = NoLog
    <3>1. Logged(log[c], m.lines) = Trimmed(m.lines, KeepLog) /\ l = Trimmed(m.lines, KeepLog)
      BY <2>1, <2>2 DEF Logged, Relayed
    <3>2. y = log'[c]
      BY <1>2, <2>1, <2>2
    <3>3. l = y
      BY <1>2, <2>1, <3>1, <3>2
    <3>. QED  BY <1>3, <3>3, LogsAssumption
  <2>3. CASE log[c] # NoLog
    <3>1. l = m.lines /\ y = m.lines
      BY <1>2, <2>1, <2>3 DEF Relayed
    <3>. QED  BY <2>1, <3>1
  <2>. QED  BY <2>2, <2>3
<1> HIDE DEF r, l, news
<1>8. Res(y) \in ToReader_ /\ ViewAfter(view, Append(r, Res(y))) = v \o y
      /\ Append(r, Res(y)) = r \o <<Res(y)>> /\ Append(r, Res(y)) \in Seq(ToReader_)
  <2>1. Res(y) \in ToReader_ /\ ViewAfter(view, Append(r, Res(y))) = v \o y
    BY <1>1, <1>3, <1>5, ViewAfterRes
  <2>. QED  BY <1>5, <2>1, AppendIsConcat, AppendProperties
<1>9. r \o <<>> = r /\ v \o <<>> = v
  BY <1>3, <1>5, ConcatEmptySeq
<1>10. CASE ~reader.connected
  BY <1>1, <1>3, <1>4, <1>10
<1>11. CASE reader.connected /\ log_req /\ l # NoLog
  <2>1. m.lines # NoLog /\ l = y
    BY <1>6, <1>7, <1>11
  <2>2. received' = r \o <<Res(y)>>
    BY <1>4, <1>11, <2>1
  <2>3. WillView' = v \o y
    BY <1>1, <1>8, <2>2 DEF WillView
  <2>. QED  BY <1>3, <1>8, <1>11, <2>2, <2>3
<1>12. CASE reader.connected /\ ~(log_req /\ l # NoLog)
  <2>1. received' = r
    BY <1>4, <1>9, <1>12
  <2>2. WillView' = v
    BY <1>1, <1>5, <2>1 DEF WillView
  <2>3. log_req => y = <<>>
    BY <1>6, <1>7, <1>12
  <2>. QED  BY <1>3, <1>5, <1>9, <2>1, <2>2, <2>3
<1>. QED  BY <1>10, <1>11, <1>12

\* What the server is going to have loses lines at its beginning only.
LEMMA WillLogShortens ==
    ASSUME LogsInv, NEW c \in Connections, recvFromWriter(c), sync_first # NoFirst
    PROVE  /\ \E d \in Seq(Nat) : WillLog = d \o WillLog'
           /\ WillLog \in Seq(Nat) /\ WillLog' \in Seq(Nat)
           /\ Len(WillLog') >= KeptOf(Len(WillLog), KeepLog)
<1>1. LogsTypeOK /\ KeepLog \in Int
  BY LogsAssumption DEF LogsInv
<1>2. UNCHANGED <<logs, data_send, data_recv, written, sync_first, sync_queue, app, ws, connected, con>>
  BY DEF recvFromWriter, writerVars, logVars
<1> DEFINE m == Head(wire[c])
<1>3. Behind' = Behind /\ SendingLines' = SendingLines
  BY <1>2 DEF Behind, Pushing, Unsent, NewLines, SendingLines
<1>4. WillLog \in Seq(Nat)
  <2>1. CASE sync_first = MovedFirst
    <3>1. WillLog = LinesOf(log[con]) \o OnTheWay /\ con > 0
      BY <2>1, MovedConnected
    <3>2. LinesOf(log[con]) \in Seq(Nat) /\ OnTheWay \in Seq(Nat)
      BY <1>1, <3>1, PiecesType
    <3>. QED  BY <3>1, <3>2, ConcatProperties
  <2>2. CASE sync_first # MovedFirst
    <3>1. LinesOf(sync_first) \in Seq(Nat)
      BY <1>1, <2>2, LinesType DEF LogsTypeOK
    <3>2. Behind \in Seq(Nat) /\ WillLog = LinesOf(sync_first) \o Behind
      BY <1>1, <2>2, MovedConnected, PiecesType
    <3>. QED  BY <3>1, <3>2, ConcatProperties
  <2>. QED  BY <2>1, <2>2
<1>5. ASSUME WillLog' = WillLog
      PROVE  /\ \E d \in Seq(Nat) : WillLog = d \o WillLog'
             /\ WillLog' \in Seq(Nat) /\ Len(WillLog') >= KeptOf(Len(WillLog), KeepLog)
  <2>1. WillLog = <<>> \o WillLog' /\ <<>> \in Seq(Nat)
    BY <1>4, <1>5, ConcatEmptySeq, EmptySeq
  <2>2. Len(WillLog) \in Nat
    BY <1>4, LenProperties
  <2>3. Len(WillLog') >= KeptOf(Len(WillLog), KeepLog)
    BY <1>1, <1>5, <2>2 DEF KeptOf
  <2>. QED  BY <1>4, <1>5, <2>1, <2>3
<1>6. CASE sync_first # MovedFirst
  <2>1. WillLog' = WillLog
    BY <1>2, <1>3, <1>6 DEF WillLog
  <2>. QED  BY <1>4, <1>5, <2>1
<1>7. CASE sync_first = MovedFirst /\ c # con
  <2>1. log'[con] = log[con] /\ wire'[con] = wire[con]
    BY <1>7, ServerReads
  <2>2. OnTheWay' = OnTheWay
    BY <1>2, <1>3, <2>1 DEF OnTheWay, OnWire
  <2>3. WillLog' = WillLog
    BY <1>2, <1>7, <2>1, <2>2 DEF WillLog
  <2>. QED  BY <1>4, <1>5, <2>3
<1>8. CASE sync_first = MovedFirst /\ c = con
  <2> DEFINE o == LinesOf(log[con])
             n == LinesOf(log'[con])
             x == LinesOf(m.lines)
             w == OnWire(con)'
             b == SendingLines \o Behind
             rest == w \o b
  <2>1. OnWire(con) = x \o w
    BY <1>2, <1>8, ServerReads
  <2>2. /\ o \in Seq(Nat) /\ n \in Seq(Nat) /\ x \in Seq(Nat)
        /\ \E d \in Seq(Nat) : o \o x = d \o n
        /\ Len(n) >= KeptOf(Len(o \o x), KeepLog)
    BY <1>8, ServerLogs
  <2>3. w \in Seq(Nat)
    <3>1. wire'[con] \in Seq(ToServer_)
      BY <1>8, ServerReads
    <3>2. w = InOrder([i \in DOMAIN wire'[con] |-> wire'[con][i].lines])
      BY <1>2 DEF OnWire
    <3>. QED  BY <3>1, <3>2, OnWireType
  <2>4. b \in Seq(Nat)
    BY <1>1, PiecesType, ConcatProperties
  <2>5. WillLog = o \o ((x \o w) \o b) /\ WillLog' = n \o rest
    <3>1. WillLog = o \o OnTheWay /\ OnTheWay = OnWire(con) \o b
      BY <1>8 DEF WillLog, OnTheWay
    <3>2. WillLog' = n \o OnTheWay' /\ OnTheWay' = w \o b
      BY <1>2, <1>3, <1>8 DEF WillLog, OnTheWay
    <3>. QED  BY <2>1, <3>1, <3>2
  <2>6. PICK d \in Seq(Nat) : o \o x = d \o n
    BY <2>2
  <2> HIDE DEF o, n, x, w, b
  <2>7. rest \in Seq(Nat)
    BY <2>3, <2>4, ConcatProperties
  <2>8. WillLog = o \o (x \o rest)
    <3>1. x \in Seq(Nat)
      BY <2>2
    <3>2. (x \o w) \o b = x \o (w \o b)
      BY <2>3, <2>4, <3>1, JoinedLines, ZenonT(60)
    <3>. QED  BY <2>5, <3>2
  <2> HIDE DEF rest
  <2>9. WillLog = (o \o x) \o rest /\ (d \o n) \o rest = d \o (n \o rest)
    <3>1. (o \o x) \o rest = o \o (x \o rest)
      BY <2>2, <2>7, JoinedLines, ZenonT(60)
    <3>2. (d \o n) \o rest = d \o (n \o rest)
      BY <2>2, <2>6, <2>7, JoinedLines, ZenonT(60)
    <3>. QED  BY <2>8, <3>1, <3>2
  <2>10. WillLog = d \o WillLog'
    BY <2>5, <2>6, <2>9
  <2>11. WillLog' \in Seq(Nat)
    BY <2>2, <2>5, <2>7, ConcatProperties
  <2>12. Len(WillLog') >= KeptOf(Len(WillLog), KeepLog)
    <3> DEFINE p == Len(o \o x)
               e == Len(rest)
               k == Len(n)
    <3>1. o \o x \in Seq(Nat)
      BY <2>2, ConcatProperties
    <3>2. p \in Nat /\ e \in Nat /\ k \in Nat /\ Len(WillLog) = p + e
      BY <2>7, <2>9, <2>2, <3>1, JoinedLen
    <3>3. Len(WillLog') = k + e
      BY <2>2, <2>5, <2>7, JoinedLen
    <3>4. k >= KeptOf(p, KeepLog)
      BY <2>2
    <3> HIDE DEF p, e, k
    <3>. QED  BY <1>1, <3>2, <3>3, <3>4 DEF KeptOf
  <2>. QED  BY <1>4, <2>10, <2>11, <2>12
<1>. QED  BY <1>4, <1>6, <1>7, <1>8

LEMMA ServerAgrees ==
    ASSUME LogsInv, NEW c \in Connections, recvFromWriter(c) PROVE LogsAgree'
<1>1. UNCHANGED <<sync_first, written, overtaken>> /\ calls'.line = calls.line
  BY DEF recvFromWriter, writerVars, logVars
<1>2. SUFFICES ASSUME sync_first # NoFirst, ~overtaken
               PROVE  /\ Orderly(WillLog', calls.line) /\ Alike(WillLog', written)
                      /\ Len(WillLog') >= KeptOf(Len(written), KeepLog)
  BY <1>1 DEF LogsAgree
<1>3. /\ Orderly(WillLog, calls.line) /\ Alike(WillLog, written)
      /\ Len(WillLog) >= KeptOf(Len(written), KeepLog)
  BY <1>2 DEF LogsInv, LogsAgree
<1>4. /\ WillLog \in Seq(Nat) /\ WillLog' \in Seq(Nat)
      /\ Len(WillLog') >= KeptOf(Len(WillLog), KeepLog)
  BY <1>2, WillLogShortens
<1>5. PICK d \in Seq(Nat) : WillLog = d \o WillLog'
  BY <1>2, WillLogShortens
<1>6. written \in Seq(Nat) /\ calls.line \in Nat /\ KeepLog \in Int
  BY OrderlySeq, LogsAssumption DEF LogsInv, LogsTypeOK, WrittenLogged
<1>7. Orderly(WillLog', calls.line)
  BY <1>3, <1>4, <1>5, <1>6, OrderlyEnds
<1>8. Alike(WillLog', written)
  BY <1>3, <1>4, <1>5, <1>6, AlikeEnds
<1>9. Len(WillLog') >= KeptOf(Len(written), KeepLog)
  <2> DEFINE v == Len(WillLog')
             o == Len(WillLog)
             k == Len(written)
  <2>1. v \in Nat /\ o \in Nat /\ k \in Nat
    BY <1>4, <1>6, LenProperties
  <2>2. v >= KeptOf(o, KeepLog) /\ o >= KeptOf(k, KeepLog)
    BY <1>3, <1>4
  <2> HIDE DEF v, o, k
  <2>3. v >= KeptOf(k, KeepLog)
    BY <1>6, <2>1, <2>2 DEF KeptOf
  <2>. QED  BY <2>3 DEF v, k
<1>. QED  BY <1>7, <1>8, <1>9

\* What is on the wire of the connection moves into the log.
LEMMA ServerTakes ==
    ASSUME LogsInv, NEW c \in Connections, recvFromWriter(c), c = con
    PROVE  /\ OnTheWay = LinesOf(Head(wire[c]).lines) \o OnTheWay'
           /\ OnTheWay' \in Seq(Nat) /\ (sync_first = MovedFirst => WillLog' = LinesOf(log'[c]) \o OnTheWay')
<1>1. LogsTypeOK
  BY DEF LogsInv
<1>2. UNCHANGED <<logs, data_send, data_recv, written, sync_first, sync_queue, app, ws, connected, con>>
  BY DEF recvFromWriter, writerVars, logVars
<1>3. Behind' = Behind /\ SendingLines' = SendingLines
  BY <1>2 DEF Behind, Pushing, Unsent, NewLines, SendingLines
<1> DEFINE x == LinesOf(Head(wire[c]).lines)
           w == OnWire(con)'
           b == SendingLines \o Behind
<1>4. OnWire(con) = x \o w
  BY <1>2, ServerReads
<1>5. x \in Seq(Nat)
  BY ServerLogs
<1>6. w \in Seq(Nat)
  <2>1. wire'[con] \in Seq(ToServer_)
    BY ServerReads
  <2>2. w = InOrder([i \in DOMAIN wire'[con] |-> wire'[con][i].lines])
    BY <1>2 DEF OnWire
  <2>. QED  BY <2>1, <2>2, OnWireType
<1>7. b \in Seq(Nat)
  BY <1>1, PiecesType, ConcatProperties
<1>8. OnTheWay = (x \o w) \o b /\ OnTheWay' = w \o b
  BY <1>2, <1>3, <1>4 DEF OnTheWay
<1>9. sync_first = MovedFirst => WillLog' = LinesOf(log'[c]) \o OnTheWay'
  BY <1>2 DEF WillLog
<1> HIDE DEF x, w, b
<1>10. (x \o w) \o b = x \o (w \o b) /\ w \o b \in Seq(Nat)
  <2>1. (x \o w) \o b = x \o (w \o b)
    BY <1>5, <1>6, <1>7, JoinedLines, ZenonT(60)
  <2>. QED  BY <1>6, <1>7, <2>1, ConcatProperties
<1>. QED  BY <1>8, <1>9, <1>10 DEF x

\* The reader that follows gets what the log gains.
LEMMA ReaderFollows ==
    ASSUME LogsInv, NEW c \in Connections, recvFromWriter(c) PROVE ViewAgrees'
<1> DEFINE m == Head(wire[c])
           o == LinesOf(log[c])
           x == LinesOf(m.lines)
           n == LinesOf(log'[c])
           y == IF log[c] = NoLog THEN n ELSE x
           v == IF m.kind = "init" THEN <<>> ELSE WillView
<1>1. UNCHANGED <<sync_first, con, log_req, reader, overtaken>> /\ calls'.line = calls.line
      /\ current' = (IF m.kind = "init" THEN c ELSE current)
      /\ repeated' = (IF m.kind = "init" THEN c < current ELSE (repeated \/ c # current))
      /\ wiped' = (IF m.kind = "init" THEN FALSE ELSE wiped)
  BY DEF recvFromWriter, writerVars
<1>2. SUFFICES ASSUME sync_first = MovedFirst, ~overtaken, ~repeated', current' = con,
                      reader.connected, log_req
               PROVE  /\ Orderly(WillView' \o OnTheWay', calls.line) /\ Alike(WillView', Known')
                      /\ wiped' \/ Len(WillView') >= KeptOf(Len(Known'), KeepLines)
  BY <1>1 DEF ViewAgrees
<1>3. c = con
  BY <1>1, <1>2
<1>4. con # 0 /\ con > 0 /\ calls.line \in Nat /\ KeepLines \in Int /\ WillView \in Seq(Nat)
  <2>1. con > 0
    BY <1>2, MovedConnected
  <2>2. con # 0
    BY <2>1 DEF LogsInv, LogsTypeOK
  <2>. QED  BY <2>1, <2>2, ReadersType, PiecesType DEF LogsInv
<1>5. Known' = n
  <2>1. current' = c /\ current' # 0
    BY <1>2, <1>3, <1>4
  <2>. QED  BY <2>1 DEF Known
<1>6. /\ x \in Seq(Nat) /\ o \in Seq(Nat) /\ n \in Seq(Nat)
      /\ \E d \in Seq(Nat) : o \o x = d \o n
  BY ServerLogs
<1>7. WillView' = v \o y /\ y \in Seq(Nat) /\ v \in Seq(Nat)
  BY <1>2, ReaderGets
<1>8. /\ OnTheWay = x \o OnTheWay' /\ OnTheWay' \in Seq(Nat) /\ WillLog' = n \o OnTheWay'
  BY <1>2, <1>3, ServerTakes
<1>9. CASE m.kind = "init"
  <2>1. log[c] = NoLog
    BY <1>9, ServerReads
  <2>2. y = n /\ v = <<>>
    BY <1>9, <2>1
  <2> HIDE DEF n, v, y
  <2>3. WillView' = n
    BY <1>6, <1>7, <2>2, ConcatEmptySeq
  <2>4. Orderly(WillLog', calls.line)
    BY <1>1, <1>2, LogsAssumption, ServerAgrees DEF LogsAgree
  <2>5. Alike(n, n)
    BY <1>6, AlikeSame
  <2>6. Len(n) >= KeptOf(Len(n), KeepLines)
    <3>1. Len(n) \in Nat
      BY <1>6, LenProperties
    <3>. QED  BY <1>4, <3>1 DEF KeptOf
  <2>. QED  BY <1>5, <1>8, <2>3, <2>4, <2>5, <2>6
<1>10. CASE m.kind # "init"
  <2>1. current = con /\ ~repeated /\ wiped' = wiped
    BY <1>1, <1>2, <1>10
  <2>2. /\ Orderly(WillView \o OnTheWay, calls.line) /\ Alike(WillView, Known)
        /\ wiped \/ Len(WillView) >= KeptOf(Len(Known), KeepLines)
    BY <1>2, <2>1 DEF LogsInv, ViewAgrees
  <2>3. Known = o
    BY <1>3, <1>4, <2>1 DEF Known
  <2>4. v = WillView /\ (log[c] = NoLog => o = <<>> /\ y = n) /\ (log[c] # NoLog => y = x)
    BY <1>10 DEF LinesOf
  <2>5. PICK d \in Seq(Nat) : o \o x = d \o n
    BY <1>6
  <2> DEFINE w == OnTheWay'
             s == WillView
  <2>6. w \in Seq(Nat) /\ s \in Seq(Nat) /\ x \in Seq(Nat) /\ o \in Seq(Nat) /\ n \in Seq(Nat)
    BY <1>4, <1>6, <1>8
  <2>7. Orderly(s \o (x \o w), calls.line) /\ Alike(s, o) /\ (wiped \/ Len(s) >= KeptOf(Len(o), KeepLines))
    BY <1>8, <2>2, <2>3
  <2>8. CASE log[c] = NoLog
    <3>1. WillView' = s \o n /\ o = <<>>
      BY <1>7, <2>4, <2>8
    <3> HIDE DEF w, s, x, o, n, y, v
    <3>2. x = d \o n
      BY <2>5, <2>6, <3>1, ConcatEmptySeq
    <3>3. (d \o n) \o w = d \o (n \o w)
      BY <2>6, JoinedLines, ZenonT(60)
    <3>4. n \o w \in Seq(Nat)
      BY <2>6, ConcatProperties
    <3>5. Orderly(s \o (n \o w), calls.line)
      BY <1>4, <2>6, <2>7, <3>2, <3>3, <3>4, OrderlyMiddle
    <3>6. (s \o n) \o w = s \o (n \o w)
      <4>1. s \in Seq(Nat) /\ n \in Seq(Nat) /\ w \in Seq(Nat)
        BY <2>6
      <4>. QED  BY <4>1, JoinedLines, ZenonT(60)
    <3>7. Alike(s \o n, o \o n)
      BY <2>6, <2>7, AlikeGrows
    <3>8. o \o n = n
      BY <2>6, <3>1, ConcatEmptySeq
    <3>9. Len(s \o n) >= KeptOf(Len(n), KeepLines)
      <4>1. Len(s \o n) = Len(s) + Len(n) /\ Len(s) \in Nat /\ Len(n) \in Nat
        BY <2>6, JoinedLen
      <4>. QED  BY <1>4, <4>1 DEF KeptOf
    <3>10. Orderly(WillView' \o w, calls.line) /\ Alike(WillView', n)
           /\ Len(WillView') >= KeptOf(Len(n), KeepLines)
      BY <3>1, <3>5, <3>6, <3>7, <3>8, <3>9
    <3>. QED  BY <1>5, <3>10 DEF w
  <2>9. CASE log[c] # NoLog
    <3>1. WillView' = s \o x
      BY <1>7, <2>4, <2>9
    <3> HIDE DEF w, s, x, o, n, y, v
    <3>2. (s \o x) \o w = s \o (x \o w)
      <4>1. s \in Seq(Nat) /\ x \in Seq(Nat) /\ w \in Seq(Nat)
        BY <2>6
      <4>. QED  BY <4>1, JoinedLines, ZenonT(60)
    <3>3. Alike(s \o x, o \o x)
      BY <2>6, <2>7, AlikeGrows
    <3>4. s \o x \in Seq(Nat) /\ d \o n \in Seq(Nat)
      BY <2>6, ConcatProperties
    <3>5. Alike(d \o n, s \o x)
      BY <2>5, <3>3, <3>4, AlikeTurned
    <3>6. Alike(n, s \o x)
      BY <2>6, <3>4, <3>5, AlikeEnds
    <3>7. Alike(s \o x, n)
      BY <2>6, <3>4, <3>6, AlikeTurned
    <3>8. wiped \/ Len(s \o x) >= KeptOf(Len(n), KeepLines)
      <4>1. Len(s \o x) = Len(s) + Len(x) /\ Len(s) \in Nat /\ Len(x) \in Nat
        BY <2>6, JoinedLen
      <4>2. Len(o \o x) = Len(o) + Len(x) /\ Len(o) \in Nat
        BY <2>6, JoinedLen
      <4>3. Len(d \o n) = Len(d) + Len(n) /\ Len(d) \in Nat /\ Len(n) \in Nat
        BY <2>6, JoinedLen
      <4>4. Len(o) + Len(x) = Len(d) + Len(n)
        BY <2>5, <4>2, <4>3
      <4>. QED  BY <1>4, <2>7, <4>1, <4>2, <4>3, <4>4 DEF KeptOf
    <3>9. Orderly(WillView' \o w, calls.line) /\ Alike(WillView', n)
          /\ (wiped \/ Len(WillView') >= KeptOf(Len(n), KeepLines))
      BY <2>7, <3>1, <3>2, <3>7, <3>8
    <3>. QED  BY <1>5, <2>1, <3>9 DEF w
  <2>. QED  BY <2>8, <2>9
<1>. QED  BY <1>9, <1>10

LEMMA recvFromWriterInv ==
    ASSUME LogsInv, NEW c \in Connections, recvFromWriter(c) PROVE LogsInv'
<1>1. LogsTypeOK /\ WrittenLogged /\ FirstLeads
  BY DEF LogsInv
<1> DEFINE m == Head(wire[c])
<1>2. /\ UNCHANGED <<logs, data_send, data_recv, written, sync_first, sync_queue, app, ws, connected, con,
                     log_req, reader, view, overtaken, calls>>
      /\ current' = (IF m.kind = "init" THEN c ELSE current)
      /\ repeated' = (IF m.kind = "init" THEN c < current ELSE (repeated \/ c # current))
      /\ wiped' = (IF m.kind = "init" THEN FALSE ELSE wiped)
  BY DEF recvFromWriter, writerVars, logVars
<1>3. /\ wire[c] # <<>> /\ c <= con /\ con \in Connections /\ con > 0
      /\ wire' \in [Connections -> Seq(ToServer_)]
      /\ \A e \in Connections : e # c => wire'[e] = wire[e] /\ log'[e] = log[e]
      /\ \A i \in DOMAIN wire'[c] : wire'[c][i].kind # "init" /\ wire'[c][i].lines # NoLog
  BY ServerReads
<1>4. log' \in [Connections -> LinesSent] /\ received' \in Seq(ToReader_)
  BY ServerLogs, ReaderGets
<1>5. LogsTypeOK'
  <2>1. current' \in 0 .. con
    BY <1>1, <1>2, <1>3 DEF LogsTypeOK, Connections
  <2>2. repeated' \in BOOLEAN /\ wiped' \in BOOLEAN
    <3>1. repeated \in BOOLEAN /\ wiped \in BOOLEAN
      BY ReadersType
    <3> DEFINE p == c < current
               q == c # current
    <3>2. p \in BOOLEAN /\ q \in BOOLEAN
      OBVIOUS
    <3>3. repeated' = (IF m.kind = "init" THEN p ELSE (repeated \/ q))
      BY <1>2
    <3>4. wiped' = (IF m.kind = "init" THEN FALSE ELSE wiped)
      BY <1>2
    <3> HIDE DEF p, q, m
    <3>5. repeated' \in BOOLEAN
      BY <3>1, <3>2, <3>3
    <3>6. wiped' \in BOOLEAN
      BY <3>1, <3>4
    <3>. QED  BY <3>5, <3>6
  <2>3. UNCHANGED <<logs, data_send, data_recv, written, sync_first, sync_queue, app, ws, connected, con,
                    log_req, reader, view, overtaken, calls>>
    BY <1>2
  <2>4. wire' \in [Connections -> Seq(ToServer_)]
    BY <1>3
  <2> HIDE DEF m
  <2>. QED  BY <1>1, <1>4, <2>1, <2>2, <2>3, <2>4 DEF LogsTypeOK
<1>6. WrittenLogged'
  BY <1>1, <1>2 DEF WrittenLogged, OwnLog
<1>7. FirstLeads'
  <2>1. ws.pc = "first" => c # con
    BY <1>1, <1>3 DEF FirstLeads
  <2>2. ws.pc = "first" => current' # con /\ log'[con] = NoLog /\ wire'[con] = <<>>
    BY <1>1, <1>2, <1>3, <2>1 DEF FirstLeads
  <2>3. ASSUME NEW e \in Connections, e > con PROVE log'[e] = NoLog /\ wire'[e] = <<>>
    <3>1. e # c
      BY <1>3, <2>3 DEF Connections
    <3>. QED  BY <1>1, <1>3, <2>3, <3>1 DEF FirstLeads
  <2>4. ASSUME NEW e \in Connections, NEW i \in DOMAIN wire'[e]
        PROVE  IF wire'[e][i].kind = "init" THEN i = 1 /\ log'[e] = NoLog ELSE wire'[e][i].lines # NoLog
    <3>1. CASE e = c
      BY <1>3, <2>4, <3>1
    <3>2. CASE e # c
      <4>1. wire'[e] = wire[e] /\ log'[e] = log[e]
        BY <1>3, <3>2
      <4>2. i \in DOMAIN wire[e]
        BY <2>4, <4>1
      <4>. QED  BY <1>1, <4>1, <4>2 DEF FirstLeads
    <3>. QED  BY <3>1, <3>2
  <2>. QED  BY <1>1, <1>2, <2>2, <2>3, <2>4 DEF FirstLeads
<1>8. ReqUnderWay'
  <2>1. reader'.connected /\ ~log_req' /\ current' # 0 => WillView' = <<>>
    <3>1. SUFFICES ASSUME reader.connected, ~log_req, current' # 0 PROVE WillView' = <<>>
      BY <1>2
    <3>2. WillView' = IF m.kind = "init" THEN <<>> ELSE WillView
      BY <3>1, ReaderGets
    <3>3. m.kind # "init" => WillView = <<>>
      BY <1>2, <3>1 DEF LogsInv, ReqUnderWay
    <3>. QED  BY <3>2, <3>3
  <2>. QED  BY <1>2, <2>1 DEF LogsInv, ReqUnderWay
<1>. QED  BY <1>5, <1>6, <1>7, <1>8, ServerAgrees, ReaderFollows DEF LogsInv

LEMMA LogsInitInv == LogsInit => LogsInv
<1> SUFFICES ASSUME LogsInit PROVE LogsInv
  OBVIOUS
<1>1. /\ logs = <<>> /\ data_send = 0 /\ data_recv = 0 /\ sync_first = NoFirst /\ sync_queue = <<>>
      /\ app = [pc |-> "idle"] /\ ws = [pc |-> "top"] /\ connected = FALSE /\ con = 0
      /\ wire = [c \in Connections |-> <<>>] /\ log = [c \in Connections |-> NoLog]
      /\ current = 0 /\ log_req = FALSE /\ reader = ReaderInit /\ received = <<>> /\ view = NoLog
      /\ written = <<>> /\ overtaken = FALSE /\ repeated = FALSE /\ wiped = FALSE
      /\ calls = [line |-> 0, sync |-> 0, clear |-> 0, loss |-> 0]
  BY DEF LogsInit
<1>2. MaxLosses \in Nat /\ NoFirst # MovedFirst
  BY LogsAssumption
<1>3. \A S : <<>> \in Seq(S)
  BY EmptySeq
<1>4. reader \in [req : BOOLEAN, first : {"req", "empty", NoFirst, MovedFirst}, queue : Nat,
                  pc : {"idle", "request", "push"}, connected : BOOLEAN]
      /\ ~reader.connected /\ ~reader.req
  BY <1>1 DEF ReaderInit
<1>5. LogsTypeOK
  <2>1. wire \in [Connections -> Seq(ToServer_)] /\ log \in [Connections -> LinesSent]
    BY <1>1, <1>3 DEF LinesSent
  <2>2. logs \in Seq([data : Seq(Nat), sent : Nat]) /\ Len(logs) = 0 /\ sync_queue \in Seq(LinesSent)
        /\ received \in Seq(ToReader_)
    BY <1>1, <1>3
  <2>3. app \in [pc : {"idle"}] /\ ws \in [pc : {"top", "first"}] /\ view \in LinesSent
    BY <1>1 DEF LinesSent
  <2>4. calls \in [line : Nat, sync : Nat, clear : Nat, loss : Nat]
    BY <1>1
  <2>5. /\ data_send \in 0 .. Len(logs) /\ data_recv \in 0 .. Len(logs) /\ con \in 0 .. MaxLosses + 1
        /\ current \in 0 .. con
    BY <1>1, <1>2, <2>2
  <2>6. sync_first \in LinesSent \cup {NoFirst, MovedFirst} /\ connected \in BOOLEAN /\ log_req \in BOOLEAN
        /\ {overtaken, repeated, wiped} \subseteq BOOLEAN
    BY <1>1
  <2>. QED  BY <1>4, <2>1, <2>2, <2>3, <2>4, <2>5, <2>6 DEF LogsTypeOK
<1>6. WrittenLogged
  <2>1. Orderly(written, calls.line)
    BY <1>1, OrderlyEmpty
  <2>. QED  BY <1>1, <2>1 DEF WrittenLogged, OwnLog
<1>7. FirstLeads
  <2>1. ws.pc = "top" /\ \A c \in Connections : wire[c] = <<>> /\ log[c] = NoLog
    BY <1>1
  <2>. QED  BY <1>1, <1>2, <2>1 DEF FirstLeads
<1>8. LogsAgree /\ ReqUnderWay /\ ViewAgrees
  BY <1>1, <1>2, <1>4 DEF LogsAgree, ReqUnderWay, ViewAgrees
<1>. QED  BY <1>5, <1>6, <1>7, <1>8 DEF LogsInv

LEMMA LogsNextInv == LogsInv /\ [LogsNext]_logsVars => LogsInv'
<1> SUFFICES ASSUME LogsInv, [LogsNext]_logsVars PROVE LogsInv'
  OBVIOUS
<1>1. CASE writeLog \/ clear \/ Sync \/ syncData \/ messagePushAlways
  BY <1>1, writeLogInv, clearInv, SyncInv, syncDataInv, messagePushAlwaysInv
<1>2. CASE Connect \/ SendFirst \/ swap \/ send \/ Disconnect
  BY <1>2, ConnectInv, SendFirstInv, swapInv, sendInv, DisconnectInv
<1>3. ASSUME NEW c \in Connections, recvFromWriter(c) PROVE LogsInv'
  BY <1>3, recvFromWriterInv
<1>4. CASE request \/ messagePushReq \/ pushReq \/ syncReader
  BY <1>4, requestInv_
<1>5. CASE connectReader \/ sendReq \/ disconnectReader \/ recv \/ clearReceived
  BY <1>5, connectReaderInv, sendReqInv, disconnectReaderInv, recvReaderInv
<1>6. CASE UNCHANGED logsVars
  <2>1. UNCHANGED <<writerVars, serverVars, received, view, overtaken, repeated, wiped, calls, reader>>
    BY <1>6 DEF logsVars, readerVars
  <2>2. reader' \in ReaderSet
    BY <2>1, ReadersType
  <2>3. /\ reader.connected => reader.first = MovedFirst
        /\ reader.req => \/ reader.pc # "idle" \/ reader.queue > 0
                         \/ IF reader.connected THEN log_req ELSE reader.first \in {NoFirst, "req"}
    BY DEF LogsInv, ReqUnderWay
  <2>. QED  BY <2>1, <2>2, <2>3, AskingInv
<1>. QED  BY <1>1, <1>2, <1>3, <1>4, <1>5, <1>6 DEF LogsNext

\* The log of the writer, what the connection carries and the log of the server make up
\* what the server is going to have, and that ends with what was written; what a reader
\* that has asked for it is going to have ends with what the server has.
THEOREM LogsConsistent == LogsSpec => []LogsInv
<1>. QED  BY LogsInitInv, LogsNextInv, PTL DEF LogsSpec

LEMMA KeptMin ==
    ASSUME NEW n \in Nat
    PROVE  Kept(n) \in Nat /\ Kept(n) <= n /\ Kept(n) = KeptOf(KeptOf(n, KeepLog), KeepLines)
<1> DEFINE S == {n} \cup {k \in {KeepLog, KeepLines} : k >= 0}
           b == KeptOf(KeptOf(n, KeepLog), KeepLines)
<1>1. KeepLog \in Int /\ KeepLines \in Int
  BY LogsAssumption
<1>2. b \in S /\ b \in Nat /\ b <= n /\ \A k \in S : b <= k /\ k \in Int
  BY <1>1 DEF KeptOf
<1>3. Kept(n) = Min(S)
  BY DEF Kept
<1> HIDE DEF S, b
<1>4. Min(S) \in S /\ \A k \in S : Min(S) <= k
  BY <1>2 DEF Min
<1>5. Min(S) = b
  <2>1. Min(S) <= b /\ b <= Min(S) /\ Min(S) \in Int
    BY <1>2, <1>4
  <2>. QED  BY <1>2, <2>1
<1>. QED  BY <1>2, <1>3, <1>5 DEF b

LEMMA MinOfTwo ==
    ASSUME NEW a \in Nat, NEW b \in Nat PROVE Min({a, b}) = IF a <= b THEN a ELSE b
<1>1. Min({a, b}) \in {a, b} /\ \A k \in {a, b} : Min({a, b}) <= k
  <2>1. \E x \in {a, b} : \A y \in {a, b} : x <= y
    OBVIOUS
  <2>. QED  BY <2>1 DEF Min
<1>. QED  BY <1>1

LEMMA LastAlike ==
    ASSUME NEW s \in Seq(Nat), NEW t \in Seq(Nat), NEW n \in Nat, n <= Len(s), n <= Len(t),
           \A j \in 0 .. n - 1 : s[Len(s) - j] = t[Len(t) - j]
    PROVE  Last_(s, n) = Last_(t, n)
<1> DEFINE p == Len(s)
           q == Len(t)
<1>1. p \in Nat /\ q \in Nat /\ (\A i \in 1 .. p : s[i] \in Nat) /\ \A i \in 1 .. q : t[i] \in Nat
  BY LenProperties, ElementOfSeq
<1> DEFINE a == SubSeq(s, p - n + 1, p)
           b == SubSeq(t, q - n + 1, q)
<1>2. n <= p /\ n <= q
  OBVIOUS
<1>3. Last_(s, n) = a /\ Last_(t, n) = b /\ \A j \in 0 .. n - 1 : s[p - j] = t[q - j]
  BY DEF Last_
<1> HIDE DEF p, q
<1>4. /\ p - n + 1 \in Int /\ (\A i \in p - n + 1 .. p : s[i] \in Nat)
      /\ q - n + 1 \in Int /\ (\A i \in q - n + 1 .. q : t[i] \in Nat)
  BY <1>1, <1>2
<1>5. /\ a \in Seq(Nat) /\ Len(a) = (IF p - n + 1 <= p THEN p - (p - n + 1) + 1 ELSE 0)
      /\ \A i \in 1 .. p - (p - n + 1) + 1 : a[i] = s[(p - n + 1) + i - 1]
  BY <1>1, <1>4, SubSeqProperties
<1>6. /\ b \in Seq(Nat) /\ Len(b) = (IF q - n + 1 <= q THEN q - (q - n + 1) + 1 ELSE 0)
      /\ \A i \in 1 .. q - (q - n + 1) + 1 : b[i] = t[(q - n + 1) + i - 1]
  BY <1>1, <1>4, SubSeqProperties
<1> HIDE DEF a, b
<1>7. Len(a) = n /\ Len(b) = n
  BY <1>1, <1>2, <1>5, <1>6
<1>8. ASSUME NEW i \in 1 .. n PROVE a[i] = b[i]
  <2>1. a[i] = s[(p - n + 1) + i - 1] /\ b[i] = t[(q - n + 1) + i - 1]
    <3>1. i \in 1 .. (p - (p - n + 1)) + 1 /\ i \in 1 .. (q - (q - n + 1)) + 1
      BY <1>1, <1>2, <1>8
    <3>. QED  BY <1>5, <1>6, <3>1
  <2>2. n - i \in 0 .. n - 1
    BY <1>8
  <2>3. (p - n + 1) + i - 1 = p - (n - i) /\ (q - n + 1) + i - 1 = q - (n - i)
    BY <1>1, <1>8
  <2>. QED  BY <1>3, <2>1, <2>2, <2>3
<1>. QED  BY <1>3, <1>5, <1>6, <1>7, <1>8, SeqEqual

\* When nothing is on its way any more.
LEMMA SettledLogs ==
    ASSUME LogsInv, Settled, current = con, ~overtaken, ~repeated
    PROVE  /\ LinesOf(view) \in Seq(Nat) /\ Known \in Seq(Nat) /\ written \in Seq(Nat)
           /\ Orderly(LinesOf(view), calls.line)
           /\ Alike(LinesOf(view), Known) /\ Alike(Known, written)
           /\ wiped \/ Len(LinesOf(view)) >= KeptOf(Len(Known), KeepLines)
           /\ Len(Known) >= KeptOf(Len(written), KeepLog)
<1>1. /\ data_send = 0 /\ app.pc = "idle" /\ sync_queue = <<>>
      /\ connected /\ ws.pc = "top" /\ (\A c \in Connections : wire[c] = <<>>)
      /\ reader.connected /\ reader.req /\ reader.pc = "idle" /\ reader.queue = 0
      /\ received = <<>>
  BY DEF Settled
<1>2. con \in Connections /\ con > 0 /\ sync_first = MovedFirst /\ WillLog = LinesOf(log[con]) \o OnTheWay
  BY <1>1, MovedConnected
<1>3. LogsTypeOK
  BY DEF LogsInv
<1>4. con # 0 /\ view \in LinesSent
  BY <1>2, <1>3 DEF LogsTypeOK
<1>5. OnTheWay = <<>>
  <2>1. [i \in DOMAIN <<>> |-> wire[con][i].lines] = <<>>
    OBVIOUS
  <2>2. OnWire(con) = <<>>
    BY <1>1, <1>2, <2>1, InOrderEmpty DEF OnWire
  <2>3. SendingLines = <<>> /\ Pushing = <<>> /\ Unsent = <<>> /\ InOrder(sync_queue) = <<>>
    BY <1>1, InOrderEmpty DEF SendingLines, Pushing, Unsent
  <2>4. <<>> \o <<>> = <<>>
    OBVIOUS
  <2>5. Behind = <<>>
    BY <2>3, <2>4 DEF Behind
  <2>. QED  BY <2>2, <2>3, <2>4, <2>5 DEF OnTheWay
<1>6. Known = LinesOf(log[con])
  BY <1>4 DEF Known
<1>7. WillView = LinesOf(view)
  BY <1>1, <1>4, ViewAfterNone DEF WillView
<1>8. Known \in Seq(Nat) /\ LinesOf(view) \in Seq(Nat) /\ written \in Seq(Nat)
  BY <1>3, <1>4, PiecesType, LinesType, OrderlySeq DEF LogsInv, WrittenLogged, LogsTypeOK
<1>9. WillLog = Known
  BY <1>2, <1>5, <1>6, <1>8, ConcatEmptySeq
<1>10. Alike(Known, written) /\ Len(Known) >= KeptOf(Len(written), KeepLog)
  BY <1>2, <1>9, LogsAssumption DEF LogsInv, LogsAgree
<1>11. log_req
  BY <1>1 DEF LogsInv, ReqUnderWay
<1>12. /\ Orderly(WillView \o OnTheWay, calls.line) /\ Alike(WillView, Known)
       /\ wiped \/ Len(WillView) >= KeptOf(Len(Known), KeepLines)
  BY <1>1, <1>2, <1>11 DEF LogsInv, ViewAgrees
<1>13. LinesOf(view) \o <<>> = LinesOf(view)
  BY <1>8, ConcatEmptySeq
<1>. QED  BY <1>5, <1>7, <1>8, <1>10, <1>12, <1>13

LEMMA LogsInvArrive == LogsInv => LinesArrive
<1> SUFFICES ASSUME LogsInv, Settled, current = con, ~overtaken, ~repeated
             PROVE  LET known == IF view = NoLog THEN <<>> ELSE view
                        n == IF wiped THEN Min({Kept(Len(written)), Len(known)}) ELSE Kept(Len(written))
                    IN  /\ Len(known) >= n /\ Last_(known, n) = Last_(written, n)
                        /\ \A i \in 1 .. Len(known) - 1 : known[i] < known[i + 1]
  BY DEF LinesArrive
<1> DEFINE known == IF view = NoLog THEN <<>> ELSE view
           k == Kept(Len(written))
           n == IF wiped THEN Min({k, Len(known)}) ELSE k
<1>1. known = LinesOf(view)
  BY DEF LinesOf
<1>2. /\ known \in Seq(Nat) /\ Known \in Seq(Nat) /\ written \in Seq(Nat)
      /\ Orderly(known, calls.line) /\ Alike(known, Known) /\ Alike(Known, written)
      /\ wiped \/ Len(known) >= KeptOf(Len(Known), KeepLines)
      /\ Len(Known) >= KeptOf(Len(written), KeepLog)
  BY <1>1, SettledLogs
<1>3. KeepLog \in Int /\ KeepLines \in Int /\ calls.line \in Nat
  BY ReadersType
<1>4. Len(known) \in Nat /\ Len(Known) \in Nat /\ Len(written) \in Nat
  BY <1>2, LenProperties
<1>5. k \in Nat /\ k <= Len(written) /\ k = KeptOf(KeptOf(Len(written), KeepLog), KeepLines)
  BY <1>4, KeptMin
<1>6. k <= Len(Known) /\ (wiped \/ k <= Len(known))
  <2>1. k <= KeptOf(Len(written), KeepLog)
    BY <1>3, <1>4, <1>5 DEF KeptOf
  <2>2. KeptOf(Len(written), KeepLog) \in Nat
    BY <1>3, <1>4 DEF KeptOf
  <2>3. k <= KeptOf(Len(Known), KeepLines)
    BY <1>2, <1>3, <1>4, <1>5, <2>2 DEF KeptOf
  <2>4. KeptOf(Len(Known), KeepLines) \in Nat
    BY <1>3, <1>4 DEF KeptOf
  <2> HIDE DEF k, known
  <2>. QED  BY <1>2, <1>4, <1>5, <2>1, <2>2, <2>3, <2>4
<1> HIDE DEF k, known
<1>7. n \in Nat /\ n <= k /\ n <= Len(known)
  <2>1. CASE wiped
    <3>1. n = IF k <= Len(known) THEN k ELSE Len(known)
      BY <1>4, <1>5, <2>1, MinOfTwo
    <3>. QED  BY <1>4, <1>5, <3>1
  <2>2. CASE ~wiped
    BY <1>5, <1>6, <2>2
  <2>. QED  BY <2>1, <2>2
<1> HIDE DEF n
<1>8. n <= Len(written) /\ n <= Len(Known)
  BY <1>4, <1>5, <1>6, <1>7
<1>9. ASSUME NEW j \in 0 .. n - 1 PROVE known[Len(known) - j] = written[Len(written) - j]
  <2>1. j \in 0 .. Len(known) - 1 /\ j < Len(Known) /\ j \in 0 .. Len(Known) - 1 /\ j < Len(written)
    BY <1>4, <1>7, <1>8
  <2>2. known[Len(known) - j] = Known[Len(Known) - j]
    BY <1>2, <2>1 DEF Alike
  <2>3. Known[Len(Known) - j] = written[Len(written) - j]
    BY <1>2, <2>1 DEF Alike
  <2>. QED  BY <2>2, <2>3
<1>10. Last_(known, n) = Last_(written, n)
  BY <1>2, <1>7, <1>8, <1>9, LastAlike
<1>11. ASSUME NEW i \in 1 .. Len(known) - 1 PROVE known[i] < known[i + 1]
  <2>1. DOMAIN known = 1 .. Len(known)
    BY <1>2, LenProperties
  <2>2. i \in DOMAIN known /\ i + 1 \in DOMAIN known /\ i < i + 1
    BY <1>4, <2>1
  <2>. QED  BY <1>2, <2>2 DEF Orderly
<1>12. Len(known) >= n
  BY <1>4, <1>7
<1>. QED  BY <1>10, <1>11, <1>12 DEF known, k, n

\* Logs!LinesArrive, for all bounds, numbers of lines kept and losses: once nothing is on
\* its way, the reader has the last lines of the writer's log, each once and in their order.
THEOREM LogLinesArrive == LogsSpec => []LinesArrive
<1>1. LogsSpec => []LogsInv
  BY LogsConsistent
<1>2. LogsInv => LinesArrive
  BY LogsInvArrive
<1>. QED  BY <1>1, <1>2, PTL
=============================================================================
