-------------------------------- MODULE Pings --------------------------------
(***************************************************************************)
(* Pings: every round the server pings all members and publishes how long    *)
(* their answers to the last ping took; a client asks for that with a request *)
(* of its own, which is made before, during or after its connection and      *)
(* repeated on every connection (client/src/member.cc, client_msg_sync.cc,    *)
(* client_threading.cc; server-store/src/websock.cc, member_data.cc).          *)
(*                                                                         *)
(* A duration is not a number here but what it has been measured between: the *)
(* ping that was sent last, and the ping that was answered.                    *)
(***************************************************************************)
EXTENDS Integers, Sequences

CONSTANTS
    Client,
    MaxRounds,      \* bound: rounds of the server
    MaxConnections        \* bound: connections of a client

VARIABLES
    (* the client *)
    ping_status_req,    \* the application has asked
    asking,             \* a thread of it is in pingStatusReq(), and whether sync_first has been
                        \* made meanwhile: "no", "yes" or "overtaken"
    ping_first,         \* sync_first: whether it contains the request, if there is one
    ping_queue,         \* sync_queue: messages that wait
    recv_queue,         \* those received that sync() has not looked at
    up,                 \* the connection: "up", "lost" or "down"
    links,              \* how many connections there have been
    known_status,       \* ping_status: what was received last
    (* the network *)
    to_server, to_client,
    (* the server *)
    member,             \* [req, sent, duration] of the MemberData of the client, or NoMember
    ping_status,        \* published last: its round, and a set of [client, against, of]
    round,              \* history: how many rounds there have been
    missed              \* history: sync_first was made while the request was

clientVars == <<ping_status_req, asking, ping_first, ping_queue, recv_queue>>
linkVars == <<up, links, to_server, to_client>>
registryVars == <<member, ping_status, round>>
pingVars == <<clientVars, linkVars, registryVars, known_status, missed>>

NoMember == [there |-> FALSE]
\* sent: the round of the ping sent last, 0 before the first (the epoch).  duration: of the
\* answer since then.
NoDuration == [against |-> -1, of |-> -1]
NewMember == [there |-> TRUE, req |-> FALSE, sent |-> 0, duration |-> NoDuration]
Ping(n) == [kind |-> "ping", n |-> n]
Req == [kind |-> "ping_status_req"]
NoPingFirst == [kind |-> "nullopt"]
First(asks) == [kind |-> "sync_init", req |-> asks]
Moved == [kind |-> "moved"]
Status(s) == [kind |-> "ping_status", status |-> s]
NoStatus == [round |-> 0, durations |-> {}]

PingInit ==
    /\ ping_status_req = [c \in Client |-> FALSE] /\ asking = [c \in Client |-> "no"]
    /\ ping_first = [c \in Client |-> NoPingFirst]
    /\ ping_queue = [c \in Client |-> <<>>] /\ recv_queue = [c \in Client |-> <<>>]
    /\ up = [c \in Client |-> "down"] /\ links = [c \in Client |-> 0]
    /\ known_status = [c \in Client |-> NoStatus]
    /\ to_server = [c \in Client |-> <<>>] /\ to_client = [c \in Client |-> <<>>]
    /\ member = [c \in Client |-> NoMember] /\ ping_status = NoStatus /\ round = 0
    /\ missed = [c \in Client |-> FALSE]

Set(f, c, x) == [f EXCEPT ![c] = x]
Push(q, c, m) == [q EXCEPT ![c] = Append(@, m)]

----------------------------------------------------------------------------
(* The application.                                                        *)

\* pingStatusReq: messagePushReq looks at sync_first, and queues the request if there is one.
pingStatusReq(c) ==
    /\ asking[c] = "no" /\ ~ping_status_req[c]
    /\ asking' = Set(asking, c, "yes")
    /\ ping_queue' = IF ping_first[c] # NoPingFirst THEN Push(ping_queue, c, Req) ELSE ping_queue
    /\ UNCHANGED <<ping_status_req, ping_first, recv_queue, linkVars, registryVars, known_status,
                   missed>>

\* Only then the flag, without a lock.
setPingStatusReq(c) ==
    /\ asking[c] # "no"
    /\ ping_status_req' = Set(ping_status_req, c, TRUE) /\ asking' = Set(asking, c, "no")
    /\ missed' = Set(missed, c, asking[c] = "overtaken")
    /\ UNCHANGED <<ping_first, ping_queue, recv_queue, linkVars, registryVars, known_status>>

Overtaken(c) == IF ping_first[c] = NoPingFirst /\ asking[c] # "no"
                THEN Set(asking, c, "overtaken") ELSE asking

\* sync() without a connection: the first message is made, to be sent once there is one.
syncDataFirst(c) ==
    /\ up[c] # "up" /\ ping_first[c] = NoPingFirst
    /\ ping_first' = Set(ping_first, c, First(ping_status_req[c]))
    /\ asking' = Overtaken(c)
    /\ UNCHANGED <<ping_status_req, ping_queue, recv_queue, linkVars, registryVars,
                   known_status, missed>>

\* What sync() does with a message: a ping is answered if there is a connection, which need
\* not be the one that it has come from.
onRecv(c) ==
    /\ recv_queue[c] # <<>>
    /\ recv_queue' = [recv_queue EXCEPT ![c] = Tail(@)]
    /\ LET m == Head(recv_queue[c])
       IN  CASE m.kind = "ping" ->
                  /\ ping_queue' = IF up[c] = "up" THEN Push(ping_queue, c, m) ELSE ping_queue
                  /\ UNCHANGED known_status
             [] m.kind = "ping_status" ->
                  known_status' = Set(known_status, c, m.status) /\ UNCHANGED ping_queue
    /\ UNCHANGED <<ping_status_req, asking, ping_first, linkVars, registryVars, missed>>

----------------------------------------------------------------------------
(* The communication thread.                                               *)

\* A defect that the properties exclude: only what is requested later is sent.
connectWithoutReq(c) ==
    /\ up[c] = "down" /\ links[c] < MaxConnections
    /\ up' = Set(up, c, "up") /\ links' = Set(links, c, links[c] + 1)
    /\ to_server' = Set(to_server, c, <<First(FALSE)>>)
    /\ ping_first' = Set(ping_first, c, Moved)
    /\ member' = Set(member, c, NewMember)
    /\ asking' = Overtaken(c)
    /\ UNCHANGED <<ping_status_req, ping_queue, recv_queue, to_client, ping_status, round,
                   known_status, missed>>

\* The first message is the one that sync() has made, or is made now; what is left of it,
\* the moved value, tells that it has been sent.
connect(c) ==
    /\ up[c] = "down" /\ links[c] < MaxConnections
    /\ up' = Set(up, c, "up") /\ links' = Set(links, c, links[c] + 1)
    /\ to_server' = Set(to_server, c, <<IF ping_first[c] # NoPingFirst THEN ping_first[c]
                                        ELSE First(ping_status_req[c])>>)
    /\ ping_first' = Set(ping_first, c, Moved)
    /\ member' = Set(member, c, NewMember)
    /\ asking' = Overtaken(c)
    /\ UNCHANGED <<ping_status_req, ping_queue, recv_queue, to_client, ping_status, round,
                   known_status, missed>>

sendOne(c) ==
    /\ up[c] = "up" /\ ping_queue[c] # <<>>
    /\ to_server' = Push(to_server, c, Head(ping_queue[c]))
    /\ ping_queue' = [ping_queue EXCEPT ![c] = Tail(@)]
    /\ UNCHANGED <<ping_status_req, asking, ping_first, recv_queue, up, links, to_client,
                   registryVars, known_status, missed>>

recvMessage(c) ==
    /\ up[c] = "up" /\ to_client[c] # <<>>
    /\ recv_queue' = Push(recv_queue, c, Head(to_client[c]))
    /\ to_client' = [to_client EXCEPT ![c] = Tail(@)]
    /\ UNCHANGED <<ping_status_req, asking, ping_first, ping_queue, up, links, to_server,
                   registryVars, known_status, missed>>

\* The connection ends, and with it what is under way, the messages that were taken out of
\* the queue to be sent (any number of the first) and the server's MemberData.
disconnect(c) ==
    /\ up[c] = "up"
    /\ up' = Set(up, c, "lost")
    /\ to_server' = Set(to_server, c, <<>>) /\ to_client' = Set(to_client, c, <<>>)
    /\ member' = Set(member, c, NoMember)
    /\ \E n \in 0 .. Len(ping_queue[c]) :
         ping_queue' = Set(ping_queue, c, SubSeq(ping_queue[c], n + 1, Len(ping_queue[c])))
    /\ UNCHANGED <<ping_status_req, asking, ping_first, recv_queue, links, ping_status, round,
                   known_status, missed>>

\* sync_first is reset later, under its own lock.
disconnected(c) ==
    /\ up[c] = "lost"
    /\ up' = Set(up, c, "down") /\ ping_first' = Set(ping_first, c, NoPingFirst)
    /\ missed' = Set(missed, c, FALSE)
    /\ asking' = IF asking[c] = "overtaken" THEN Set(asking, c, "yes") ELSE asking
    /\ UNCHANGED <<ping_status_req, ping_queue, recv_queue, links, to_server, to_client,
                   registryVars, known_status>>

----------------------------------------------------------------------------
(* The server, under server_mtx.                                            *)

\* MemberData::onRecv.  A request is answered at once with the status of the last round.
serverRecv(c) ==
    /\ to_server[c] # <<>>
    /\ to_server' = [to_server EXCEPT ![c] = Tail(@)]
    /\ LET m == Head(to_server[c])
           asks == m.kind = "ping_status_req" \/ (m.kind = "sync_init" /\ m.req)
       IN  /\ member' = [member EXCEPT
                 ![c].req = @ \/ asks,
                 ![c].duration = IF m.kind = "ping" THEN [against |-> member[c].sent, of |-> m.n]
                                 ELSE @]
           /\ to_client' = IF asks /\ round > 0 THEN Push(to_client, c, Status(ping_status))
                           ELSE to_client
    /\ UNCHANGED <<clientVars, up, links, ping_status, round, known_status, missed>>

\* A defect that the properties exclude: the measured duration stays.
sendPingKeeps(m) == [m EXCEPT !.sent = round + 1]

\* MemberData::sendPing
sendPing(m) == [m EXCEPT !.sent = round + 1, !.duration = NoDuration]

\* pingThreadMain: first the status of all, then ping and status to each.
pingRound ==
    /\ round < MaxRounds
    /\ round' = round + 1
    /\ LET measured == {c \in Client : member[c].there /\ member[c].duration # NoDuration}
           status == [round |-> round',
                      durations |-> {[client |-> c, against |-> member[c].duration.against,
                                      of |-> member[c].duration.of] : c \in measured}]
       IN  /\ ping_status' = status
           /\ to_client' = [c \in Client |->
                IF ~member[c].there THEN to_client[c]
                ELSE to_client[c] \o <<Ping(round')>>
                     \o (IF member[c].req THEN <<Status(status)>> ELSE <<>>)]
    /\ member' = [c \in Client |-> IF member[c].there THEN sendPing(member[c]) ELSE member[c]]
    /\ UNCHANGED <<clientVars, up, links, to_server, known_status, missed>>

----------------------------------------------------------------------------
PingNext ==
    \/ \E c \in Client :
        \/ pingStatusReq(c) \/ setPingStatusReq(c) \/ syncDataFirst(c) \/ onRecv(c)
        \/ connect(c) \/ sendOne(c) \/ recvMessage(c) \/ disconnect(c) \/ disconnected(c)
        \/ serverRecv(c)
    \/ pingRound

PingSpec == PingInit /\ [][PingNext]_pingVars

----------------------------------------------------------------------------
(* Properties.                                                             *)

Waiting(q, c) == \E i \in DOMAIN q[c] : q[c][i].kind \in {"ping_status_req", "sync_init"}

\* The server knows of a request on every connection of the client, once the messages that
\* say so have arrived, whenever the application asked: before the first connection, between
\* sync() and the connection, while connected or while the connection was being lost.
\* Except when sync_first was made between messagePushReq and the flag: then it is not in
\* either, and nothing asks again before the next connection (client_msg_sync.cc:20-25).
RequestKnown ==
    \A c \in Client :
        (/\ ping_status_req[c] /\ asking[c] = "no" /\ ~missed[c] /\ up[c] = "up"
         /\ ~Waiting(to_server, c) /\ ~Waiting(ping_queue, c))
        => member[c].req

\* The status there are: published last, and those that clients know.
StatusKnown == {ping_status} \cup {known_status[c] : c \in Client}

\* A duration counts from the ping of the round before, even if it is an older one that has
\* been answered (RoundTrip), or from no ping at all, 0: the answer to a ping of a former
\* connection, which arrived before the first ping of this one.  No answer is to a ping that
\* was sent after what it counts from.
MeasuredWell(s) ==
    \A d \in s.durations : d.against \in {0, s.round - 1} /\ (d.against # 0 => d.of <= d.against)

\* What is told of a client in a later round is the answer to a later ping: no answer is told
\* in two rounds, or after one that overtook it, however late it comes and over whichever
\* connection.
NewerTold(s, t) ==
    s.round < t.round =>
        \A d \in s.durations, e \in t.durations : d.client = e.client => d.of < e.of

\* Every duration that is published or known to a client: an answer since the last round,
\* that has not been told before.
Measured ==
    /\ \A s \in StatusKnown : MeasuredWell(s)
    /\ \A s, t \in StatusKnown : NewerTold(s, t)

\* "サーバーからクライアントに各クライアントのping往復時間(ms)をまとめて送ります"
\* (docs/81_message.md:77): a duration is that of one round trip, from a ping to its own
\* answer.  It is not when the answer comes after the next ping (member_data.cc:164-168).
RoundTrip == \A d \in ping_status.durations : d.of = d.against

----------------------------------------------------------------------------
(* The inductive strengthening of the properties.                          *)

\* The messages there are.
StatusTold == {s \in [round : Nat, durations : SUBSET [client : Client, against : Nat, of : Nat]] :
                  MeasuredWell(s)}
PingTold == [kind : {"ping"}, n : 1 .. round]
ToClient == PingTold \cup [kind : {"ping_status"}, status : StatusTold]
Queued == PingTold \cup {Req}
ToServer == Queued \cup {First(TRUE), First(FALSE)}

\* An answer is measured against the last ping, which is that of the last round or none.
Registered == [there : {TRUE}, req : BOOLEAN, sent : {0, round},
               duration : {NoDuration} \cup [against : {0, round}, of : 1 .. round]]

PingTypeOK ==
    /\ ping_status_req \in [Client -> BOOLEAN] /\ missed \in [Client -> BOOLEAN]
    /\ asking \in [Client -> {"no", "yes", "overtaken"}]
    /\ ping_first \in [Client -> {NoPingFirst, Moved, First(TRUE), First(FALSE)}]
    /\ ping_queue \in [Client -> Seq(Queued)] /\ recv_queue \in [Client -> Seq(ToClient)]
    /\ up \in [Client -> {"up", "lost", "down"}] /\ links \in [Client -> Nat]
    /\ known_status \in [Client -> StatusTold] /\ ping_status \in StatusTold
    /\ to_server \in [Client -> Seq(ToServer)] /\ to_client \in [Client -> Seq(ToClient)]
    /\ member \in [Client -> Registered \cup {NoMember}] /\ round \in Nat

\* The first message is made before a connection, and has been sent while there is one.  The
\* server has a MemberData while there is one.
InTime(c) ==
    /\ up[c] = "down" <=> ping_first[c] # Moved
    /\ IF up[c] = "up" THEN member[c] \in Registered
       ELSE member[c] = NoMember /\ to_server[c] = <<>>
DurationSince(c) ==
    (member[c].there /\ member[c].duration # NoDuration)
        => member[c].duration.against = member[c].sent

\* A request that was not missed goes out with the first message of the next connection, or
\* waits to be sent, or is on its way, or has arrived.
Asked(c) == \/ ping_status_req[c] /\ asking[c] = "no" /\ ~missed[c]
            \/ asking[c] = "yes"
Sends(q, m) == \E i \in DOMAIN q : q[i] = m
UnderWay(c) ==
    \/ Sends(ping_queue[c], Req)
    \/ ping_first[c] = First(TRUE)
    \/ Sends(to_server[c], Req) \/ Sends(to_server[c], First(TRUE))
    \/ up[c] = "up" /\ member[c].req
RequestUnderWay(c) ==
    (Asked(c) /\ ping_first[c] # NoPingFirst /\ up[c] # "lost") => UnderWay(c)

PingInv ==
    PingTypeOK /\ \A c \in Client : InTime(c) /\ DurationSince(c) /\ RequestUnderWay(c)

\* The order of the answers.  The pings that are in a queue, and the status.
PingOf(m) == IF m.kind = "ping" THEN {m.n} ELSE {}
StatusOf(m) == IF m.kind = "ping_status" THEN {m.status} ELSE {}
PingsIn(q) == UNION {PingOf(q[i]) : i \in DOMAIN q}
StatusIn(q) == UNION {StatusOf(q[i]) : i \in DOMAIN q}
OlderAll(S, T) == \A a \in S, b \in T : a < b
Rising(q) == \A i, j \in DOMAIN q : i < j => OlderAll(PingOf(q[i]), PingOf(q[j]))

\* What was answered last, if it has not been told.
AnswerOf(m) == IF m.there /\ m.duration # NoDuration THEN {m.duration.of} ELSE {}
LastAnswer(c) == AnswerOf(member[c])
\* From the one that was answered last to those sent last: the pings of a client that are not
\* told yet go round in the order in which they were sent, whatever is lost of them.
InLine(c) ==
    LET S == PingsIn(to_server[c])   Q == PingsIn(ping_queue[c])
        R == PingsIn(recv_queue[c])  C == PingsIn(to_client[c])
    IN  /\ Rising(to_server[c]) /\ Rising(ping_queue[c])
        /\ Rising(recv_queue[c]) /\ Rising(to_client[c])
        /\ OlderAll(LastAnswer(c), S \cup Q \cup R \cup C)
        /\ OlderAll(S, Q \cup R \cup C) /\ OlderAll(Q, R \cup C) /\ OlderAll(R, C)
Untold(c) == LastAnswer(c) \cup PingsIn(to_server[c]) \cup PingsIn(ping_queue[c])
                         \cup PingsIn(recv_queue[c]) \cup PingsIn(to_client[c])

\* The status there are, those on their way included: none is of a later round or of a
\* ping not sent yet, and what it tells of a client is older than all that is not told yet.
StatusThere ==
    StatusKnown \cup UNION {StatusIn(recv_queue[c]) \cup StatusIn(to_client[c]) : c \in Client}
OlderThanUntold(s) ==
    /\ s.round <= round /\ \A d \in s.durations : d.of <= round
    /\ \A c \in Client, d \in s.durations : d.client = c => OlderAll({d.of}, Untold(c))

OrderInv ==
    /\ \A c \in Client : InLine(c)
    /\ \A s \in StatusThere : OlderThanUntold(s)
    /\ \A s, t \in StatusThere : NewerTold(s, t)
============================================================================
