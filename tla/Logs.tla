-------------------------------- MODULE Logs --------------------------------
(***************************************************************************)
(* Log lines: how they get from the member that writes them, over the       *)
(* server, to a client that has asked for them (client/src/log.cc, the log   *)
(* cases of client_msg_sync.cc and client_msg_recv.cc, and of MemberData).   *)
(*                                                                         *)
(* All other data is replaced by what comes later; lines are appended, by    *)
(* the writer, the server and the reader, so that a message which comes      *)
(* twice, late or not at all stays visible.  The writer's ws thread has the  *)
(* steps it has in ClientSync; the reader's is shorter, since only its       *)
(* requests matter here.  That sync_first fails to be sent is in ClientSync. *)
(***************************************************************************)
EXTENDS Integers, SequencesExt

CONSTANTS KeepLog,      \* ServerStorage::keep_log, or less than 0 for no limit
          KeepLines,    \* log_keep_lines of the reader, likewise
          NoLog,        \* there is no log of this name
          NoFirst,      \* std::nullopt
          MovedFirst,   \* what std::move leaves of sync_first
          MaxWrites,    \* bounds: calls of append() and clear(), by both,
          MaxSyncs,     \*   calls of sync(),
          MaxClears,    \*   calls of clear() among them,
          MaxLosses     \*   connections lost, likewise

ASSUME LogsAssumption ==
    /\ KeepLog \in Int /\ KeepLines \in Int /\ MaxLosses \in Nat
    /\ NoFirst # MovedFirst /\ NoLog \notin {NoFirst, MovedFirst}
    /\ NoFirst \notin {"req", "empty"} /\ MovedFirst \notin {"req", "empty"}
    /\ \A none \in {NoLog, NoFirst, MovedFirst} : none \notin Seq(Nat)

Connections == 1 .. MaxLosses + 1

VARIABLES
    logs,           \* the LogData objects of the writer
    data_send,      \* log_store.data_send: the last one given to setSend, or 0
    data_recv,      \* log_store.data_recv of the writer itself, or 0
    sync_first,     \* of the writer
    sync_queue,     \* of the writer: the lines of the snapshots, or NoLog
    app,            \* where the writer's application is in sync()
    ws,             \* where the writer's ws thread is, and what it is sending
    connected,      \* of the writer
    con,            \* the number of the writer's connection
    wire,           \* [Connections -> messages the server has not read]
    log,            \* [Connections -> MemberData::log of the writer's connections]
    current,        \* the connection that clients_by_id has, or 0
    log_req,        \* MemberData::log_req of the reader's connection
    reader,         \* the reader's client, see ReaderInit
    received,       \* the reader's recv_queue
    view,           \* the reader's data_recv of the writer
    written,        \* history: the lines of the writer's log, without those cleared
    overtaken,      \* history: what the server has got on this connection contains
                    \* lines that sync_first had, and then a snapshot of before
    repeated,       \* history: since the reader has last been told of the writer,
                    \* it has been sent the log twice, or of an old connection
    wiped,          \* history: the reader has called clear() since then
    calls           \* for the bounds

logVars == <<logs, data_send, data_recv, written>>
writerVars == <<logVars, sync_first, sync_queue, app, ws, connected, con>>
serverVars == <<wire, log, current, log_req>>
readerVars == <<reader, received, view>>
logsVars == <<writerVars, serverVars, readerVars, overtaken, repeated, wiped, calls>>

\* A reader's pushing is the Req that messagePushReq is about to decide on or to queue.
ReaderInit == [req |-> FALSE, first |-> NoFirst, queue |-> 0, pc |-> "idle",
               connected |-> FALSE]

LogsInit ==
    /\ logs = <<>> /\ data_send = 0 /\ data_recv = 0
    /\ sync_first = NoFirst /\ sync_queue = <<>>
    /\ app = [pc |-> "idle"] /\ ws = [pc |-> "top"]
    /\ connected = FALSE /\ con = 0
    /\ wire = [c \in Connections |-> <<>>] /\ log = [c \in Connections |-> NoLog]
    /\ current = 0 /\ log_req = FALSE
    /\ reader = ReaderInit /\ received = <<>> /\ view = NoLog
    /\ written = <<>> /\ overtaken = FALSE /\ repeated = FALSE /\ wiped = FALSE
    /\ calls = [line |-> 0, sync |-> 0, clear |-> 0, loss |-> 0]

Bounded(counter, max) ==
    /\ calls[counter] < max
    /\ calls' = [calls EXCEPT ![counter] = @ + 1]

\* The last k of some lines.
Last_(s, k) == SubSeq(s, Len(s) - k + 1, Len(s))
Trimmed(s, keep) == IF keep >= 0 /\ Len(s) > keep THEN Last_(s, keep) ELSE s

---------------------------------------------------------------------------
(* The writer's application *)

\* getRecv of its own log: what waits to be sent comes first.
OwnLog == IF data_send # 0 THEN data_send ELSE data_recv

\* writeLog: one more line in the log there is, or in a new one.
writeLog ==
    /\ Bounded("line", MaxWrites - calls.clear)
    /\ LET obj == IF OwnLog # 0 THEN OwnLog ELSE Len(logs) + 1
           old == IF OwnLog # 0 THEN logs ELSE Append(logs, [data |-> <<>>, sent |-> 0])
       IN  /\ logs' = [old EXCEPT ![obj].data = Append(@, calls'.line)]
           /\ data_send' = obj
    /\ written' = Append(written, calls'.line)
    /\ UNCHANGED <<data_recv, sync_first, sync_queue, app, ws, connected, con, serverVars,
                   readerVars, overtaken, repeated, wiped>>

\* Log::clear() of its own log: transferSend undoes it if lines wait to be sent.
clear ==
    /\ Bounded("clear", Min({MaxClears, MaxWrites - calls.line}))
    /\ logs' = Append(logs, [data |-> <<>>, sent |-> 0])
    /\ data_recv' = Len(logs')
    /\ written' = IF data_send = 0 THEN <<>> ELSE written
    /\ UNCHANGED <<data_send, sync_first, sync_queue, app, ws, connected, con, serverVars,
                   readerVars, overtaken, repeated, wiped>>

\* LogData::getAll and getDiff: what is sent of a log.
AllLines(obj) == logs[obj].data
NewLines(obj) == SubSeq(logs[obj].data, logs[obj].sent + 1, Len(logs[obj].data))
Sent(obj) == [logs EXCEPT ![obj].sent = Len(logs[obj].data)]

\* transferSend, and getAll or getDiff of what it returns.
TakeAll ==
    /\ data_recv' = OwnLog /\ data_send' = 0
    /\ logs' = IF OwnLog # 0 THEN Sent(OwnLog) ELSE logs
    /\ UNCHANGED written
AllOfIt == IF OwnLog # 0 THEN AllLines(OwnLog) ELSE NoLog
TakeNew ==
    /\ data_recv' = OwnLog /\ data_send' = 0
    /\ logs' = IF data_send # 0 THEN Sent(data_send) ELSE logs
    /\ UNCHANGED written
NewOfIt == IF data_send # 0 THEN NewLines(data_send) ELSE NoLog

\* Lines that sync_first contains and that are to be sent again after it.
Overtakes == \/ app.pc = "push" /\ app.lines \notin {NoLog, <<>>}
             \/ \E i \in DOMAIN sync_queue : sync_queue[i] \notin {NoLog, <<>>}

\* syncImpl looks at connected, and then makes sync_first or a snapshot, which it queues.
Sync ==
    /\ app.pc = "idle"
    /\ Bounded("sync", MaxSyncs)
    /\ app' = [pc |-> "sync", connected2 |-> connected]
    /\ UNCHANGED <<logVars, sync_first, sync_queue, ws, connected, con,
                   serverVars, readerVars, overtaken, repeated, wiped>>
syncData ==
    /\ app.pc = "sync"
    /\ IF ~app.connected2 /\ sync_first = NoFirst
       THEN /\ TakeAll
            /\ sync_first' = AllOfIt /\ overtaken' = Overtakes
            /\ app' = [pc |-> "idle"]
       ELSE /\ TakeNew
            /\ app' = [pc |-> "push", lines |-> NewOfIt]
            /\ UNCHANGED <<sync_first, overtaken>>
    /\ UNCHANGED <<sync_queue, ws, connected, con, serverVars, readerVars, repeated,
                   wiped, calls>>
messagePushAlways ==
    /\ app.pc = "push"
    /\ sync_queue' = Append(sync_queue, app.lines)
    /\ app' = [pc |-> "idle"]
    /\ UNCHANGED <<logVars, sync_first, ws, connected, con, serverVars,
                   readerVars, overtaken, repeated, wiped, calls>>

---------------------------------------------------------------------------
(* The writer's ws thread *)

Connect ==
    /\ ~connected /\ ws.pc = "top"
    /\ con < MaxLosses + 1
    /\ connected' = TRUE /\ con' = con + 1
    /\ ws' = [pc |-> "first"]
    /\ UNCHANGED <<logVars, sync_first, sync_queue, app, serverVars,
                   readerVars, overtaken, repeated, wiped, calls>>

\* sync_first, made now if sync() has not, goes after sync_init, in one message.
SendFirst ==
    /\ ws.pc = "first"
    /\ IF sync_first = NoFirst
       THEN /\ TakeAll
            /\ wire' = [wire EXCEPT ![con] = <<[kind |-> "init", lines |-> AllOfIt]>>]
            /\ overtaken' = Overtakes
       ELSE /\ wire' = [wire EXCEPT ![con] = <<[kind |-> "init", lines |-> sync_first]>>]
            /\ UNCHANGED <<logVars, overtaken>>
    /\ sync_first' = MovedFirst
    /\ ws' = [pc |-> "top"]
    /\ UNCHANGED <<sync_queue, app, connected, con, log, current, log_req, readerVars,
                   repeated, wiped, calls>>

swap ==
    /\ connected /\ ws.pc = "top" /\ sync_queue # <<>>
    /\ ws' = [pc |-> "send", queue |-> sync_queue]
    /\ sync_queue' = <<>>
    /\ UNCHANGED <<logVars, sync_first, app, connected, con, serverVars,
                   readerVars, overtaken, repeated, wiped, calls>>
send ==
    /\ ws.pc = "send"
    /\ wire' = IF Head(ws.queue) = NoLog THEN wire
               ELSE [wire EXCEPT ![con] =
                        Append(@, [kind |-> "log", lines |-> Head(ws.queue)])]
    /\ ws' = IF Len(ws.queue) = 1 THEN [pc |-> "top"]
             ELSE [ws EXCEPT !.queue = Tail(@)]
    /\ UNCHANGED <<logVars, sync_first, sync_queue, app, connected, con,
                   log, current, log_req, readerVars, overtaken, repeated, wiped, calls>>

\* The connection is lost in recv or send: what was swapped out is dropped, and the
\* server reads some of what has been sent, perhaps only after the next connection.
Disconnect ==
    /\ connected /\ ws.pc \in {"top", "send"}
    /\ Bounded("loss", MaxLosses)
    /\ \E k \in 0 .. Len(wire[con]) : wire' = [wire EXCEPT ![con] = SubSeq(@, 1, k)]
    /\ connected' = FALSE /\ sync_first' = NoFirst
    /\ ws' = [pc |-> "top"]
    /\ UNCHANGED <<logVars, sync_queue, app, con, log, current, log_req,
                   readerVars, overtaken, repeated, wiped>>

---------------------------------------------------------------------------
(* The server *)

Res(lines) == [kind |-> "res", lines |-> lines]
Init_ == [kind |-> "init", lines |-> NoLog]

\* The log after a Log message, and what of it goes on to the readers: the lines that
\* have come, unless they are the first ones and too many.
Logged(old, lines) ==
    Trimmed(IF old = NoLog THEN lines ELSE old \o lines, KeepLog)
Relayed(old, lines) == IF old = NoLog THEN Trimmed(lines, KeepLog) ELSE lines

\* To the reader: news of the writer, and its lines if the reader has asked for them.
ToReader(news, lines) ==
    received' = IF ~reader.connected THEN received
                ELSE received \o news \o
                        (IF log_req /\ lines # NoLog THEN <<Res(lines)>> ELSE <<>>)

\* MemberData::onRecv of connection c: sync_init, and log.
recvFromWriter(c) ==
    LET m == Head(wire[c])
        news == IF m.kind = "init" THEN <<Init_>> ELSE <<>>
    IN  /\ wire[c] # <<>>
        /\ wire' = [wire EXCEPT ![c] = Tail(@)]
        /\ current' = IF m.kind = "init" THEN c ELSE current
        /\ IF m.lines = NoLog
           THEN ToReader(news, NoLog) /\ UNCHANGED log
           ELSE /\ log' = [log EXCEPT ![c] = Logged(@, m.lines)]
                /\ ToReader(news, Relayed(log[c], m.lines))
        /\ repeated' = IF m.kind = "init" THEN c < current ELSE (repeated \/ c # current)
        /\ wiped' = IF m.kind = "init" THEN FALSE ELSE wiped
        /\ UNCHANGED <<writerVars, log_req, reader, view, overtaken, calls>>

\* The log of the writer as the reader gets it when it asks.
Answer == IF current = 0 \/ log[current] = NoLog THEN <<>> ELSE <<Res(log[current])>>

---------------------------------------------------------------------------
(* The reader *)

\* request: addReq, then messagePushReq looks at sync_first, then it queues the message.
request ==
    /\ reader.pc = "idle" /\ ~reader.req
    /\ reader' = [reader EXCEPT !.req = TRUE, !.pc = "request"]
    /\ UNCHANGED <<writerVars, serverVars, received, view, overtaken, repeated, wiped, calls>>
messagePushReq ==
    /\ reader.pc = "request"
    /\ reader' = [reader EXCEPT !.pc = IF reader.first # NoFirst THEN "push" ELSE "idle"]
    /\ UNCHANGED <<writerVars, serverVars, received, view, overtaken, repeated, wiped, calls>>
pushReq ==
    /\ reader.pc = "push"
    /\ reader' = [reader EXCEPT !.pc = "idle", !.queue = @ + 1]
    /\ UNCHANGED <<writerVars, serverVars, received, view, overtaken, repeated, wiped, calls>>

\* sync() before there is a connection makes sync_first.
syncReader ==
    /\ ~reader.connected /\ reader.first = NoFirst
    /\ reader' = [reader EXCEPT !.first = IF @ = NoFirst /\ reader.req THEN "req" ELSE "empty"]
    /\ UNCHANGED <<writerVars, serverVars, received, view, overtaken, repeated, wiped, calls>>

\* The reader connects and sends sync_first: the server tells it of the writer, whether
\* that is still connected or not, and answers the request.
connectReader ==
    /\ ~reader.connected
    /\ reader' = [reader EXCEPT !.connected = TRUE, !.first = MovedFirst]
    /\ log_req' = IF reader.first = NoFirst THEN reader.req ELSE reader.first = "req"
    /\ received' = received \o (IF current # 0 THEN <<Init_>> ELSE <<>>)
                            \o (IF log_req' THEN Answer ELSE <<>>)
    /\ repeated' = FALSE /\ wiped' = FALSE
    /\ UNCHANGED <<writerVars, wire, log, current, view, overtaken, calls>>

\* A Req that was queued is sent and served.
sendReq ==
    /\ reader.connected /\ reader.queue > 0
    /\ reader' = [reader EXCEPT !.queue = @ - 1]
    /\ log_req' = TRUE
    /\ received' = received \o Answer
    /\ repeated' = (repeated \/ (log_req /\ Answer # <<>>))
    /\ UNCHANGED <<writerVars, wire, log, current, view, overtaken, wiped, calls>>

\* Requests that were swapped out are dropped, messages that have come are kept.
disconnectReader ==
    /\ reader.connected
    /\ Bounded("loss", MaxLosses)
    /\ \E n \in 0 .. reader.queue :
         reader' = [reader EXCEPT !.connected = FALSE, !.first = NoFirst, !.queue = n]
    /\ \E k \in 0 .. Len(received) : received' = SubSeq(received, 1, k)
    /\ UNCHANGED <<writerVars, serverVars, view, overtaken, repeated, wiped>>

\* The reader's log after lines have come, of which the last are kept.
Appended(old, lines) == Trimmed((IF old = NoLog THEN <<>> ELSE old) \o lines, KeepLines)

\* A defect that the properties exclude: sync_init leaves the log of an earlier connection.
recvKeepsOld ==
    /\ received # <<>>
    /\ received' = Tail(received)
    /\ view' = IF Head(received).kind = "init" THEN view
               ELSE Appended(view, Head(received).lines)
    /\ UNCHANGED <<writerVars, serverVars, reader, overtaken, repeated, wiped, calls>>

\* ClientData::onRecv: initMember when the writer (re)connects, and log res.
recv ==
    /\ received # <<>>
    /\ received' = Tail(received)
    /\ view' = IF Head(received).kind = "init" THEN NoLog
               ELSE Appended(view, Head(received).lines)
    /\ UNCHANGED <<writerVars, serverVars, reader, overtaken, repeated, wiped, calls>>

\* Log::clear() of the log received.
clearReceived ==
    /\ Bounded("clear", Min({MaxClears, MaxWrites - calls.line}))
    /\ view' = <<>>
    /\ wiped' = TRUE
    /\ UNCHANGED <<writerVars, serverVars, reader, received, overtaken, repeated>>

---------------------------------------------------------------------------
LogsNext ==
    \/ writeLog \/ clear \/ Sync \/ syncData \/ messagePushAlways
    \/ Connect \/ SendFirst \/ swap \/ send \/ Disconnect
    \/ \E c \in Connections : recvFromWriter(c)
    \/ request \/ messagePushReq \/ pushReq \/ syncReader
    \/ connectReader \/ sendReq \/ disconnectReader \/ recv \/ clearReceived

LogsSpec == LogsInit /\ [][LogsNext]_logsVars

---------------------------------------------------------------------------
\* Nothing is on its way, and both are connected.
Settled ==
    /\ data_send = 0 /\ app.pc = "idle" /\ sync_queue = <<>>
    /\ connected /\ ws.pc = "top" /\ \A c \in Connections : wire[c] = <<>>
    /\ reader.connected /\ reader.req /\ reader.pc = "idle" /\ reader.queue = 0
    /\ received = <<>>

\* How many of so many lines everybody keeps.
Kept(n) == Min({n} \cup {k \in {KeepLog, KeepLines} : k >= 0})

\* Once all has been sent and read, the reader has each line of the writer's log once and
\* in their order, however often each of the two has lost its connection before: as many
\* of the last as everybody keeps, or as have come since the reader has called clear().
\* The exceptions are what a snapshot that sync_first has overtaken, a Req that was sent
\* twice and messages of an old connection bring with them.
LinesArrive ==
    Settled /\ current = con /\ ~overtaken /\ ~repeated =>
        LET known == IF view = NoLog THEN <<>> ELSE view
            n == IF wiped THEN Min({Kept(Len(written)), Len(known)}) ELSE Kept(Len(written))
        IN  /\ Len(known) >= n /\ Last_(known, n) = Last_(written, n)
            /\ \A i \in 1 .. Len(known) - 1 : known[i] < known[i + 1]

---------------------------------------------------------------------------
(* The inductive strengthening *)

LinesOf(lines) == IF lines = NoLog THEN <<>> ELSE lines
EachOf(q) == [i \in DOMAIN q |-> LinesOf(q[i])]
InOrder(q) == FlattenSeq(EachOf(q))

\* Lines in the order in which they were written, each of them once.
Orderly(s, n) == s \in Seq(1 .. n) /\ \A i, j \in DOMAIN s : i < j => s[i] < s[j]

\* Two logs that end alike, as far as both go.
Alike(s, t) == \A i \in 0 .. Len(s) - 1 : i < Len(t) => s[Len(s) - i] = t[Len(t) - i]
KeptOf(n, keep) == IF keep >= 0 /\ keep < n THEN keep ELSE n

\* What the server has still to get: on the connection, and behind that.
Unsent == IF data_send = 0 THEN <<>> ELSE NewLines(data_send)
Pushing == IF app.pc = "push" THEN LinesOf(app.lines) ELSE <<>>
SendingLines == IF ws.pc = "send" THEN InOrder(ws.queue) ELSE <<>>
Behind == InOrder(sync_queue) \o (Pushing \o Unsent)
OnWire(c) == InOrder([i \in DOMAIN wire[c] |-> wire[c][i].lines])
OnTheWay == OnWire(con) \o (SendingLines \o Behind)

\* The log that the server is going to have, once a first message is made.
WillLog == IF sync_first = MovedFirst THEN LinesOf(log[con]) \o OnTheWay
           ELSE LinesOf(sync_first) \o Behind

\* The log that a reader of v is going to have: a sync_init that waits empties it.
Emptied(r, i) == \E j \in DOMAIN r : j >= i /\ r[j].kind = "init"
EachView(r) == [i \in DOMAIN r |-> IF Emptied(r, i) THEN <<>> ELSE LinesOf(r[i].lines)]
ViewAfter(v, r) == (IF Emptied(r, 1) THEN <<>> ELSE LinesOf(v)) \o FlattenSeq(EachView(r))
WillView == ViewAfter(view, received)
Known == IF current = 0 THEN <<>> ELSE LinesOf(log[current])

LinesSent == Seq(Nat) \cup {NoLog}
ToServer_ == [kind : {"init", "log"}, lines : LinesSent]
ToReader_ == [kind : {"init"}, lines : {NoLog}] \cup [kind : {"res"}, lines : Seq(Nat)]
LogsTypeOK ==
    /\ logs \in Seq([data : Seq(Nat), sent : Nat])
    /\ data_send \in 0 .. Len(logs) /\ data_recv \in 0 .. Len(logs)
    /\ sync_first \in LinesSent \cup {NoFirst, MovedFirst} /\ sync_queue \in Seq(LinesSent)
    /\ app \in [pc : {"idle"}] \cup [pc : {"sync"}, connected2 : BOOLEAN]
                  \cup [pc : {"push"}, lines : LinesSent]
    /\ ws \in [pc : {"top", "first"}] \cup [pc : {"send"}, queue : Seq(LinesSent) \ {<<>>}]
    /\ connected \in BOOLEAN /\ con \in 0 .. MaxLosses + 1 /\ current \in 0 .. con
    /\ wire \in [Connections -> Seq(ToServer_)]
    /\ log \in [Connections -> LinesSent] /\ log_req \in BOOLEAN
    /\ reader \in [req : BOOLEAN, first : {"req", "empty", NoFirst, MovedFirst}, queue : Nat,
                   pc : {"idle", "request", "push"}, connected : BOOLEAN]
    /\ received \in Seq(ToReader_) /\ view \in LinesSent
    /\ {overtaken, repeated, wiped} \subseteq BOOLEAN
    /\ calls \in [line : Nat, sync : Nat, clear : Nat, loss : Nat]

\* The log of the application is what was written, and sent as far as it has been taken.
WrittenLogged ==
    /\ \A k \in DOMAIN logs : logs[k].sent <= Len(logs[k].data)
    /\ written = (IF OwnLog = 0 THEN <<>> ELSE logs[OwnLog].data)
    /\ data_send = 0 /\ data_recv # 0 => logs[data_recv].sent = Len(logs[data_recv].data)
    /\ Orderly(written, calls.line)

\* sync_first and the connection: it is there until it is sent, and the first message.
FirstLeads ==
    /\ connected <=> sync_first = MovedFirst \/ ws.pc = "first"
    /\ ws.pc \in {"first", "send"} => connected
    /\ ws.pc = "first" => sync_first # MovedFirst
    /\ connected => con > 0
    /\ ws.pc = "first" => current # con /\ log[con] = NoLog /\ wire[con] = <<>>
    /\ \A c \in Connections : c > con => log[c] = NoLog /\ wire[c] = <<>>
    /\ \A c \in Connections : \A i \in DOMAIN wire[c] :
          IF wire[c][i].kind = "init" THEN i = 1 /\ log[c] = NoLog ELSE wire[c][i].lines # NoLog

\* What the server is going to have ends with what was written.
LogsAgree ==
    sync_first # NoFirst /\ ~overtaken =>
        /\ Orderly(WillLog, calls.line) /\ Alike(WillLog, written)
        /\ Len(WillLog) >= KeptOf(Len(written), KeepLog)

\* A request of the reader is in the server or will be; then the reader is going to have
\* what the server has.
ReqUnderWay ==
    /\ reader.connected => reader.first = MovedFirst
    /\ reader.req => \/ reader.pc # "idle" \/ reader.queue > 0
                     \/ IF reader.connected THEN log_req ELSE reader.first \in {NoFirst, "req"}
    /\ reader.connected /\ ~log_req /\ current # 0 => WillView = <<>>
ViewAgrees ==
    sync_first = MovedFirst /\ ~overtaken /\ ~repeated /\ current = con
      /\ reader.connected /\ log_req =>
        /\ Orderly(WillView \o OnTheWay, calls.line) /\ Alike(WillView, Known)
        /\ wiped \/ Len(WillView) >= KeptOf(Len(Known), KeepLines)

LogsInv == LogsTypeOK /\ WrittenLogged /\ FirstLeads /\ LogsAgree /\ ReqUnderWay /\ ViewAgrees
=============================================================================
