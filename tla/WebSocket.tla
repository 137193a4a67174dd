------------------------------ MODULE WebSocket ------------------------------
(***************************************************************************)
(* The client's WebSocket (client/src/client_ws.cc), which only the          *)
(* communication thread uses: three ways to the server are tried in order,    *)
(* messages are put together from the pieces that curl gives, and sent in     *)
(* pieces that curl takes.  wsThreadMain is here as far as it uses them.       *)
(*                                                                         *)
(* curl and the network are external: a connection is accepted or not, a       *)
(* piece is any beginning of what is left of a frame, and anything may fail     *)
(* at any time.  A byte is known by its message and its place in it.           *)
(***************************************************************************)
EXTENDS Integers, SequencesExt

CONSTANTS
    Lengths,        \* of the messages of the server and of the client
    MaxMessages,    \* bound: messages of each side
    MaxLinks        \* bound: connections

ASSUME LengthsAssumption == Lengths \subseteq Nat

VARIABLES
    (* the machine *)
    host_is_local,      \* the client's host is 127.0.0.1
    wsl,                \* "none", "wsl1", "wsl2", or "wsl2NoHost"
    (* the client *)
    closing,
    current_curl_handle, \* whether there is one
    current_curl_connected,
    current_ws_buf,
    ws_connected,       \* what wsThreadMain knows
    step,               \* where it is: "loop", "init", "first", "recv", "send",
                        \* "close" or "return"
    attempt, path,      \* of init
    sent_total,         \* of send
    has_recv,           \* of recv: a message was handed over
    handed_over,        \* observer: the messages handed over on this connection
    (* the network *)
    frames,             \* what the server has sent and curl has not given: sequence of messages
    offset,             \* how much of the first it has given
    arrived,            \* bytes that have come to the server on this connection
    server_sent,        \* history: the messages the server has sent on this connection,
                        \* without empty ones
    sending,            \* the message whose sending has begun last on it
    client_sent,        \* history: the bytes of all whose sending has begun on it
    count, link_count   \* bounds

machine == <<host_is_local, wsl>>
handleVars == <<current_curl_handle, current_curl_connected>>
recvVars == <<current_ws_buf, has_recv, handed_over>>
sendVars == <<sent_total, sending, client_sent, arrived>>
wireVars == <<frames, offset, server_sent>>
threadVars == <<ws_connected, step, attempt, path>>
bounds == <<count, link_count>>
webSocketVars == <<machine, closing, handleVars, recvVars, sendVars, wireVars, threadVars, bounds>>

Body(m) == [i \in 1 .. m.length |-> [of |-> m.id, at |-> i]]
NoMessage == [id |-> 0, length |-> 0]

WebSocketInit ==
    /\ host_is_local \in BOOLEAN /\ wsl \in {"none", "wsl1", "wsl2", "wsl2NoHost"}
    /\ closing = FALSE
    /\ current_curl_handle = FALSE /\ current_curl_connected = FALSE
    /\ current_ws_buf = <<>> /\ has_recv = FALSE /\ handed_over = <<>>
    /\ sent_total = 0 /\ sending = NoMessage /\ client_sent = <<>> /\ arrived = <<>>
    /\ frames = <<>> /\ offset = 0 /\ server_sent = <<>>
    /\ ws_connected = FALSE /\ step = "loop" /\ attempt = 0 /\ path = "none"
    /\ count = 0 /\ link_count = 0

----------------------------------------------------------------------------
(* init                                                                      *)

\* The way an attempt goes; "none" where the loop continues with the next.
Way(n) ==
    CASE n = 2 -> "tcp"
      [] n = 1 -> IF host_is_local /\ wsl \in {"wsl1", "wsl2"} THEN wsl ELSE "none"
      [] n = 0 -> IF host_is_local THEN "unix" ELSE "none"

startInit ==
    /\ step = "loop" /\ ~ws_connected /\ ~closing /\ link_count < MaxLinks
    /\ step' = "init" /\ attempt' = 0 /\ link_count' = link_count + 1
    /\ UNCHANGED <<machine, closing, handleVars, recvVars, sendVars, wireVars, ws_connected, path, count>>

\* A new connection, as the rest of the world sees it.
NewLink == /\ frames' = <<>> /\ offset' = 0 /\ server_sent' = <<>>
           /\ sending' = NoMessage /\ client_sent' = <<>> /\ arrived' = <<>> /\ handed_over' = <<>>
OldLink == UNCHANGED <<wireVars, sending, client_sent, arrived, handed_over>>

\* An attempt.  Where there is no way, the handle it has made is left as it is.
tryConnect ==
    /\ step = "init" /\ attempt < 3 /\ ~closing
    /\ current_ws_buf' = <<>>
    /\ path' = IF Way(attempt) = "none" THEN path ELSE Way(attempt)
    /\ \/ /\ Way(attempt) # "none" /\ NewLink
          /\ current_curl_handle' = TRUE /\ current_curl_connected' = TRUE
          /\ attempt' = 3
       \/ /\ current_curl_handle' = (Way(attempt) = "none") /\ attempt' = attempt + 1
          /\ OldLink /\ UNCHANGED current_curl_connected
    /\ UNCHANGED <<machine, closing, has_recv, sent_total, ws_connected, step, bounds>>

\* A message is taken to be sent.
BeginToSend ==
    /\ \E n \in Lengths : /\ sending' = [id |-> count + 1, length |-> n]
                          /\ client_sent' = client_sent \o Body(sending')
    /\ sent_total' = 0 /\ count' = count + 1

\* wsThreadMain goes on with the first message, or with another try.
initReturns ==
    /\ step = "init" /\ (attempt = 3 \/ closing)
    /\ ws_connected' = current_curl_connected
    /\ IF current_curl_connected /\ count < MaxMessages
       THEN BeginToSend /\ step' = "first"
       ELSE step' = "loop" /\ UNCHANGED <<sending, client_sent, count, sent_total>>
    /\ UNCHANGED <<machine, closing, handleVars, recvVars, arrived, wireVars, attempt, path, link_count>>

----------------------------------------------------------------------------
Close == current_curl_handle' = FALSE /\ current_curl_connected' = FALSE
StayOpen == UNCHANGED handleVars

(* recv, which wsThreadMain repeats while it hands something over             *)

startRecv ==
    /\ step = "loop" /\ ws_connected
    /\ step' = "recv" /\ has_recv' = FALSE
    /\ UNCHANGED <<machine, closing, handleVars, current_ws_buf, handed_over, sendVars, wireVars, ws_connected,
                   attempt, path, bounds>>

\* Where a piece goes in the buffer, from its offset in the frame: a gap is filled (with 0),
\* what is there is replaced.
Placed(buf, at, piece) ==
    IF at >= Len(buf)
    THEN buf \o [i \in 1 .. at - Len(buf) |-> [of |-> 0, at |-> 0]] \o piece
    ELSE SubSeq(buf, 1, at) \o piece \o SubSeq(buf, at + Len(piece) + 1, Len(buf))

\* A piece of a frame.  The last one completes the message, unless it is empty.
recvPiece ==
    /\ step = "recv" /\ current_curl_handle /\ frames # <<>>
    /\ LET body == Body(Head(frames))
       IN  \E n \in 0 .. Len(body) - offset :
             /\ n > 0 \/ body = <<>>
             /\ LET buf == Placed(current_ws_buf, offset, SubSeq(body, offset + 1, offset + n))
                IN  IF offset + n = Len(body)
                    THEN /\ frames' = Tail(frames) /\ offset' = 0
                         /\ IF buf # <<>>
                            THEN handed_over' = Append(handed_over, buf) /\ current_ws_buf' = <<>>
                                 /\ has_recv' = TRUE
                            ELSE UNCHANGED recvVars
                    ELSE /\ offset' = offset + n /\ current_ws_buf' = buf
                         /\ UNCHANGED <<frames, handed_over, has_recv>>
    /\ UNCHANGED <<machine, closing, handleVars, sendVars, server_sent, threadVars, bounds>>

AfterRecv == IF has_recv THEN has_recv' = FALSE /\ UNCHANGED step
             ELSE step' = "send" /\ UNCHANGED has_recv

\* CURLE_AGAIN: there is nothing more just now.
recvAgain ==
    /\ step = "recv" /\ current_curl_handle
    /\ AfterRecv /\ UNCHANGED <<current_ws_buf, handed_over>>
    /\ ws_connected' = IF has_recv THEN ws_connected ELSE current_curl_connected
    /\ UNCHANGED <<machine, closing, handleVars, sendVars, wireVars, attempt, path, bounds>>

\* A close frame or an error closes.  If a message was handed over before it, recv is called
\* once more, without a handle (in a build with assertions this is the end of the program;
\* in one without, curl reports an error again).
recvCloses ==
    /\ step = "recv"
    /\ Close /\ AfterRecv /\ UNCHANGED <<current_ws_buf, handed_over>>
    /\ ws_connected' = IF has_recv THEN ws_connected ELSE FALSE
    /\ UNCHANGED <<machine, closing, sendVars, wireVars, attempt, path, bounds>>

----------------------------------------------------------------------------
(* send                                                                      *)

Sending == sent_total < sending.length

\* The next message of the queue, while there is a connection.
sendNext ==
    /\ step = "send" /\ ws_connected /\ ~Sending /\ count < MaxMessages
    /\ BeginToSend
    /\ UNCHANGED <<machine, closing, handleVars, recvVars, arrived, wireVars, threadVars, link_count>>

\* A defect that the properties exclude: a message goes on from its beginning.
sendPieceAgain ==
    /\ step \in {"first", "send"} /\ ws_connected /\ Sending
    /\ LET body == Body(sending)
       IN  \E n \in 0 .. Len(body) - sent_total :
             /\ arrived' = arrived \o SubSeq(body, 1, n)
             /\ sent_total' = sent_total + n
    /\ UNCHANGED <<machine, closing, handleVars, recvVars, sending, client_sent, wireVars, threadVars, bounds>>

\* curl takes as much as it likes, or nothing (CURLE_AGAIN).
sendPiece ==
    /\ step \in {"first", "send"} /\ ws_connected /\ Sending
    /\ LET body == Body(sending)
       IN  \E n \in 0 .. Len(body) - sent_total :
             /\ arrived' = arrived \o SubSeq(body, sent_total + 1, sent_total + n)
             /\ sent_total' = sent_total + n
    /\ UNCHANGED <<machine, closing, handleVars, recvVars, sending, client_sent, wireVars, threadVars, bounds>>

sendFails ==
    /\ step \in {"first", "send"} /\ ws_connected /\ Sending
    /\ Close /\ ws_connected' = FALSE /\ step' = "loop"
    /\ UNCHANGED <<machine, closing, recvVars, sendVars, wireVars, attempt, path, bounds>>

\* The queue is empty, or there is no connection any more.
sendReturns ==
    /\ step \in {"first", "send"} /\ (ws_connected => ~Sending)
    /\ step' = IF closing /\ step = "send" THEN "close" ELSE "loop"
    /\ UNCHANGED <<machine, closing, handleVars, recvVars, sendVars, wireVars, ws_connected, attempt,
                   path, bounds>>

----------------------------------------------------------------------------
(* The end, and the other side                                               *)

closeClient ==
    /\ ~closing /\ closing' = TRUE
    /\ UNCHANGED <<machine, handleVars, recvVars, sendVars, wireVars, threadVars, bounds>>

threadReturns ==
    /\ \/ step = "loop" /\ ~ws_connected /\ closing /\ StayOpen
       \/ step = "close" /\ Close
    /\ step' = "return" /\ ws_connected' = FALSE
    /\ UNCHANGED <<machine, closing, recvVars, sendVars, wireVars, attempt, path, bounds>>

serverSends ==
    /\ current_curl_connected /\ count < MaxMessages
    /\ \E n \in Lengths \cup {0} :
         LET m == [id |-> count + 1, length |-> n]
         IN  /\ frames' = Append(frames, m)
             /\ server_sent' = IF n = 0 THEN server_sent ELSE Append(server_sent, m)
    /\ count' = count + 1
    /\ UNCHANGED <<machine, closing, handleVars, recvVars, sendVars, offset, threadVars, link_count>>

WebSocketNext ==
    \/ startInit \/ tryConnect \/ initReturns
    \/ startRecv \/ recvPiece \/ recvAgain \/ recvCloses
    \/ sendNext \/ sendPiece \/ sendFails \/ sendReturns
    \/ closeClient \/ threadReturns \/ serverSends

WebSocketSpec == WebSocketInit /\ [][WebSocketNext]_webSocketVars

----------------------------------------------------------------------------
(* Properties.                                                               *)

\* What is handed over on a connection are messages the server has sent on it, whole and in
\* order, whatever pieces they came in and wherever the connection before was cut off; only
\* empty ones are left out.
MessagesWhole ==
    IsPrefix(handed_over, [i \in DOMAIN server_sent |-> Body(server_sent[i])])

\* What comes to the server on a connection are the messages that were sent on it, in order
\* and without a gap, up to a part of the last one.
SentInOrder ==
    /\ IsPrefix(arrived, client_sent)
    /\ ~Sending => arrived = client_sent

\* The connection transports messages whole and in order, both ways: the two above.
Transported == MessagesWhole /\ SentInOrder

----------------------------------------------------------------------------
(* The inductive strengthening.                                              *)

WsMessage == [id : Nat, length : Nat]
Byte == [of : Nat, at : Nat]

WebSocketTypeOK ==
    /\ {closing, current_curl_handle, current_curl_connected, ws_connected, has_recv} \subseteq BOOLEAN
    /\ step \in {"loop", "init", "first", "recv", "send", "close", "return"} /\ attempt \in 0 .. 3
    /\ {sent_total, offset, count} \subseteq Nat
    /\ current_ws_buf \in Seq(Byte) /\ handed_over \in Seq(Seq(Byte))
    /\ arrived \in Seq(Byte) /\ client_sent \in Seq(Byte) /\ sending \in WsMessage
    /\ frames \in Seq(WsMessage) /\ server_sent \in Seq(WsMessage)

\* The handle is that of the connection wherever messages are sent and received.
HandleKnown ==
    /\ step \in {"loop", "first", "send"} => (ws_connected <=> current_curl_connected)
    /\ step = "recv" /\ current_curl_handle => current_curl_connected
    /\ step = "init" /\ attempt < 3 => ~current_curl_connected
    /\ step = "init" /\ current_curl_connected => sending = NoMessage

\* Messages are numbered in their order.
Numbered(ms) == /\ \A i, j \in DOMAIN ms : i < j => ms[i].id < ms[j].id
                /\ \A i \in DOMAIN ms : ms[i].id <= count

\* What was handed over are the first messages of the server, and the rest is what curl has
\* not given, except for the empty ones.
RestInFrames ==
    /\ Numbered(frames) /\ Numbered(server_sent)
    /\ Len(handed_over) <= Len(server_sent)
    /\ \A i \in DOMAIN handed_over : handed_over[i] = Body(server_sent[i])
    /\ \A i \in DOMAIN frames : frames[i].length > 0 =>
          \E j \in DOMAIN server_sent : j > Len(handed_over) /\ server_sent[j] = frames[i]
    /\ \A j \in DOMAIN server_sent : /\ server_sent[j].length > 0
                                     /\ j > Len(handed_over) =>
                                           \E i \in DOMAIN frames : frames[i] = server_sent[j]

\* The buffer has the beginning of the first of these, as far as it was given.
BufferIsBeginning ==
    current_curl_connected =>
        IF frames = <<>> THEN offset = 0 /\ current_ws_buf = <<>>
        ELSE /\ offset <= frames[1].length
             /\ current_ws_buf = SubSeq(Body(frames[1]), 1, offset)

\* What has arrived and the rest of the message that is being sent are all that was to be sent.
RestIsSent == arrived \o SubSeq(Body(sending), sent_total + 1, sending.length) = client_sent

WebSocketInv == WebSocketTypeOK /\ HandleKnown /\ RestInFrames /\ BufferIsBeginning /\ RestIsSent
============================================================================
