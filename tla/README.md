# A TLA+ verification of WebCFace

WebCFace lets processes (*members*) share named data - numbers, texts, views,
images, logs - and call each other's functions through one server. This
directory models the parts of the C++ implementation in which state is shared
between threads, processes and connections, checks them with TLC, and proves
the invariants of most components with TLAPS, for every number of threads, clients
and connections.

## 1. The system

```
 application thread          ws thread                     server
 ------------------          ---------                     ------
 set values, run funcs  -->  sync_queue  --- websocket --> onRecv  (server_mtx)
 sync(): onRecv         <--  recv_queue  <-- websocket --  send buffers
```

* **Server** (`server-store/src`). One `ServerStorage` with a `MemberData` object
  per websocket connection. The open, close and message callbacks of the web
  framework and the ping thread hold `server_mtx` (`websock.cc`), so callbacks
  are atomic with respect to each other; only the image conversion threads run
  beside them.
* **Client** (`client/src`). Three kinds of threads meet in one `ClientData`: the
  application's, the ws thread (`wsThreadMain`) that connects, reads and writes,
  and threads of asynchronous functions. They share `ws_data` and `sync_data`,
  two mutex proxies, and a few unprotected fields.
* A client reconnects by itself. Client and server notice the loss of a
  connection independently, in `recv`/`send` and in the close callback, so the
  server may hold two connections of one client for a while.

### Inventory

| component | state | operations | what is hard | what makes it correct |
|---|---|---|---|---|
| client registry (`store.cc`, `member_data.cc`) | `clients`, `clients_by_id`, `last_member_id`, `name`, `member_id`, `sync_init` | open, sync_init, close, lookups | ids are reassigned by name; entries outlive connections | an id means one name for ever, open members can be reached, unnamed ones are forgotten |
| presence (`member_data.cc`, `client_threading.cc`, `client_msg_recv.cc`) | `did_disconnect`, `sync_init_end`, `member_entry`, `member_ids`, `self_member_id` | connect, lose, sync_init, closed, sync() | old and new connections overlap; old messages are still queued | clients learn the right ids; waitConnection() returns |
| remote calls (`func.cc`, `func_result.cc`, `member_data.cc`) | promise store, `pending_calls` | runAsync, call, call_response, call_result, abort on close | callee or caller vanishes at any point | each answer reaches its caller, promises settle, calls finish |
| data synchronisation (`client_threading.cc`, `client_msg_sync.cc`, `data_store*.cc`) | `sync_first`, `sync_queue`, data stores | sync(), ws loop, close() | snapshots queued before a disconnection meet the full one after it | the server ends up with the client's last values and requests |
| requests and relay (`member_data.cc` onRecv) | `*_req` maps, data maps | data and request messages, entries, sync | request order, prefix requests | every requested value is relayed with the right request id |
| image conversion (`image_conversion.cc`) | `image_changed`, `image_req_changed`, threads | image, image request, close | threads beside `server_mtx`, join in onClose | no lost wake-up, the last image is sent, onClose returns |
| views and canvases (`message/view.h`, `canvas*.h`, `view.cc`, `component_view.cc`) | components by id, order of ids, the previous data | diff, merge, the older protocol by index; drawing, click, input | ids, indices and deletions at the edges, data of an older connection | a follower sees just what was drawn, and never goes back; a click runs what was seen |
| promises (`func_result.cc`) | `PromiseData` | reach, respond, onReach, onFinish, wait | callbacks registered while settling | each callback runs once, waiters wake, one answer |
| functions (`func.h`, `func.cc`, `func_info.cc`, `func_listener.cc`) | `FuncInfo` and `Arg` data, shared | set, setArgs, listen, call, answer | objects shared by queue, store and application | what is told is what is there; each call is answered once |
| logs (`log.cc` and the log cases) | `LogData`, `sent_lines`, limits | append, clear, request, relay | lines are appended, so repetition and loss stay visible | each line once and in order |
| pings (`websock.cc`, `member.cc`) | `last_send_ping`, `last_ping_duration`, `ping_status` | ping round, pong, request | requests before, during and after a connection | the request is known; no answer is told twice or after a later one |
| websocket transport (`client_ws.cc`) | `current_ws_buf`, curl handle | init on three paths, recv, send, close | partial frames and writes | messages whole and in order |
| server start and stop (`websock.cc`) | listeners, ping thread, `server_stop` | constructor, listen, stop, join | stop while starting | all threads end, before the store does |
| encoding (`pack.h`, `message.cc`, `val_adaptor*.cc`) | batches | pack, unpack | numbers at their limits, unknown kinds | what is understood arrives unchanged |
| strings (`encoding.cc`) | `SharedString` data, caches for literals | conversions, views, comparison | shared, lazily filled | one text in every encoding |
| values and texts (`value.cc`, `text.cc`, `num_vector.cc`) | `data_send`, `data_recv`, vectors | set, resize, push_back, element access, sync | elements shared between copies | what is sent is what was set |
| entries and fields (`member.cc`, `field.cc`, `client_msg_recv.cc`) | `member_ids`, entry sets | listing, children, events | order of names, server restart | what is listed is what the member has |
| transforms, canvas components, robot models (`transform.cc`, `robot_*.cc`) | rotation and matrix caches, joint indices | conversions, `rot()`, set, sync | singular angles, objects shared by models | every representation is the same rotation; joints keep their parents |
| C API (`c_wcf`) | lists of valid pointers | create, fetch, respond, destroy | addresses used again | a pointer in a list is valid, a call is answered once |

Not modelled: images in the client, files and addresses, formatting (section 6).

## 2. Modules

| module | models | uses |
|---|---|---|
| `ServerStore` | the registry: a callback of the server is a step | |
| `Links` | client processes and their connections, the end points that fail separately, `recv_queue` | extends `ServerStore` |
| `Members` | the presence protocol | extends `Links` |
| `PubSub` | what the server does with data and requests: stores, lists and relays them | extends `Links` |
| `Calls` | remote calls | extends `Links` |
| `Views` | views and canvases as differences, in both protocols, from the publisher to the followers | extends `Links` |
| `ViewMirror` | what a follower is promised (abstract) | instantiated by `Views` |
| `ImageConvert` | the conversion threads, with the handlers that feed and stop them | extends `ServerStore` |
| `ClientSync` | data and requests on their way from a client to the server: application thread, ws thread, `sync_first`, `sync_queue`, `close()` | |
| `Promises` | the result of one call, with the threads that wait for it and answer it | |
| `Settlement` | what a call promises (abstract) | instantiated by `Promises` |
| `Server` | the threads of the server: owner, ping thread, listeners | |
| `Logs` | log lines from the writer over the server to a reader | |
| `Pings` | ping rounds, and the request for their results | |
| `WebSocket` | `client_ws.cc`: three ways to connect, pieces of frames | |
| `Packing` | numbers and batches as msgpack | |
| `Entries` | what a client lists of others; fields as a tree | |
| `Funcs` | functions that are set, told and called | |
| `Strings` | `SharedString` | |
| `Values` | values and texts before they are sent | |
| `ViewBuf` | drawing a view, and what a viewer does with it | |
| `Transform`, `Poses` | rotations for quarter turns as operators; one `Transform` object that is used | |
| `Robots` | links and joints of robot models | |
| `CApi` | handles of the C API | |
| `ServerStore_proofs`, `PubSub_proofs`, `Calls_proofs`, `Views_proofs` | the theorems about the module and their lemmas | the module |
| `Members_proofs` | the same of `Members` and `Entries` | these, and the lemmas of `ServerStore_proofs` |
| `Threads_proofs` | the same of `ClientSync`, `ImageConvert`, `Promises`, `Server` | these |
| `Traffic_proofs` | of `Pings`, `WebSocket` and `Logs` | these, and the lemmas of `ServerStore_proofs` |
| `Application_proofs` | of `Funcs`, `CApi`, `Robots`, `Strings`, `ViewBuf` | these |
| `MC...` | the instances that TLC checks | the modules |

`ServerStore` plays two parts. It is the model of `store.cc`, and it is the
abstract specification (`StoreSpec`) that each protocol module implements: the
registry variables of `Members`, `Calls`, `PubSub` and `ImageConvert` change only by
steps of the registry, which TLAPS proves.
They are views of the same connections; each keeps in `recv_queue` only the messages
of its own protocol, because the handlers of one do not read or write the state of
the others. `ClientSync` looks into what a client sends, `PubSub` at what becomes of
it in the server: that a connection begins with all data and requests and goes on
with what changes is assumed in `PubSub` and is the subject of `ClientSync`, and that
names and ids of members agree, so that `PubSub` can use names throughout, of `Members`.
That a connection delivers whole messages in order is assumed everywhere and is the
subject of `WebSocket`; that a batch is read as it was packed, of `Packing`; that a
promise settles once although several threads answer it, which `Calls` takes as
one step, of `Promises`.

`MCThreads`, `MCTraffic` and `MCApplication` each hold several of the smaller modules.
These share no variable; the variable `part` chooses in the initial state which one of
them a behaviour moves. A run is then one question about several small state
machines, and has as many states as they have together.

### Correspondence to the code

The heading of each module names the functions it models, and `PROJECT.json` ("map")
gives the lines of every definition. What is not obvious:

* A `MemberData` is named by its connection (`Conn`), which is used once. Lookups
  (`Found`, `FoundConnected`, `ForEach`, `ForEachWithName`) are the functions of
  `ServerStorage`. `connected()` is membership in `clients`: `removeClient` erases
  the connection and `onClose` resets `con` in one critical section.
* `registerClient` is what the sync_init handler does to the registry. A name
  that several entries had would be found in the order of an unordered map;
  `AssignableId` is the set of outcomes, and `EntryUnderOwnId` says it has one
  element.
* `Members.SyncInit` and `Close` are the whole handlers, with the messages they
  pack for every connection; `clientSendAll` flushes them at the end of the
  callback, so they arrive as one batch. What is sent to a connection that its
  client has given up is lost (`SendEach`).
* `Disconnect` is what the ws thread does when `recv` or `send` fails
  (`client_threading.cc:206-245`); what is in `recv_queue` by then stays there and
  is processed later, in the code as in the model.
* `syncImpl` checks `did_disconnect`, then empties `recv_queue`, and unlocks
  `ws_data` for every batch. `ReportDisconnect`, `RecvSyncInit` and `RecvClosed` are
  these parts as separate steps. The report is one step although the code
  unlocks between resetting `member_entry` and clearing `did_disconnect`: in
  between, the ws thread can only touch other fields or set the flag to the
  value it has.
* `Calls.sync_queue` holds the call messages a client has queued. The server reads
  the head (`Read`). When the client loses the connection, the queue is cut in
  three: a prefix is on the wire and may still be read, a middle part is lost
  with the local queue of the ws thread (`client_threading.cc:206-233`), and the
  rest waits for the next connection.
* `promise[p][k]` is the `PromiseData` with caller id `k - 1`; `stored` says that it is
  in the `FuncResultStore`. `reach`, `respond` (also `reject`) and `removeResult` are
  the functions of that name; where they throw, the action leaves the promise
  alone, as the catch clauses of `onRecv` do.
* `Aborts` is the loop over `pending_calls` in `onClose`, in any order, since the
  maps are unordered.
* `ClientSync` is a closer look at one client. A step is one critical section of
  `ws_data` or `sync_data`, or one call of the websocket library between two of
  them: `Sync`, `TakeSnapshot` and `Push` are the three parts of `syncImpl`, `ws.pc` is the
  place in `wsThreadMain`. One field stands for all data (a snapshot has its value
  only if it changed, as `shouldSend` decides for numbers and texts) and one
  request for each of the two ways requests are made: `request` adds it and then
  asks whether to send it, `pingStatusReq` the other way round. `Moved` is what
  `std::move` leaves of `sync_first`: empty maps and the `bool`.
* In `ClientSync` the server reads a message as soon as it is sent. What it reads
  later, or never, because the connection is lost would only change a
  `MemberData` that is of no use any more: the next connection has a new one.
* In `PubSub` a field is a sequence of words, `a.b` is `<<1, 2>>`, and the word 0 is the empty
  one that hidden fields begin with. `ServeSync` is the message `sync` with the value
  messages that follow it, which travel together (`packSyncData`) and are handled in one
  callback; `SyncInit` is the whole first message: `sync_init`, requests, `sync`, data.
  Each packs for a client one batch (`Batch`), flushed by `clientSendAll`. `Recv` applies a
  batch as a whole: `initMember` first, then entries and results, the last result of a
  field in the order of the server's map if there are two. `getReq` of an id that is
  not known gives no member and no field, under which the code stores the value too.
* A value is its field and the number of the `sync()` that sent it; the number is its
  time as well. `last_sync_time` is a constant because no line assigns it.
* A connection that is lost may lose the end of what was sent on it (`Disconnect`).

* `Views` keeps the same data as the code on both sides of the link: `data_send_prev` of
  the publisher, `ViewData` of the server and the followers. `Serve` is the case of one
  message in `MemberData::onRecv`, with the answers in the newer and the older protocol.
  A component without an id gets one from its type and its place (`..0.1`).
* In `ImageConvert` a handler of the server is one step, but `onClose` keeps `server_mtx`
  until it has joined the threads of the connection (`server_mtx`, `joined`). A thread
  sleeps in `"asleep"`, and `Notify` is `image_cv.notify_all`: who is not asleep misses it.
* In `Promises` the mutex is given up around every callback; `doing[t]` says in which call
  a thread is. Waiting threads can wake for no reason and time out.
* In `Server` Crow is external: `listen` and `runStopped` are what `run()` does, and what
  a `stop()` does that comes before `run()` is left open (`early`).
* In `Logs`, the `LogData` objects have identities, because the store, the queue and the
  application refer to the same one. `overtaken`, `repeated` and `wiped` are history: the
  cases in which lines are lost or repeated, which section 5 describes.
* In `Pings` a duration is what it was measured between: the ping sent last and the ping
  answered, which need not be the same one. `missed` is history.
* `WebSocket` names a byte by its message and place; curl gives any beginning of what is
  left of a frame, takes any beginning of what is sent, and fails at any time.
* `Packing` scales the widths down: `WordBits` for 64, `DoubleBits` for the mantissa of a
  double. What matters is their order, and that the limits are reached.
* In `Strings`, `Values`, `Funcs`, `Robots` and `CApi` objects that are shared have addresses, and
  fields refer to them: an operation on one is seen through all. Addresses in `CApi`
  are used again once they are free.
* `Values.changeValue` makes a vector of a number in every case, also for `resize(0)` and
  `resize(1)` (`Vector`; num_vector.cc:70-82), and its elements are shared from then on.
* In `ViewBuf` a function registered by `View::sync()` waits in `queued_funcs` (`data_send`) until
  `Client::sync()` (`transferSend`). There the one that is under the name already stays
  (`shouldSend`, data_store2.cc:27-29); a call that arrives before finds the last that waits (`getFunc`).
* `Transform` has all angles in quarter turns, where sine and cosine are whole: every
  conversion is exact, and the singular cases of every axis sequence occur.
* In `Entries`, names are sequences of characters of which two are the separators, in
  their order, because `entries()` relies on the order of strings.

`PubSub.given` and `mixed` are history: the request ids that a client has ever used and
for which field (0 among them, which `free()` leaves behind), and the members of which the server has read data from a connection
that was not the one in `clients_by_id` any more. `Relayed` and `EntriesKnown` exclude
them; section 5 says what happens then.

The fields `n`, `seen` and `moved` in `ClientSync` are history, and so is `taken`: the
number of a snapshot, the values that the server has got, and whether what it
got first had been moved out before. The field `by` of call messages is history: it names the process that made the
call and no guard reads it. `AnswerReachesItsCaller` is stated with it.

## 3. What is checked

| run | states | bounds | shows |
|---|---|---|---|
| `members` | 365 thousand | clients A (connects once) and B (twice, `FirstC2`) | `KnowsMembers`, `waitConnectionReturns` |
| `calls_live` | 66 thousand | A connects once, B twice, one call | a call finishes |
| `client_sync` | 1.2 million | 2 values, 2 calls of `set`, 2 of `sync`, 1 field, 1 loss | requests and the last value arrive, `sync_first` lasts, `close()` ends |
| `pub_sub` | 421 thousand | A connects twice and sends twice, B connects once, requests and frees one of three fields: one nested in it, one hidden; `LastConnectionLasts` | `FieldsRelayed` |
| `views` | 776 thousand | A connects twice and draws twice of 5 drawings, B once; a view, a 3D canvas that B follows in the older protocol, a 2D canvas that A shows in it; `OneAtATime`, `AFirst`, `LastConnectionLasts` | `ViewsAgree`, refinement of `ViewMirror` |
| `threads` | 91 thousand | images: two connections of the source with two and one image, one requester with two requests, one after the other (`InTurn`); promises: 3 threads, 2 answers, 1 callback; server: a TCP and a socket listener, 1 connection | `NoLostWakeup`, `Current`, `JoinReturns`; `EventsDelivered`, `NoLostWaiter`, refinement of `Settlement`; `StoreOutlivesListeners`, `Stops` |
| `traffic` | 1.1 million | logs: limits of 1 and 2 lines, 2 writes, 1 loss or 1 clear() (`ClearOrLoss`); pings: 3 rounds, 3 connections; websocket: 2 messages of 1 or 2 bytes a side, 2 connections; packing: 2 messages, integers of 4 bits, doubles of 3, floats of 2; registry: 4 connections, 2 names and none; entries: 2 members, 2 batches, 2 joins, a loss, a restart; strings: 2 variables, 1 view, 2 objects; values: 3 changes, 2 snapshots | `LinesArrive`, `RequestKnown`, `Measured`, `Transported`, `BatchesRead`, `EntryUnderOwnId`, `Reachable`, `IdIsForever`, `EntriesTold`, `TreeWalked`, `TextKept`, `SentIsMeant` |
| `application` | 837 thousand | view: 2 additions, 2 drawings; poses near the origin (`MaxCoordinate`, `OnAnAxis`); robots: 3 links in 2 models (`OneIsSet`); C API: 2 threads, 3 addresses, 2 calls; functions: 2 names, set twice, one Arg; calls to others: A and B may each connect twice, A calls once (`InTurn`, `CallerStays`) | `Shown`, `EventsReach`, `PoseKept`, `RobotArrives`, `HandlesKept`, `SignatureTold`, `CallsAnswered`; `CallsTypeOK`, `AnswerReachesItsCaller`, `PromiseSettles` |
| `round_trip` | | 1 client, 1 connection, 3 rounds | violation, section 5 |
| `close_returns`, `latest_runs`, `changes_sent` | | as above | violations, section 5 |

**Bounds.** `Conn` and `owner` bound how often clients connect: two connections of
one client are the smallest instance in which an old connection meets a new
one, and every property about reconnection needs just that. `FirstC2`
leaves out behaviours that differ only in which of two like connections is used
first. In `pub_sub` and `views` the constraint `LastConnectionLasts` leaves out what follows
the loss of a client's last connection: that client cannot be settled any more, and
what another client sees of a member that is gone is checked while its second
connection has not been opened yet. `MaxWrites`
and `MaxFrees` bound `sync()` and `free()`: two values, one older than the other, and a
request that is made, freed and made again. With the connections the other way round
(B twice, A once) the instance has 525 thousand states and passes as well. `MaxCalls` bounds
`runAsync`. Calls do not interact except through the map keys, which the proofs
cover for any number of calls, clients and connections. Member ids are bounded
by the number of connections. All queues are bounded by these. `MaxSets`, `MaxSyncs`
and `MaxLosses` bound `ClientSync`: two values and two syncs make an older and a newer
snapshot, and one loss, in any call of `send` or `recv`, a connection before and one
after it. In `views`, `OneAtATime` lets the ws thread send a drawing before the next is made,
and the follower read it, which loses the orders in which two differences are under way on
one link at once; a link is in order, and the follower's other side sees nothing of them.
In `traffic`, `ClearOrLoss` leaves out the behaviours of the log that have both
a `clear()` and a loss: what a `clear()` wipes and what a new connection brings again are
there, one after the other is not. In `application`, `CallerStays` leaves out what follows
the loss of the caller's last connection; the loss of its first is there, with answers
to it under way. The proofs of `LinesArrive` and of the three properties of `Calls` have no
such bounds.
In `threads` and `application`, `InTurn` fixes which of two like connections comes first;
two images and two requests are the least with which a thread misses one while it converts.
In `traffic` and `application` each part is
as small as lets its cases happen: a limit that is reached (`KeepLog`), a message in two
pieces, a number on each side of each limit, an address that is used twice, a rotation at
each singularity. `MaxRounds` = 3 is the least with which an answer comes a round late and one
more is told after it; with 4 rounds (399 thousand states) and with two clients `Measured`
and its strengthening hold as well. The proofs hold without the bounds.

**Properties.** Each is stated with its exceptions above its definition.

* Registry: `EntryUnderOwnId`, `Reachable`, `IdIsForever`: it stays consistent, whatever
  reconnects under an old name.
* `KnowsMembers`: a client that has processed everything sent to it knows the id of every
  other named member, so that messages it addresses by name go to the right one.
  `waitConnectionReturns`: once a connection lasts, `sync_init_end` comes and stays.
* `AnswerReachesItsCaller`: answers, also the ones generated by `onClose`, reach the
  process that called. `PromiseSettles`: late, repeated and generated answers do not
  change a promise. `CallFinishes`: a call finishes while the caller stays connected.
* `RequestsArrive`, `ValueArrives`: when both threads have nothing to do and there is a
  connection, the server has got every request and the last value that `sync()` took,
  whatever was lost on the way. They say nothing of a connection that began with
  an emptied `sync_first` (`server.moved`; `FirstHasData` states that it has data), nor of
  the ping status, which is in `RequestKnown`. `ConnectedHasFirst`: the assertion at
  `client_threading.cc:101`, and that `sync_first` stays set during a connection, on which
  `messagePushReq` and `sync()` rely. `CloseReturns`: the thread ends after `close()`.
* `FieldsRelayed`: when a client and its connection are settled, it has the server's last
  value of each field it has requested, nothing for fields that the member does not
  have, whatever came first: member, data or request; and it lists exactly the fields
  of the other members that are not hidden, those of closed members included.
* `ViewsAgree`: the server puts the differences together to what was drawn, and so does
  each follower, in either protocol. `Mirrors`: no follower ever shows anything that was
  not drawn, or goes back to an older picture.
* `NoLostWakeup`, `Current`: a conversion thread that sleeps has nothing to do, and what it has
  sent is the last image as requested last. `JoinReturns`: `onClose` gets on, unless the
  thread is where `close_returns` shows that it does not.
* `EventsDelivered`, `NoLostWaiter`, `SettledOnce`: callbacks are called, waiters are woken,
  the answer is one and stays, unless two threads answer at once (`raced`).
* `StoreOutlivesListeners`, `Stops`: the server's threads end when it stops, and before the
  store does.
* `LinesArrive`, `RequestKnown`, `Transported`, `BatchesRead`, `EntriesTold`,
  `TreeWalked`: what goes over a connection arrives whole, once and in order, and what a
  client lists is what there is. `TreeWalked` is about names that do not begin with a separator.
* `Measured`: a published duration counts from the ping of the round before, or from none,
  and what is told of a member in a later round is of a later ping: an answer is told once,
  however late it comes and over whichever connection. It does not say that the answer is that
  to the ping it counts from; `RoundTrip` does, and is violated (section 5).
* `PoseKept`, `HandlesKept`, `SignatureTold`, `CallsAnswered`, `TextKept`, `SentIsMeant`: the objects of
  the library mean the same through all operations, although they are shared, cached and
  sent later. `CallsAnswered` is about the outcome of one call, each listener or function having one.
  `SentIsMeant` leaves out fields that were changed in place (`in_place`), the subject of `changes_sent`.
* `Shown`: a follower reads the text of a view as it was written. `EventsReach`: a click runs a
  function that was drawn under the id of the element, and the one that the viewer saw if
  the element was given its id, or if nothing else was ever drawn at its place; and what was
  entered in an input is kept over drawings. An unnamed button that is drawn with another
  function keeps its first one, in the code as in the model.
* `RobotArrives`: a model arrives with its joints hung where they were, if none of its links
  was resolved at another place, in another model (`resolved`).

**Fairness.** All of it is weak. `SyncInit(c)` and `Serve(c)`: the server handles what it can
read from a connection (its event loop). `App(p)`: the application keeps calling `sync()`,
which the library asks of it. `FinishCall(p)`: functions return. In `Calls` only,
`~Held(c) /\ Close(c)` and `conn_of[p] \notin clients /\ Disconnect(p)`: the end of a
connection whose other end is gone is noticed eventually (the websocket closes;
`recv` fails). There is no fairness on connecting, on losing a connection that
works, or on `runAsync`. In `ClientSync`, `AppRuns` and `wsThreadMain`: a thread that can
go on does. That calls of libcurl return is part of it: `send` repeats a partial
write without end, so `close()` does wait for a server that has stopped reading.
There is none on `init` and on what the application decides to do. `ImageFairness`: a
conversion thread that can run does, and `join` returns when it has ended; none on handlers.
`PromiseFairness`: callbacks return, and a thread that is woken gets the mutex; none on
answering. `ServerFairness`: the threads of the server go on, `run()` of a listener that is
told to stop returns; none on stopping. The other modules have safety properties only.

**Mutants.** Each property of a passing run has a defect that it finds; these are the
operators with names like `registerClientOldId` next to the definition they
change, with a comment.

## 4. What is proved

All theorems hold for every set of connections, names and clients, every
assignment of names (`MemberName`), every bound on reconnections (`owner`) and
calls (`MaxCalls`), under the assumptions named in the modules: `NoName \notin Name`,
`NoConn \notin Conn`, and the types of the constants.

* `RegistryConsistent`: `StoreSpec => []StoreInv`. `StoreInv` is inductive.
  `EntryUnderOwnId`, `Reachable` and `NoUnnamedLeftBehind` are not inductive alone: that a
  fresh id is free needs `IdsBelowLast`; that erasing an unnamed member's entry
  hits nobody else needs `IdsShared` (initialised members share an id only when
  they share a name); that a name found has an entry needs `Filed`.
  `EntriesUnderOwnId`, `MembersReachable`, `UnnamedForgotten` and `NamesKeepIds` follow.
* `MembersImplementStore`, `CallsImplementStore`, `PubSubImplementsStore`: each step of the protocols is a step of
  the registry or leaves it alone, so the theorems above hold of them.
* `CallsTypeCorrect`: `CallsSpec => []CallsTypeOK`, including that the domain of every
  `pending_calls` is finite (needed for the sequences that `Aborts` builds) and that
  messages are on the wire only of open connections that their client has
  given up.
* `AnswersReachCaller`: with distinct member names, `CallsSpec => []AnswerReachesItsCaller`.
  The inductive invariant is `CallerKnown`: until the server has read it, a call sits
  on a connection of the process that made it; from then on the call, its entry
  in `pending_calls` and its answers carry a member id that only this process has
  used. That an id is not handed to another process is `StoreInv`. The assumption is
  needed: two connected clients of one name share an id, and the answer goes to
  the one that registered last.
* `PromisesSettle` of `Calls_proofs`: `CallsSpec => PromiseSettles`. The invariant is that a promise which is
  in the store and finished has been reached, so `reach` cannot overwrite
  `finished`; the offline promise of `runAsync`, finished and still in the store, is
  the case that makes it non-trivial.

* `RequestsReachServer`, `LastValueReachesServer`: `ClientSpec => []RequestsArrive` and
  `[]ValueArrives`. Both follow from `NothingForgotten`: every request, and the last value
  taken, is in `sync_first`, or in the hands of the application thread, in `sync_queue`,
  in what the ws thread is sending, or in the server on a connection that still
  works; or `sync_first` is empty and will be made anew; or it has been moved out and
  its connection is lost. That is inductive together with `LoopInv`, what holds at
  each place of the loop, and with the types, which say that nothing but
  snapshots and requests is queued. `ConnectionHasFirst` and `ClientSyncTypeCorrect` are
  these two.

* `MembersConsistent`, `MembersKnown`: `MembersSpec => []KnowsMembers`. The invariant
  `MembersInv` speaks of what a client knows *and* of what is on its way to it:
  `BeliefsTrue` (whatever it believes of a member, or is about to read, names an entry
  of the registry, also what is left over from an older connection), `AllTold` (of each
  initialised member it either knows or will read, or the connection has not begun)
  and `SelfTold` (its own id). That ids agree when two messages name one member is
  `IdIsForever` and `StoreInv`.
* `PubSubConsistent`, `DataRelayed`: `PubSubSpec => []FieldsRelayed`. `FieldsRelayed` is about
  settled clients, so it says nothing that a step could preserve. `PubSubInv` says the same
  of a client in the middle of things: what it *will* list, have and read when it has
  handled the batches that wait (`WillList`, `WillHave`, `WillRead`), and that each request
  the server does not have yet is on its way (`RequestsUnderWay`). A step of the server
  appends one batch for a client (`ToldClient` of the lemmas), `Recv` takes the first one off and
  applies it (`WillListTail`, `WillReadTail`), and a step of others leaves a client
  `Untouched`. `ResultsRequested` and `IdsGiven` (history) tie the id in a result to the field it
  was asked for, without which a result on its way could be stored under another name.
  The order in which `findReqField` tries the requests is a lemma of its own:
  `Before` is total and transitive (`BeforeTransitive`), so a finite set has a first one.
  The theorem holds for fields of any names. What it leaves out is named in the formula: members of whom
  the server has read an old connection after a new one (`mixed`), clients that have used
  a request id for two fields (`IdsDiffer`), and fields for which `findReqField` takes the data
  of others (`TakenFor`: with a request for `a.b`, the data of `a` is stored as that of `a.b.b`,
  member_data.cc:134-148).
* `ViewsImplementStore`, `ViewsConsistent`, `ViewsFollowed`: `ViewsSpec => []ViewsAgree`, for drawings of any
  size and number, any components, both protocols and any number of followers. What a series of
  differences adds up to is not a formula over the messages but a sequence of states
  (`Wholly`): the data of the server now, and after each of the messages on their way, each the
  one before it with one more difference (`Serve`). `ViewsInv` says that there is such a sequence in
  which every view is whole, and whose last one shows what the publisher has
  (`Brings`, `WillKeep`); so it is for the connection there is, and for the one to come with `sync_first`.
  Data of the server may have more components than are shown (`Carries`), since those
  that are gone are not erased: a difference made from the publisher's own data fits
  nevertheless (`DiffCarries`), and so does one that is made from nothing. `WillFollow` is the same of a follower
  and its batches (`Follows`), which end at a copy of what the server has (`Copies`: in the older
  protocol a list of the components in their order), if it is requested on the connection. What is left of an earlier connection
  in `sync_queue` is taken out by `Rest` as long as nothing of it is sent (`trusted`).
* `ImagesConsistent`, `WakeupsArrive`, `SleepersCurrent`, `ResultsInOrder`: `ImageInv` has, for
  each place a conversion thread may be at, what it holds and what its local
  copies of the counters say (`ThreadsFounded`: it runs for a request of this
  connection, and the entries it has looked at are those of the source; `NeverAhead`: no
  copy of a counter is ahead of it, and no result older than the one before). `NoLostWakeup` is then inductive because the
  predicate is evaluated and the sleep begun under the mutex that every change takes;
  `SeenIsSent` gives `Current`. `ImagesImplementStore` is the refinement of the registry.
* `PromiseConsistent`, `CallbacksCalled`, `WaitersWoken`, `PromisesSettle` of
  `Threads_proofs`: an event that has happened has its callback called by the thread that
  made it happen or by the one that registered the callback, and either is still
  on its way to it or has done so. `PromisesSettle` is the refinement of `Settlement`, step by step:
  one step of a thread is one answer, one event told, or none.
* `ServerConsistent`, `ListenersEndFirst`: what `main` is about to join decides which threads
  may still run; the store is destroyed after the last of them.
* `PingsConsistent`, `RequestsArrive`: a request is in the first message, or in the
  queue behind it, or on its way, or registered, or `missed` (`RequestUnderWay`); a member has
  been sent the ping of the last round or none yet, and its duration is measured from that
  one (`DurationSince`).
* `PingsInLine`, `DurationsMeasured`: `PingSpec => []Measured`. That a duration counts from the right
  ping is in the types of `PingInv`. The order needs `OrderInv`: the pings of a client go round,
  from `to_client` through `recv_queue`, `sync_queue` and `to_server` to `last_ping_duration`, without
  overtaking, also where connections and parts of the queues are lost (`InLine`); and each
  status, on its way or known, tells only of pings older than all that are not told yet
  (`OlderThanUntold`).
* `LogsConsistent`, `LogLinesArrive`: `LogsSpec => []LinesArrive`. Like `FieldsRelayed` it is about a
  settled state, and `LogsInv` says it of any other: the lines the server *will* have (`WillLog`:
  its log, then what the connection carries, the ws thread sends, the queue holds, the
  application thread pushes and has not taken yet, `OnTheWay`) end with what was written, and
  what the reader will have (`WillView`, where a `sync_init` that waits empties what is before
  it) ends with what the server has (`Known`). `Alike` compares two logs from their ends,
  which cutting to `keep_log` at the front leaves as they are; that each line is there
  once is `Orderly`. Lines under way are a concatenation of messages; what `FlattenSeq` returns
  for a sequence that grows at an end is proved in `ServerStore_proofs` (`FlattenUnique`,
  `FlattenAppend`, `FlattenHead`) by the least element of a set of lengths, without an
  induction theorem of the library.
* `EntriesConsistent`, `ListsWhatWasSent`: `EntriesSpec => []EntriesTold`. `EntriesInv` says of a client that
  is still reading what it *will* list (`WillList`): the last `sync_init` of a member that waits, or
  the id that was read already, is that of the server, no later one takes the id or the name,
  and the entries under the id from there on are, with those listed, what the member has sent and
  not hidden. That the client never lists what another has sent needs the other direction:
  whoever has the id by the time that an entry is read (`WillHaveId`) has sent the entry
  (`OwnersKnown`). Ids of the server are apart (`ServerIdsApart`), but those a client
  remembers from before a restart need not be, hence `confused`. A connection is told of all
  members in one step: that each is told just once is proved by the least number of members told
  that would break it.
* `WebSocketConsistent`, `MessagesTransported`: `WebSocketSpec => []Transported`, for messages of any lengths and any number.
  `RestInFrames`: what was handed over on a connection are the first messages of the server, and
  what curl has not given are the others (and empty ones), which the numbers of the messages
  keep in order; `BufferIsBeginning`: the buffer has the first of them as far as it was given, and
  nothing when a connection begins, whatever the one before left in it; `RestIsSent`: what has arrived
  and the rest of the message that is being sent are all bytes that were to be sent. The last two lean on
  `HandleKnown`: where the thread sends or receives, the handle is that of the connection.
* `FuncsConsistent`, `SignaturesTold`: the arguments a shared
  `FuncInfo` has are those declared (`ArgsDeclared`), a message goes with its own call (`OwnMsg`),
  and what was told is what it means (`ToldIsMeant`), unless a function was set twice. `CallsAnswered` is one of its parts.
* `PointersConsistent`, `HandlesStayValid`: what the program holds of the C API is in
  the list of its kind and is not freed before it is given back, unless two threads raced for it.
* `RobotsConsistent`, `RobotsArrive`; `StringsConsistent`, `TextsKept`: a joint's index is that
  of its parent in every model that is set, stored or received, unless a link of it has been
  resolved at another place in another model, where the first index stays
  (robot_link.cc:83; the formulas exclude it by `resolved`); every encoding of a
  string that is filled is of one text, whatever strings and literals share the object.
* `ViewBufConsistent`, `EventsReachElements`: `BufSpec => []EventsReach`. `BufInv` says that what was
  ever drawn under an id (`bound`) is of a component of this id or without one
  (`BoundByComponents`), that what waits or is stored under an id was drawn under it
  (`FunctionsBound`), that whatever can be clicked, in any picture and in the call under way, has
  something stored under its id (`PicturesRegistered`), and of every InputRef
  under which id it reads (`Bindings`). Nothing is said of which of several functions at one place
  is stored; the first one is. `ComponentAssumption` is what docs/54_view.md:749 asks of ids.
  The attempt showed that `InputKept` had held only in a small instance: an InputRef that is
  bound under two ids keeps the last one. It is now stated for programs that bind an
  InputRef once in a drawing (`bound_alike`).

The assumptions are those named in the modules, which TLC evaluates in each run: special
values differ from the sets they are not part of (`NoName`, `NoConn`, `NoCallback` ...), constants have
their types (`OtherAssumption`, `BatchAssumption` ...), and what a program can ask for is finite (`PubSubAssumption`: fields and
requests, since `std::map` holds them). Two say more: `ImageAssumption` has images of at least one pixel. `ViewAssumption` has ids that are unique in a
drawing (docs/82_client_spec.md:34) and a publisher whose name no other client has
(docs/41_client.md:25).

Only model-checked, and why:

* Liveness: `waitConnectionReturns`, `CallFinishes`, `CloseReturns`, `JoinReturns`, `Stops`. The prover has
  no rules for fairness and `ENABLED`.
* `Mirrors`: `ViewsInv` says what a server and a follower will have in the end, not that each
  message in between is older than the next. Not tried.
* `BatchesRead`, `TreeWalked`, `Shown`: what recursive functions compute for every input, which is
  induction over data. `PoseKept` is about the arithmetic of rotations, of which
  TLC tries all at quarter turns.
* `SentIsMeant`: what a message holds is a fold over `data_send` with vectors that objects share;
  not tried.
* The four violations.

## 5. Where the code and its documentation disagree

Four of the disagreements are runs:

* `round_trip` (`RoundTrip`; docs/81_message.md:77, member_data.cc:164-168). The answer to a ping
  is measured against the ping sent last. If it comes after the next one, the duration that is
  published is that of neither.
* `close_returns` (`OnCloseReturns`; CHANGELOG.md:471). `onClose` joins the conversion threads
  while it holds `server_mtx`; a thread that has converted its image and waits for that
  mutex to send it never ends, and the server stands still.
* `latest_runs` (`LatestRuns`; docs/53_func.md:44). A function set under a name that had
  one is not sent again, and `transferSend` drops it: calls run the first one.
* `changes_sent` (`ChangesSent`; docs/51_value.md:32). Copies of a vector share their elements.
  `push_back` after it was sent changes what it is then compared with, so it is not sent.

The statements in the following list are defined in the modules, and TLC finds each of them
violated when it is put in the place of the property of the run of its module
(`SubfieldsRelayed` and `StoredUnderItsName` with all fields requested, each published alone).

* `OpenMeansConnected` (docs/42_member.md:126). B loses its connection and comes back
  before the server notices; the close of the old connection then announces
  the id that the new one has taken over. Everybody believes B to be gone, and
  B itself enters its own name in `member_entry`, which `client_internal.h:316` excludes.
* `SnapshotsInOrder` (client_internal.h:192-196). `connected` is set before `sync_first` is
  made, and the queue survives a disconnection; in both cases a snapshot that is
  already queued is sent after a `sync_first` with newer data. The server ends up
  with the older value, and as the client has sent the newer one, it does not send
  it again until it changes.
* `FirstHasData` (client_internal.h:197). If sending the first message of a connection
  fails, `sync_first` is not reset, and the next connection starts without the data
  and the requests; the server gets only what changes from then on.
* `SubfieldsRelayed` (docs/82_client_spec.md:54, :60). `findReqField` looks for requests
  below the published field instead of above it. A request for `x` is answered with
  `x.y` if that exists, but is not told when it is published later; and a request for
  `x.y` is told of `x`, as its sub-field `y`, which the client stores as `x.y.y`.
* `StoredUnderItsName` (docs/82_client_spec.md:58). `free()` does not tell the server, and
  the id it frees is given to the next request; what the server sends for the freed
  field is stored under the name of the new one. `Relayed` is stated for clients that
  have not used an id twice (`IdsDiffer`).
* `SyncTimeKnown` (docs/82_client_spec.md:55). The `sync` that answers a request has
  `last_sync_time`, which is never set, so `Member::syncTime()` is that of no data, also
  after a reconnection when it was known before.
* `AlwaysCurrent` (docs/82_client_spec.md:54). A conversion thread compares the counter of
  changes of the image with the one of the connection it looked at before: the image of
  a new connection of the source is not sent if the numbers agree.
* `IdsHaveComponents` (message/view.h:61-65). A difference made on an earlier connection
  reaches the server on a new one: ids without components.
* `WaitIncludesCallback` (func_result.h:160-162). A thread that waits for the end of a call
  may return while the callback for it still runs.

Observed with TLC in the course of modelling, in the same models or variants of them:

* The server announces closed members whose data it keeps in the same way as
  connected ones, and a client takes each announced member as connected, although
  docs/42_member.md:127 says otherwise.
* A reconnection before the next `sync()` clears `did_disconnect` (`client_threading.cc:127`),
  so no `onDisconnect` callback runs and members that closed in the meantime stay
  connected in `member_entry` (client_internal.h:157-159, docs/41_client.md:233).
* What `sync()` queues while the ws thread sends the batch before is dropped by a
  `close()` that follows (docs/41_client.md:472).
* A call of `recv` that receives a message and then finds the connection closed
  returns true and is repeated, without a handle (assertion at client_ws.cc:150).
* When a publisher comes back before the server has read all of its old connection,
  the rest of the old data is relayed after the newer data, and its entries are
  announced although the new connection does not have them (`mixed`).
* `free()` of a field that was not requested leaves the id 0 in `req`, and the next first
  message sends it. After two of them there are two requests with the id 0
  (`data_store2.cc:224`); the server answers both, and the client stores both answers under
  the one field that `getReq` finds for 0 (`data_store2.cc:250`).
* After a restart of the server a client keeps the entries and ids of members that the
  server does not know any more (`client_msg_recv.cc:348`; docs/43_field.md:348), and two
  names may have one id (`confused`).
* Names with `/` are listed normalised, but a client's own field of such a name is not:
  `foo.bar` and `foo/bar` are two fields in it, and the children of `foo/bar` are not found
  (docs/43_field.md:214-217). The child of the root of a name that begins with a separator
  is the root itself.
* A number from 2^63 on as the argument of a function arrives negative (`pack.h:96-99` packs it
  as unsigned, `val_adaptor.h:165-175` reads it as signed), and the comparison there lets 2^64
  pass, whose conversion is undefined. `ValAdaptorVector::get()` of an empty vector changes it.
* The size of a 2D canvas alone is not sent when nothing else changes (`client_msg_sync.cc:274`).
* A conversion thread whose source is gone looks for it without pause
  (`image_conversion.cc:321`).

Further, by reading: a batch of an old
connection that is still in `recv_queue` when the connection is lost sets
`sync_init_end` and `connected()` of other members after both have been reset
(docs/42_member.md:135 says otherwise); the result of a call can arrive when its
response was lost with the caller's previous connection, so that a promise is
finished but not reached (docs/53_func.md:685). A call that its callee has
refused (`call_response` false) is answered by an error result too when the callee
disconnects (`member_data.cc:344`; docs/82_client_spec.md:82 excludes it);
`PromiseSettles` shows that the C++ client is not affected. A ping status request is
lost for a connection if `sync_first` is made between its `messagePushReq` and
`ping_status_req = true` (`client_msg_sync.cc:20-25`; client_internal.h:246 says that
`sync_first` contains all requests; `missed` in `Pings`).

## 6. What is not modelled, and the plan

Left out, with reasons in `PROJECT.json`: the codecs of images and `ImageFrame`, look-up of
files and addresses, the command line, formatting of messages, and the `Client` class, whose
functions call those of `ClientData`. Of the components that are modelled:
`closing` (except in `ClientSync` and `WebSocket`), `auto_reconnect = false`, several application
threads in one client (except in `Promises` and `CApi`), calls a member makes to itself
over the server, the layouts of single messages, rotations by other angles than quarter
turns, and the rounding that they bring.

To be proved next: that `Views` implements `ViewMirror` (`Mirrors`).

## 7. Running

`tlc -config MCMembers.cfg MCMembers.tla` and the like for each configuration;
`tlapm Calls_proofs.tla` for each module of proofs. The longest run takes about
three minutes, the longest proof (`PubSub_proofs`) about eight.
