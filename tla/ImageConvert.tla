---------------------------- MODULE ImageConvert ----------------------------
(***************************************************************************)
(* The image conversion threads of the server: imageConvertThreadMain      *)
(* (image_conversion.cc) with the image, the image request and the close   *)
(* handlers of MemberData (member_data.cc) that feed and stop it.          *)
(*                                                                         *)
(* A connection that requests an image gets a thread of its own, which     *)
(* sleeps on image_cv of the requester until the image or the request has  *)
(* changed, converts the image, and takes server_mtx to send the result.   *)
(* The callbacks of the server run with server_mtx held and are one step   *)
(* each, except onClose, which keeps server_mtx while it waits for the     *)
(* threads of the closed connection to end.                                *)
(*                                                                         *)
(* All threads here are for one field of the member named Source: threads  *)
(* for other fields only share image_cv, which wakes them to no effect.    *)
(***************************************************************************)
EXTENDS ServerStore, Integers

CONSTANTS NoConn,       \* no connection
          Source,       \* the member whose image is requested
          Image,        \* images a client may send
          ImageReq,     \* requests a client may send
          MaxImages,    \* bounds: Conn -> how many images it sends,
          MaxReqs       \*   Conn -> how many requests it sends

\* An image has a size and a color mode that is known, or else its conversion
\* throws; no bytes at all make it empty.  A size that is not requested is NoSize.
NoSize == -1000
ASSUME ImageAssumption ==
    /\ NoConn \notin Conn
    /\ Source \in Name
    /\ Image \subseteq [width : Nat \ {0}, height : Nat \ {0}, known : BOOLEAN,
                        empty : BOOLEAN]
    /\ ImageReq \subseteq [rows : Int, cols : Int,
                           cmp : {"raw", "jpeg", "webp", "png", "unknown"},
                           quality : Int]
    /\ MaxImages \in [Conn -> Nat] /\ MaxReqs \in [Conn -> Nat]

VARIABLES
    image,              \* MemberData::image: the last one, or NoImage
    image_changed,      \* MemberData::image_changed
    image_req_info,     \* MemberData::image_req_info, or NoReq
    image_req_changed,  \* MemberData::image_req_changed
    server_mtx,         \* the connection whose onClose holds server_mtx, or NoConn
    pc,                 \* where the thread of a requester is
    cd,                 \* the MemberData that findAndDo gave to the thread
    last_image_flag,    \* local variables of the thread
    last_req_flag,
    img,
    img_send,           \* what it has converted: [conn, image, req]
    received,           \* the last result sent to a requester
    looked              \* history: the MemberData the thread has looked at

sourceVars == <<image, image_changed>>
reqVars == <<image_req_info, image_req_changed>>
threadVars == <<pc, cd, last_image_flag, last_req_flag, img, img_send, received, looked>>
imageVars == <<storeVars, sourceVars, reqVars, server_mtx, threadVars>>

NoImage == [width |-> 1, height |-> 1, known |-> FALSE, empty |-> TRUE]
NoReq == [rows |-> NoSize, cols |-> NoSize, cmp |-> "raw", quality |-> 0]
NoResult == [conn |-> NoConn, image |-> 0, req |-> 0]

ImageInit ==
    /\ StoreInit
    /\ image = [c \in Conn |-> NoImage] /\ image_changed = [c \in Conn |-> 0]
    /\ image_req_info = [c \in Conn |-> NoReq]
    /\ image_req_changed = [c \in Conn |-> 0]
    /\ server_mtx = NoConn
    /\ pc = [c \in Conn |-> "none"] /\ cd = [c \in Conn |-> NoConn]
    /\ last_image_flag = [c \in Conn |-> -1] /\ last_req_flag = [c \in Conn |-> -1]
    /\ img = [c \in Conn |-> NoImage] /\ img_send = [c \in Conn |-> NoResult]
    /\ received = [c \in Conn |-> NoResult] /\ looked = [c \in Conn |-> {}]

----------------------------------------------------------------------------
(* The callbacks of the server.                                            *)

\* MemberData::closing: onClose has run.
isClosing(c) == member_id[c] # 0 /\ c \notin clients

\* image_cv.notify_all() for the connections R.
Notify(R) == [r \in Conn |-> IF r \in R /\ pc[r] = "asleep" THEN "check" ELSE pc[r]]

\* Who has an entry in image_req[n], for members that are open and initialised.
\* The operators [] of hasReq and findReqField may insert an empty entry, which
\* only makes for needless notifications.
Requesters(n) == {r \in ForEach : n = Source /\ image_req_changed[r] > 0}

newConnection(c) ==
    /\ server_mtx = NoConn
    /\ newClient(c)
    /\ UNCHANGED <<sourceVars, reqVars, server_mtx, threadVars>>

syncInit(c, n, id) ==
    /\ server_mtx = NoConn
    /\ registerClient(c, n, id)
    /\ UNCHANGED <<sourceVars, reqVars, server_mtx, threadVars>>

\* A defect that the properties exclude: only the connection's own threads are
\* notified of its image.
recvImageNotifySelf(c, v) ==
    /\ server_mtx = NoConn /\ c \in ForEach
    /\ image_changed[c] < MaxImages[c]
    /\ image' = [image EXCEPT ![c] = v]
    /\ image_changed' = [image_changed EXCEPT ![c] = @ + 1]
    /\ pc' = Notify({c})
    /\ UNCHANGED <<storeVars, reqVars, server_mtx, cd, last_image_flag,
                   last_req_flag, img, img_send, received, looked>>
\* The image handler, which holds image_m of every member meanwhile.
recvImage(c, v) ==
    /\ server_mtx = NoConn /\ c \in ForEach
    /\ image_changed[c] < MaxImages[c]
    /\ image' = [image EXCEPT ![c] = v]
    /\ image_changed' = [image_changed EXCEPT ![c] = @ + 1]
    /\ pc' = Notify(Requesters(name[c]))
    /\ UNCHANGED <<storeVars, reqVars, server_mtx, cd, last_image_flag,
                   last_req_flag, img, img_send, received, looked>>

\* The image request handler starts the thread unless there is one.
recvReq(r, info) ==
    /\ server_mtx = NoConn /\ r \in ForEach
    /\ image_req_changed[r] < MaxReqs[r]
    /\ image_req_info' = [image_req_info EXCEPT ![r] = info]
    /\ image_req_changed' = [image_req_changed EXCEPT ![r] = @ + 1]
    /\ pc' = IF pc[r] = "none" THEN [pc EXCEPT ![r] = "find"] ELSE Notify({r})
    /\ UNCHANGED <<storeVars, sourceVars, server_mtx, cd, last_image_flag,
                   last_req_flag, img, img_send, received, looked>>

\* onClose up to where it joins the threads, server_mtx being held.
onClose(c) ==
    /\ server_mtx = NoConn
    /\ removeClient(c)
    /\ server_mtx' = c
    /\ pc' = Notify({c} \cup (Requesters(name[c]) \ {c}))
    /\ UNCHANGED <<sourceVars, reqVars, cd, last_image_flag, last_req_flag, img,
                   img_send, received, looked>>

\* Its join() returns when the thread has ended.
joined(c) ==
    /\ server_mtx = c
    /\ pc[c] \in {"none", "ended"}
    /\ server_mtx' = NoConn
    /\ UNCHANGED <<storeVars, sourceVars, reqVars, threadVars>>

----------------------------------------------------------------------------
(* The thread of requester r.                                              *)

\* The MemberData that findAndDo(Source) passes to the loop, if any.
Entries == {clients_by_id[i] : i \in SameName(Source)}

\* The head of the outer loop.  Nothing found: around again without a pause.
find(r) ==
    /\ pc[r] = "find"
    /\ \/ /\ isClosing(r)
          /\ pc' = [pc EXCEPT ![r] = "ended"]
          /\ UNCHANGED <<cd, looked>>
       \/ \E c \in Entries :
             /\ ~isClosing(r) /\ ~isClosing(c)
             /\ pc' = [pc EXCEPT ![r] = "check"]
             /\ cd' = [cd EXCEPT ![r] = c]
             /\ looked' = [looked EXCEPT ![r] = @ \cup {c}]
    /\ UNCHANGED <<storeVars, sourceVars, reqVars, server_mtx, last_image_flag,
                   last_req_flag, img, img_send, received>>

\* A defect that Current excludes: only the image is waited for.
ChangedImageOnly(r) == image_changed[cd[r]] # last_image_flag[r]

\* What image_cv.wait waits for.
HasNews(r) ==
    \/ image_changed[cd[r]] # last_image_flag[r]
    \/ image_req_changed[r] # last_req_flag[r]

\* The head of the inner loop, up to where image_m is released.
wait(r) ==
    /\ pc[r] = "check"
    /\ \/ /\ isClosing(cd[r]) \/ isClosing(r)
          /\ pc' = [pc EXCEPT ![r] = "find"]
          /\ UNCHANGED <<last_image_flag, last_req_flag, img>>
       \/ /\ ~isClosing(cd[r]) /\ ~isClosing(r) /\ ~HasNews(r)
          /\ pc' = [pc EXCEPT ![r] = "asleep"]
          /\ UNCHANGED <<last_image_flag, last_req_flag, img>>
       \/ /\ ~isClosing(cd[r]) /\ ~isClosing(r) /\ HasNews(r)
          /\ last_image_flag' = [last_image_flag EXCEPT ![r] = image_changed[cd[r]]]
          /\ last_req_flag' = [last_req_flag EXCEPT ![r] = image_req_changed[r]]
          /\ img' = [img EXCEPT ![r] = image[cd[r]]]
          /\ pc' = [pc EXCEPT ![r] = IF image[cd[r]].empty THEN "find"
                                                           ELSE "convert"]
    /\ UNCHANGED <<storeVars, sourceVars, reqVars, server_mtx, cd, img_send,
                   received, looked>>

\* The size that is requested: a side that is not given keeps the aspect ratio.
Scaled(side, num, den) == IF side <= 0 THEN 0 ELSE (side * num) \div den
Rows(info, v) == IF info.rows # NoSize THEN info.rows
                 ELSE Scaled(info.cols, v.height, v.width)
Cols(info, v) == IF info.cols # NoSize THEN info.cols
                 ELSE Scaled(info.rows, v.width, v.height)

\* The requests at which the loop over images is left: the return is one of the
\* function given to findAndDo, so that the thread goes around once more.
Rejected(info, v) ==
    \/ /\ info.rows # NoSize \/ info.cols # NoSize
       /\ Rows(info, v) <= 0 \/ Cols(info, v) <= 0
    \/ info.cmp \in {"jpeg", "png"} /\ info.quality \notin 0..100
    \/ info.cmp = "webp" /\ info.quality \notin 1..100
    \/ info.cmp = "unknown"

\* A defect that JoinReturns excludes: closing is not checked again.
convertUnchecked(r) ==
    /\ pc[r] = "convert"
    /\ img_send' = [img_send EXCEPT ![r] = [conn |-> cd[r],
                       image |-> last_image_flag[r], req |-> image_req_changed[r]]]
    /\ pc' = [pc EXCEPT ![r] = IF ~img[r].known THEN "check"
                 ELSE IF Rejected(image_req_info[r], img[r]) THEN "find"
                 ELSE "deliver"]
    /\ UNCHANGED <<storeVars, sourceVars, reqVars, server_mtx, cd, last_image_flag,
                   last_req_flag, img, received, looked>>

\* The conversion, which reads the request without a lock, up to the check of
\* closing at its end.  An exception is logged, and the loop goes on, as it does,
\* after a pause that the frame rate asks for, when the image has been sent.
convert(r) ==
    /\ pc[r] = "convert"
    /\ img_send' = [img_send EXCEPT ![r] = [conn |-> cd[r],
                       image |-> last_image_flag[r], req |-> image_req_changed[r]]]
    /\ pc' = [pc EXCEPT ![r] =
                 IF ~img[r].known THEN "check"
                 ELSE IF Rejected(image_req_info[r], img[r]) THEN "find"
                 ELSE IF isClosing(cd[r]) \/ isClosing(r) THEN "check"
                 ELSE "deliver"]
    /\ UNCHANGED <<storeVars, sourceVars, reqVars, server_mtx, cd, last_image_flag,
                   last_req_flag, img, received, looked>>

\* With server_mtx, the result is sent, if the connection is still there.
deliver(r) ==
    /\ pc[r] = "deliver" /\ server_mtx = NoConn
    /\ received' = IF r \in clients THEN [received EXCEPT ![r] = img_send[r]]
                                    ELSE received
    /\ pc' = [pc EXCEPT ![r] = "check"]
    /\ UNCHANGED <<storeVars, sourceVars, reqVars, server_mtx, cd, last_image_flag,
                   last_req_flag, img, img_send, looked>>

thread(r) == find(r) \/ wait(r) \/ convert(r) \/ deliver(r)

----------------------------------------------------------------------------
ImageNext ==
    \E c \in Conn :
       \/ newConnection(c)
       \/ \E n \in MName : \E id \in AssignableId(c, n) : syncInit(c, n, id)
       \/ \E v \in Image : recvImage(c, v)
       \/ \E info \in ImageReq : recvReq(c, info)
       \/ onClose(c)
       \/ joined(c)
       \/ find(c)
       \/ wait(c)
       \/ convert(c)
       \/ deliver(c)

\* Threads run, and a join of a thread that has ended returns.
ImageFairness == \A c \in Conn : WF_imageVars(thread(c)) /\ WF_imageVars(joined(c))

ImageSpec == ImageInit /\ [][ImageNext]_imageVars /\ ImageFairness

----------------------------------------------------------------------------
(* Properties.                                                             *)

Result == [conn : Conn \cup {NoConn}, image : Int, req : Nat]
ImageTypeOK ==
    /\ StoreTypeOK
    /\ image \in [Conn -> Image \cup {NoImage}] /\ image_changed \in [Conn -> Nat]
    /\ image_req_info \in [Conn -> ImageReq \cup {NoReq}]
    /\ image_req_changed \in [Conn -> Nat]
    /\ server_mtx \in Conn \cup {NoConn}
    /\ pc \in [Conn -> {"none", "find", "check", "asleep", "convert", "deliver",
                        "ended"}]
    /\ cd \in [Conn -> Conn \cup {NoConn}]
    /\ \A r \in Conn : pc[r] \in {"check", "asleep", "convert", "deliver"}
                          => cd[r] \in Conn
    /\ last_image_flag \in [Conn -> Int] /\ last_req_flag \in [Conn -> Int]
    /\ img \in [Conn -> Image \cup {NoImage}]
    /\ img_send \in [Conn -> Result] /\ received \in [Conn -> Result]
    /\ looked \in [Conn -> SUBSET Conn]

\* A thread that sleeps has nothing to do: whoever changes the image or the request
\* or closes either end wakes it, although image, request and closing are written by
\* three different handlers and the thread checks them under image_m of one member
\* (the image_cv comment of member_data.h).
NoLostWakeup ==
    \A r \in Conn : pc[r] = "asleep" => ~HasNews(r) /\ ~isClosing(r) /\ ~isClosing(cd[r])

\* What r has when its thread sleeps, if the image can be converted as requested.
UpToDate(r) ==
    \/ image[cd[r]].empty \/ ~image[cd[r]].known
    \/ Rejected(image_req_info[r], image[cd[r]])
    \/ received[r] = [conn |-> cd[r], image |-> image_changed[cd[r]],
                      req |-> image_req_changed[r]]

\* When the thread of a requester sleeps and has looked at one MemberData only, the
\* requester has been sent the last image, converted as it requested last, whatever
\* came in while the thread was converting or waiting for server_mtx.
Current ==
    \A r \in Conn : pc[r] = "asleep" /\ looked[r] = {cd[r]} => UpToDate(r)

\* docs/82_client_spec.md:54: a request is answered at once and whenever the data
\* changes.  Not so when the image comes from a new connection of its member.
AlwaysCurrent == \A r \in Conn : pc[r] = "asleep" => UpToDate(r)

\* Results from one MemberData are sent in the order in which it received the images
\* and the requester sent the requests, although the request is read without a lock
\* after the flags, and the result is sent long after both.
InOrder ==
    [][\A r \in Conn : received'[r].conn = received[r].conn
          => /\ received'[r].image >= received[r].image
             /\ received'[r].req >= received[r].req]_imageVars

\* onClose returns, unless a thread of the closed connection had passed the check of
\* closing and waits for server_mtx.
JoinReturns ==
    \A c \in Conn : server_mtx = c /\ pc[c] # "deliver" ~> server_mtx # c

\* CHANGELOG.md:471 has the deadlock of image conversions fixed.  It is not: with a
\* thread at that point the server never leaves onClose.
OnCloseReturns == \A c \in Conn : server_mtx = c ~> server_mtx # c

----------------------------------------------------------------------------
(* The inductive strengthening of the safety properties.                   *)

Looking == {"check", "asleep", "convert", "deliver"}

\* A thread belongs to an initialised member that has requested the image, and
\* looks only at MemberData of the source; one that has not looked yet would find
\* everything changed.
ThreadsFounded ==
    \A r \in Conn :
       /\ pc[r] # "none" => /\ sync_init[r] /\ member_id[r] # 0
                            /\ image_req_changed[r] > 0
       /\ \A c \in looked[r] : /\ sync_init[c] /\ member_id[c] # 0
                               /\ name[c] = Source
       /\ pc[r] \in Looking \/ looked[r] # {} => cd[r] \in looked[r]
       /\ looked[r] = {} => last_image_flag[r] = -1

\* The flags and results lag behind what they were taken from, never ahead, and a
\* result on its way is not older than the one before.
NeverAhead ==
    \A r \in Conn :
       /\ last_req_flag[r] <= image_req_changed[r]
       /\ received[r].req <= image_req_changed[r]
       /\ received[r].conn # NoConn =>
             received[r].image <= image_changed[received[r].conn]
       /\ looked[r] = {cd[r]} => last_image_flag[r] <= image_changed[cd[r]]
       /\ pc[r] = "convert" =>
             /\ last_image_flag[r] <= image_changed[cd[r]]
             /\ received[r].conn = cd[r] => received[r].image <= last_image_flag[r]
       /\ pc[r] = "deliver" =>
             /\ img_send[r].conn = cd[r]
             /\ img_send[r].image = last_image_flag[r]
             /\ img_send[r].image <= image_changed[cd[r]]
             /\ img_send[r].req <= image_req_changed[r]
             /\ last_req_flag[r] <= img_send[r].req
             /\ received[r].req <= img_send[r].req
             /\ received[r].conn = cd[r] => received[r].image <= img_send[r].image

\* What the flags say has been seen has also been sent, is being sent, or cannot be.
SeenIsSent ==
    \A r \in Conn :
       looked[r] = {cd[r]} /\ ~HasNews(r) /\ ~isClosing(r) /\ ~isClosing(cd[r]) =>
          /\ pc[r] \in {"find", "check", "asleep"} => UpToDate(r)
          /\ pc[r] = "convert" => img[r] = image[cd[r]]

ImageInv == /\ ImageTypeOK
            /\ StoreInv
            /\ ThreadsFounded
            /\ NeverAhead
            /\ NoLostWakeup
            /\ SeenIsSent
============================================================================
