--------------------------- MODULE Threads_proofs ---------------------------
(***************************************************************************)
(* Proofs about the threads that wait for each other: the image conversion *)
(* threads of the server, the promises of a client, the threads that start *)
(* and stop the server, and the ws thread of a client with the application *)
(* thread that calls sync().                                               *)
(***************************************************************************)
EXTENDS ImageConvert, Promises, Server, ClientSync, ServerStore_proofs, SequenceTheorems

----------------------------------------------------------------------------
(* Image conversion.                                                       *)

LEMMA InitImageInv == ImageInit => ImageInv
<1> SUFFICES ASSUME ImageInit PROVE ImageInv
  OBVIOUS
<1> USE DEF ImageInit
<1>1. StoreInv
  BY InitStoreInv
<1>2. ImageTypeOK
  BY <1>1, ImageAssumption DEF StoreInv, ImageTypeOK, Result, NoResult, NoImage,
     NoReq
<1>3. ThreadsFounded /\ NoLostWakeup
  BY DEF ThreadsFounded, NoLostWakeup, Looking
<1>4. NeverAhead
  BY DEF NeverAhead, NoResult
<1>5. SeenIsSent
  BY DEF SeenIsSent
<1>. QED  BY <1>1, <1>2, <1>3, <1>4, <1>5 DEF ImageInv

\* The registry part of a step.
LEMMA ImageStoreStep == [ImageNext]_imageVars => [StoreNext]_storeVars
<1> SUFFICES ASSUME [ImageNext]_imageVars PROVE [StoreNext]_storeVars
  OBVIOUS
<1>1. CASE UNCHANGED imageVars
  BY <1>1 DEF imageVars
<1>2. ASSUME NEW c \in Conn, newConnection(c) PROVE StoreNext
  BY <1>2 DEF newConnection, StoreNext
<1>3. ASSUME NEW c \in Conn, NEW n \in MName, NEW id \in AssignableId(c, n),
             syncInit(c, n, id)
      PROVE  StoreNext
  BY <1>3 DEF syncInit, StoreNext
<1>4. ASSUME NEW c \in Conn, onClose(c) PROVE StoreNext
  BY <1>4 DEF onClose, StoreNext
<1>5. ASSUME NEW c \in Conn, NEW v \in Image, recvImage(c, v) PROVE UNCHANGED storeVars
  BY <1>5 DEF recvImage
<1>6. ASSUME NEW c \in Conn, NEW info \in ImageReq, recvReq(c, info)
      PROVE  UNCHANGED storeVars
  BY <1>6 DEF recvReq
<1>7. ASSUME NEW c \in Conn, joined(c) \/ find(c) \/ wait(c) \/ convert(c) \/ deliver(c)
      PROVE  UNCHANGED storeVars
  BY <1>7 DEF joined, find, wait, convert, deliver
<1>. QED
  BY <1>1, <1>2, <1>3, <1>4, <1>5, <1>6, <1>7 DEF ImageNext

\* What a step of the registry keeps: an initialised member keeps its name, and a
\* closed connection stays closed.
LEMMA StoreKeeps ==
    ASSUME StoreInv, [StoreNext]_storeVars, NEW c \in Conn
    PROVE  /\ sync_init[c] => sync_init'[c] /\ name'[c] = name[c]
           /\ member_id[c] # 0 => member_id'[c] # 0
           /\ isClosing(c) => isClosing(c)'
<1> USE DEF StoreInv, StoreTypeOK, IdsBelowLast, isClosing
<1>1. CASE UNCHANGED storeVars
  BY <1>1 DEF storeVars
<1>2. CASE \E d \in Conn : newClient(d)
  BY <1>2 DEF newClient, MemberData
<1>3. CASE \E d \in Conn : \E n \in MName : \E id \in AssignableId(d, n) :
              registerClient(d, n, id)
  <2> PICK d \in Conn, n \in MName : \E id \in AssignableId(d, n) : registerClient(d, n, id)
    BY <1>3
  <2> PICK id \in AssignableId(d, n) : registerClient(d, n, id)
    OBVIOUS
  <2>1. id # 0
    BY DEF AssignableId, SameName, registerClient, EntryUnderOwnId, Filed
  <2>. QED  BY <2>1 DEF registerClient
<1>4. CASE \E d \in Conn : removeClient(d)
  BY <1>4 DEF removeClient
<1>. QED  BY <1>1, <1>2, <1>3, <1>4 DEF StoreNext

\* What findAndDo gives to a thread is an initialised member of the source.
LEMMA EntryKnown ==
    ASSUME StoreInv, NEW d \in Entries
    PROVE  d \in Conn /\ sync_init[d] /\ member_id[d] # 0 /\ name[d] = Source
BY DEF Entries, SameName, StoreInv, StoreTypeOK, Filed, IdsBelowLast

LEMMA newConnectionInv ==
    ASSUME ImageInv, NEW c \in Conn, newConnection(c)
    PROVE  ImageInv'
<1> USE DEF ImageInv, storeVars, sourceVars, reqVars, threadVars
<1>0. [ImageNext]_imageVars
  BY DEF ImageNext
<1>1. StoreInv'
  BY <1>0, ImageStoreStep, NextStoreInv
<1>2. ImageTypeOK'
  BY <1>1, ImageAssumption DEF ImageTypeOK, StoreInv, newConnection, newClient,
     MemberData
<1>3. ThreadsFounded'
  BY <1>0, ImageStoreStep, StoreKeeps DEF ThreadsFounded, ImageTypeOK,
     newConnection, newClient, MemberData, Looking
<1>4. NeverAhead'
  BY ImageAssumption DEF NeverAhead, ThreadsFounded, ImageTypeOK, newConnection,
     newClient, MemberData, Looking, Result
<1>5. NoLostWakeup'
  BY <1>0, ImageStoreStep, StoreKeeps DEF NoLostWakeup, ThreadsFounded,
     ImageTypeOK, newConnection, newClient, MemberData, HasNews, isClosing, Looking
<1>6. SeenIsSent'
  BY <1>0, ImageStoreStep, StoreKeeps DEF SeenIsSent, NeverAhead, ThreadsFounded,
     ImageTypeOK, newConnection, newClient, MemberData, HasNews, UpToDate,
     isClosing, Looking
<1>. QED  BY <1>1, <1>2, <1>3, <1>4, <1>5, <1>6

LEMMA syncInitInv ==
    ASSUME ImageInv, NEW c \in Conn, NEW n \in MName, NEW id \in AssignableId(c, n), syncInit(c, n, id)
    PROVE  ImageInv'
<1> USE DEF ImageInv, storeVars, sourceVars, reqVars, threadVars
<1>0. [ImageNext]_imageVars
  BY DEF ImageNext
<1>1. StoreInv'
  BY <1>0, ImageStoreStep, NextStoreInv
<1>2. ImageTypeOK'
  BY <1>1, ImageAssumption DEF ImageTypeOK, StoreInv, syncInit, registerClient
<1>3. ThreadsFounded'
  BY <1>0, ImageStoreStep, StoreKeeps DEF ThreadsFounded, ImageTypeOK, syncInit,
     registerClient, Looking
<1>4. NeverAhead'
  BY ImageAssumption DEF NeverAhead, ThreadsFounded, ImageTypeOK, syncInit,
     registerClient, Looking, Result
<1>5. NoLostWakeup'
  BY <1>0, ImageStoreStep, StoreKeeps DEF NoLostWakeup, ThreadsFounded,
     ImageTypeOK, syncInit, registerClient, HasNews, isClosing, Looking
<1>6. SeenIsSent'
  BY <1>0, ImageStoreStep, StoreKeeps DEF SeenIsSent, NeverAhead, ThreadsFounded,
     ImageTypeOK, syncInit, registerClient, HasNews, UpToDate, isClosing, Looking
<1>. QED  BY <1>1, <1>2, <1>3, <1>4, <1>5, <1>6

LEMMA onCloseInv ==
    ASSUME ImageInv, NEW c \in Conn, onClose(c)
    PROVE  ImageInv'
<1> USE DEF ImageInv, storeVars, sourceVars, reqVars, threadVars
<1>0. [ImageNext]_imageVars
  BY DEF ImageNext
<1>1. StoreInv'
  BY <1>0, ImageStoreStep, NextStoreInv
<1>2. ImageTypeOK'
  BY <1>1, ImageAssumption DEF ImageTypeOK, StoreInv, onClose, removeClient, Notify
<1>3. ThreadsFounded'
  BY <1>0, ImageStoreStep, StoreKeeps DEF ThreadsFounded, ImageTypeOK, onClose,
     removeClient, Notify, Looking
<1>4. NeverAhead'
  BY ImageAssumption DEF NeverAhead, ThreadsFounded, ImageTypeOK, onClose,
     removeClient, Notify, Looking, Result
<1>5. NoLostWakeup'
  BY <1>0, ImageStoreStep, StoreKeeps DEF NoLostWakeup, ThreadsFounded,
     ImageTypeOK, onClose, removeClient, Notify, HasNews, isClosing, Requesters,
     ForEach, Looking
<1>6. SeenIsSent'
  BY <1>0, ImageStoreStep, StoreKeeps DEF SeenIsSent, NeverAhead, ThreadsFounded,
     ImageTypeOK, onClose, removeClient, Notify, HasNews, UpToDate, isClosing,
     Looking
<1>. QED  BY <1>1, <1>2, <1>3, <1>4, <1>5, <1>6

LEMMA recvImageInv ==
    ASSUME ImageInv, NEW c \in Conn, NEW v \in Image, recvImage(c, v)
    PROVE  ImageInv'
<1> USE DEF ImageInv, storeVars, sourceVars, reqVars, threadVars
<1>0. [ImageNext]_imageVars
  BY DEF ImageNext
<1>1. StoreInv'
  BY <1>0, ImageStoreStep, NextStoreInv
<1>2. ImageTypeOK'
  BY <1>1, ImageAssumption DEF ImageTypeOK, StoreInv, recvImage, Notify
<1>3. ThreadsFounded'
  BY DEF ThreadsFounded, ImageTypeOK, recvImage, Notify, Looking
<1>4. NeverAhead'
  BY ImageAssumption DEF NeverAhead, ThreadsFounded, ImageTypeOK, recvImage,
     Notify, Looking, Result
<1>5. NoLostWakeup'
  BY DEF NoLostWakeup, ThreadsFounded, ImageTypeOK, recvImage, Notify, HasNews,
     isClosing, Requesters, ForEach, Looking
<1>6. SeenIsSent'
  BY DEF SeenIsSent, NeverAhead, ThreadsFounded, ImageTypeOK, recvImage, Notify,
     HasNews, UpToDate, isClosing, Looking
<1>. QED  BY <1>1, <1>2, <1>3, <1>4, <1>5, <1>6

LEMMA recvReqInv ==
    ASSUME ImageInv, NEW c \in Conn, NEW info \in ImageReq, recvReq(c, info)
    PROVE  ImageInv'
<1> USE DEF ImageInv, storeVars, sourceVars, reqVars, threadVars
<1>0. [ImageNext]_imageVars
  BY DEF ImageNext
<1>1. StoreInv'
  BY <1>0, ImageStoreStep, NextStoreInv
<1>2. ImageTypeOK'
  BY <1>1, ImageAssumption DEF ImageTypeOK, StoreInv, recvReq, Notify
<1>3. ThreadsFounded'
  <2>1. \A r \in Conn : /\ pc'[r] # "none" => pc[r] # "none" \/ r = c
                        /\ pc'[r] \in Looking <=> pc[r] \in Looking
    <3>1. CASE pc[c] = "none"
      BY <3>1 DEF recvReq, ImageTypeOK, Looking
    <3>2. CASE pc[c] # "none"
      <4>1. pc' = Notify({c})
        BY <3>2 DEF recvReq
      <4>. QED  BY <4>1 DEF Notify, Looking
    <3>. QED  BY <3>1, <3>2
  <2>2. sync_init[c] /\ member_id[c] # 0
    BY DEF recvReq, ForEach, StoreInv, IdsBelowLast
  <2>3. \A r \in Conn : /\ image_req_changed[r] > 0 => image_req_changed'[r] > 0
                        /\ image_req_changed'[c] > 0
    BY DEF recvReq, ImageTypeOK
  <2>. QED  BY <2>1, <2>2, <2>3 DEF ThreadsFounded, recvReq
<1>4. NeverAhead'
  <2>1. \A r \in Conn : pc'[r] \in {"convert", "deliver"} => pc[r] = pc'[r]
    <3>1. CASE pc[c] = "none"
      BY <3>1 DEF recvReq, ImageTypeOK
    <3>2. CASE pc[c] # "none"
      <4>1. pc' = Notify({c})
        BY <3>2 DEF recvReq
      <4>. QED  BY <4>1 DEF Notify
    <3>. QED  BY <3>1, <3>2
  <2>2. \A r \in Conn : /\ image_req_changed[r] <= image_req_changed'[r]
                        /\ image_req_changed[r] \in Nat /\ image_req_changed'[r] \in Nat
    BY DEF recvReq, ImageTypeOK
  <2>3. UNCHANGED <<cd, last_image_flag, last_req_flag, img_send, received, looked,
                    image_changed>>
    BY DEF recvReq
  <2>4. \A r \in Conn : /\ received[r].req \in Nat /\ img_send[r].req \in Nat
                        /\ last_req_flag[r] \in Int
    BY DEF ImageTypeOK, Result
  <2>. QED  BY <2>1, <2>2, <2>3, <2>4 DEF NeverAhead
<1>5. NoLostWakeup'
  <2> SUFFICES ASSUME NEW r \in Conn, pc'[r] = "asleep"
               PROVE  (~HasNews(r) /\ ~isClosing(r) /\ ~isClosing(cd[r]))'
    BY DEF NoLostWakeup
  <2>1. r # c /\ pc[r] = "asleep"
    BY DEF recvReq, Notify, ImageTypeOK
  <2>. QED  BY <2>1 DEF recvReq, NoLostWakeup, HasNews, isClosing, ImageTypeOK
<1>6. SeenIsSent'
  BY DEF SeenIsSent, NeverAhead, ThreadsFounded, ImageTypeOK, recvReq, Notify,
     HasNews, UpToDate, isClosing, Looking
<1>. QED  BY <1>1, <1>2, <1>3, <1>4, <1>5, <1>6

LEMMA joinedInv ==
    ASSUME ImageInv, NEW c \in Conn, joined(c)
    PROVE  ImageInv'
<1> USE DEF ImageInv, storeVars, sourceVars, reqVars, threadVars
<1>0. [ImageNext]_imageVars
  BY DEF ImageNext
<1>1. StoreInv'
  BY <1>0, ImageStoreStep, NextStoreInv
<1>2. ImageTypeOK'
  BY <1>1, ImageAssumption DEF ImageTypeOK, StoreInv, joined
<1>3. ThreadsFounded'
  BY DEF ThreadsFounded, ImageTypeOK, joined, Looking
<1>4. NeverAhead'
  BY ImageAssumption DEF NeverAhead, ThreadsFounded, ImageTypeOK, joined, Looking,
     Result
<1>5. NoLostWakeup'
  BY DEF NoLostWakeup, ThreadsFounded, ImageTypeOK, joined, HasNews, isClosing,
     Looking
<1>6. SeenIsSent'
  BY DEF SeenIsSent, NeverAhead, ThreadsFounded, ImageTypeOK, joined, HasNews,
     UpToDate, isClosing, Looking
<1>. QED  BY <1>1, <1>2, <1>3, <1>4, <1>5, <1>6

LEMMA findInv ==
    ASSUME ImageInv, NEW c \in Conn, find(c)
    PROVE  ImageInv'
<1> USE DEF ImageInv, storeVars, sourceVars, reqVars, threadVars
<1>0. [ImageNext]_imageVars
  BY DEF ImageNext
<1>1. StoreInv'
  BY <1>0, ImageStoreStep, NextStoreInv
<1>2. ImageTypeOK'
  <2>1. CASE isClosing(c)
    BY <1>1, <2>1 DEF ImageTypeOK, StoreInv, find
  <2>2. ASSUME NEW d \in Entries, cd' = [cd EXCEPT ![c] = d], pc' = [pc EXCEPT ![c] = "check"],
               looked' = [looked EXCEPT ![c] = @ \cup {d}]
        PROVE  ImageTypeOK'
    BY <1>1, <2>2, EntryKnown DEF ImageTypeOK, StoreInv, find
  <2>. QED  BY <2>1, <2>2 DEF find
<1>3. ThreadsFounded'
  BY EntryKnown DEF ThreadsFounded, ImageTypeOK, find, Looking
<1>4. NeverAhead'
  <2> SUFFICES ASSUME NEW r \in Conn, looked'[r] = {cd'[r]}
               PROVE  last_image_flag[r] <= image_changed[cd'[r]]
    BY DEF NeverAhead, ImageTypeOK, find
  <2>1. CASE cd'[r] = cd[r] /\ looked'[r] = looked[r]
    BY <2>1 DEF NeverAhead
  <2>2. CASE looked[r] = {}
    BY <2>2, EntryKnown DEF ThreadsFounded, ImageTypeOK, find
  <2>. QED  BY <2>1, <2>2 DEF ThreadsFounded, ImageTypeOK, find
<1>5. NoLostWakeup'
  BY DEF NoLostWakeup, ThreadsFounded, ImageTypeOK, find, HasNews, isClosing, Looking
<1>6. SeenIsSent'
  BY EntryKnown DEF SeenIsSent, NeverAhead, ThreadsFounded, ImageTypeOK, find,
     HasNews, UpToDate, isClosing, Looking
<1>. QED  BY <1>1, <1>2, <1>3, <1>4, <1>5, <1>6

LEMMA waitInv ==
    ASSUME ImageInv, NEW c \in Conn, wait(c)
    PROVE  ImageInv'
<1> USE DEF ImageInv, storeVars, sourceVars, reqVars, threadVars
<1>0. [ImageNext]_imageVars
  BY DEF ImageNext
<1>1. StoreInv'
  BY <1>0, ImageStoreStep, NextStoreInv
<1>2. ImageTypeOK'
  BY <1>1, ImageAssumption DEF ImageTypeOK, StoreInv, wait
<1>3. ThreadsFounded'
  BY DEF ThreadsFounded, ImageTypeOK, wait, Looking
<1>4. NeverAhead'
  BY ImageAssumption DEF NeverAhead, ThreadsFounded, ImageTypeOK, wait, Looking,
     Result
<1>5. NoLostWakeup'
  BY DEF NoLostWakeup, ThreadsFounded, ImageTypeOK, wait, HasNews, isClosing, Looking
<1>6. SeenIsSent'
  BY SMTT(30) DEF SeenIsSent, NeverAhead, ThreadsFounded, ImageTypeOK, wait, HasNews,
     UpToDate, isClosing, Looking
<1>. QED  BY <1>1, <1>2, <1>3, <1>4, <1>5, <1>6

LEMMA convertInv ==
    ASSUME ImageInv, NEW c \in Conn, convert(c)
    PROVE  ImageInv'
<1> USE DEF ImageInv, storeVars, sourceVars, reqVars, threadVars
<1>0. [ImageNext]_imageVars
  BY DEF ImageNext
<1>1. StoreInv'
  BY <1>0, ImageStoreStep, NextStoreInv
<1>2. ImageTypeOK'
  <2>1. [conn |-> cd[c], image |-> last_image_flag[c], req |-> image_req_changed[c]]
           \in Result
    BY DEF ImageTypeOK, convert, Result
  <2>2. img_send' \in [Conn -> Result]
    BY <2>1 DEF ImageTypeOK, convert
  <2>3. pc' \in [Conn -> {"none", "find", "check", "asleep", "convert", "deliver", "ended"}]
    BY DEF ImageTypeOK, convert
  <2>. QED  BY <1>1, <2>2, <2>3 DEF ImageTypeOK, StoreInv, convert
<1>3. ThreadsFounded'
  BY DEF ThreadsFounded, ImageTypeOK, convert, Looking
<1>4. NeverAhead'
  BY ImageAssumption DEF NeverAhead, ThreadsFounded, ImageTypeOK, convert,
     Looking, Result
<1>5. NoLostWakeup'
  BY DEF NoLostWakeup, ThreadsFounded, ImageTypeOK, convert, HasNews, isClosing,
     Looking
<1>6. SeenIsSent'
  BY DEF SeenIsSent, NeverAhead, ThreadsFounded, ImageTypeOK, convert, HasNews,
     UpToDate, isClosing, Looking
<1>. QED  BY <1>1, <1>2, <1>3, <1>4, <1>5, <1>6

LEMMA deliverInv ==
    ASSUME ImageInv, NEW c \in Conn, deliver(c)
    PROVE  ImageInv'
<1> USE DEF ImageInv, storeVars, sourceVars, reqVars, threadVars
<1>0. [ImageNext]_imageVars
  BY DEF ImageNext
<1>1. StoreInv'
  BY <1>0, ImageStoreStep, NextStoreInv
<1>2. ImageTypeOK'
  BY <1>1, ImageAssumption DEF ImageTypeOK, StoreInv, deliver
<1>3. ThreadsFounded'
  BY DEF ThreadsFounded, ImageTypeOK, deliver, Looking
<1>4. NeverAhead'
  BY ImageAssumption DEF NeverAhead, ThreadsFounded, ImageTypeOK, deliver,
     Looking, Result
<1>5. NoLostWakeup'
  BY DEF NoLostWakeup, ThreadsFounded, ImageTypeOK, deliver, HasNews, isClosing,
     Looking
<1>6. SeenIsSent'
  <2> SUFFICES ASSUME NEW r \in Conn, looked[r] = {cd[r]}, ~HasNews(r), ~isClosing(r),
                      ~isClosing(cd[r]), pc'[r] \in {"find", "check", "asleep", "convert"}
               PROVE  /\ pc'[r] \in {"find", "check", "asleep"} => UpToDate(r)'
                      /\ pc'[r] = "convert" => img[r] = image[cd[r]]
    BY DEF SeenIsSent, deliver, HasNews, isClosing
  <2>1. CASE r # c
    BY <2>1 DEF SeenIsSent, deliver, ImageTypeOK, UpToDate
  <2>2. CASE r = c
    <3>1. r \in clients
      BY <2>2 DEF isClosing, ThreadsFounded, deliver
    <3>2. img_send[r].req = image_req_changed[r] /\ img_send[r].image = image_changed[cd[r]]
      <4>1. image_req_changed[r] \in Nat /\ img_send[r].req \in Nat
        BY DEF ImageTypeOK, Result
      <4>2. /\ image_changed[cd[r]] = last_image_flag[r]
            /\ image_req_changed[r] = last_req_flag[r]
        BY DEF HasNews
      <4>. QED  BY <2>2, <4>1, <4>2 DEF NeverAhead, deliver
    <3>3. img_send[r] = [conn |-> cd[r], image |-> image_changed[cd[r]],
                         req |-> image_req_changed[r]]
      <4>1. img_send[r] \in Result /\ img_send[r].conn = cd[r]
        BY <2>2 DEF NeverAhead, deliver, ImageTypeOK
      <4>. QED  BY <3>2, <4>1 DEF Result
    <3>. QED  BY <2>2, <3>1, <3>3 DEF UpToDate, deliver, ImageTypeOK
  <2>. QED  BY <2>1, <2>2
<1>. QED  BY <1>1, <1>2, <1>3, <1>4, <1>5, <1>6

LEMMA NextImageInv == ImageInv /\ [ImageNext]_imageVars => ImageInv'
<1> SUFFICES ASSUME ImageInv, [ImageNext]_imageVars PROVE ImageInv'
  OBVIOUS
<1>1. CASE UNCHANGED imageVars
  <2> USE <1>1 DEF ImageInv, imageVars, storeVars, sourceVars, reqVars, threadVars
  <2>1. StoreInv'
    BY NextStoreInv
  <2>2. ImageTypeOK'
    BY <2>1 DEF ImageTypeOK, StoreInv
  <2>3. (ThreadsFounded /\ NeverAhead /\ NoLostWakeup /\ SeenIsSent)'
    BY DEF ThreadsFounded, NeverAhead, NoLostWakeup, SeenIsSent, HasNews, UpToDate,
       isClosing, Looking
  <2>. QED  BY <2>1, <2>2, <2>3
<1>. QED
  BY <1>1, newConnectionInv, syncInitInv, recvImageInv, recvReqInv, onCloseInv,
     joinedInv, findInv, waitInv, convertInv, deliverInv DEF ImageNext

\* Types are kept (ImageTypeOK), and with them the whole inductive invariant.
THEOREM ImagesConsistent == ImageSpec => []ImageInv
BY InitImageInv, NextImageInv, PTL DEF ImageSpec

THEOREM ImageTypesOK == ImageSpec => []ImageTypeOK
<1>1. ImageInv => ImageTypeOK
  BY DEF ImageInv
<1>. QED  BY <1>1, ImagesConsistent, PTL

\* No wake-up of a conversion thread is lost, with any number of members, images and
\* requests (NoLostWakeup).
THEOREM WakeupsArrive == ImageSpec => []NoLostWakeup
<1>1. ImageInv => NoLostWakeup
  BY DEF ImageInv
<1>. QED  BY <1>1, ImagesConsistent, PTL

\* What a requester has been sent is current when its thread sleeps (Current).
THEOREM SleepersCurrent == ImageSpec => []Current
<1>1. ImageInv => Current
  BY DEF ImageInv, Current, SeenIsSent, NoLostWakeup
<1>. QED  BY <1>1, ImagesConsistent, PTL

\* Images and requests are never answered backwards (InOrder).
THEOREM ResultsInOrder == ImageSpec => InOrder
<1> DEFINE Ordered == \A r \in Conn : received'[r].conn = received[r].conn
                         => /\ received'[r].image >= received[r].image
                            /\ received'[r].req >= received[r].req
<1>1. ASSUME ImageInv, [ImageNext]_imageVars PROVE [Ordered]_imageVars
  <2>0. \A r \in Conn : /\ received[r].image \in Int /\ received[r].req \in Nat
                        /\ img_send[r].image \in Int /\ img_send[r].req \in Nat
    BY <1>1 DEF ImageInv, ImageTypeOK, Result
  <2>1. CASE received' = received
    BY <2>0, <2>1
  <2>2. ASSUME NEW c \in Conn, deliver(c) PROVE Ordered
    <3>1. CASE received' = received
      BY <2>0, <3>1
    <3>2. CASE received' = [received EXCEPT ![c] = img_send[c]]
      BY <1>1, <2>0, <2>2, <3>2 DEF ImageInv, NeverAhead, ImageTypeOK, deliver
    <3>. QED  BY <2>2, <3>1, <3>2 DEF deliver
  <2>3. UNCHANGED received \/ \E c \in Conn : deliver(c)
    BY <1>1 DEF ImageNext, imageVars, threadVars, newConnection, syncInit,
       recvImage,
       recvReq, onClose, joined, find, wait, convert
  <2>. QED  BY <2>1, <2>2, <2>3
<1>2. ImageInv /\ [ImageNext]_imageVars => [Ordered]_imageVars
  BY <1>1
<1>. QED  BY <1>2, ImagesConsistent, PTL DEF ImageSpec, InOrder

\* The server with its conversion threads implements the registry (StoreSpec).
THEOREM ImagesImplementStore == ImageSpec => StoreSpec
<1>1. ImageInit => StoreInit
  BY DEF ImageInit
<1>. QED  BY <1>1, ImageStoreStep, PTL DEF ImageSpec, StoreSpec

----------------------------------------------------------------------------
(* Promises, for any threads, callbacks and answers.                       *)

\* What a thread that is in reach() or is about to answer knows: the runner is the
\* only one in reach(), which has not ended; a thread that is about to answer has the
\* handle, and is the only one unless the call is raced.
PlacesOK ==
    /\ \A t \in Thread : doing[t] \in {"reaching", "failing"} =>
          t = Runner /\ reached /\ ~handed /\ ~finished
    /\ doing[Runner] = "reaching" => found
    /\ doing[Runner] = "failing" => ~found
    /\ \A t \in Thread : doing[t] = "answering" => handed /\ (finished => raced)
    /\ \A s, t \in Thread : doing[s] = "answering" /\ doing[t] = "answering" /\ s # t => raced
    /\ finished => reached /\ (found => handed)
    /\ handed => doing[Runner] # "reaching"

PromiseInv == PromiseTypeOK /\ EventsDelivered /\ NoLostWaiter /\ PlacesOK

LEMMA InitInv == PromiseInit => PromiseInv
<1> USE PromiseAssumption
<1>1. PromiseInit => PromiseTypeOK /\ EventsDelivered
  BY DEF PromiseInit, PromiseTypeOK, EventsDelivered, Places, Waits, WaitsReach, WaitsFinish
<1>2. PromiseInit => NoLostWaiter /\ PlacesOK
  BY DEF PromiseInit, NoLostWaiter, PlacesOK, Waits, WaitsReach, WaitsFinish
<1> QED BY <1>1, <1>2 DEF PromiseInv

\* Every step keeps the types.
LEMMA StepTypes ==
    ASSUME PromiseInv, PromiseNext
    PROVE  PromiseTypeOK'
<1> USE PromiseAssumption DEF PromiseInv, PromiseTypeOK, Places, Waits, WaitsReach, WaitsFinish, InReach, InFinish,
    callVars, eventVars, PlacesOK
<1>1. ASSUME NEW t \in Thread, reachFound(t)
      PROVE  PromiseTypeOK'
  <2>1. doing' \in [Thread -> Places] /\ reach_event_done' \in BOOLEAN
    BY <1>1 DEF reachFound, callReachEvent, Done, Go
  <2>2. \A s \in Thread : doing'[s] = IF s = t THEN doing'[t] ELSE doing[s]
    BY <1>1 DEF reachFound, callReachEvent, Done, Go
  <2>3. awake' \subseteq {s \in Thread : doing'[s] \in Waits}
    BY <1>1, <2>2 DEF reachFound, callReachEvent, Done, Go, notify_all
  <2>4. handed' \in BOOLEAN
    BY <1>1, <2>1 DEF reachFound
  <2>5. ~finished' /\ found' /\ reached' /\ result' = NoAnswer
    BY <1>1 DEF reachFound
  <2>6. {reach_event, finish_event}' \subseteq Callback \cup {NoCallback}
        /\ UNCHANGED <<raced, thrown, finish_event_done, Runner>>
    BY <1>1 DEF reachFound
  <2>7. {reached, found, finished, reach_event_done, finish_event_done, handed, raced,
         thrown}' \subseteq BOOLEAN
    BY <2>1, <2>4, <2>5, <2>6, <1>1 DEF reachFound
  <2>8. \A s \in Thread : doing'[s] \in {"reaching", "failing"} => s = Runner
    BY <1>1, <2>2 DEF reachFound
  <2> QED BY <2>1, <2>3, <2>4, <2>5, <2>6, <2>7, <2>8
<1>2. ASSUME NEW t \in Thread, reachNotFound(t)
      PROVE  PromiseTypeOK'
  <2>1. ASSUME callReachEvent(t, "failing", FALSE),
               UNCHANGED <<finished, result, finish_event, finish_event_done>>
        PROVE  PromiseTypeOK'
    BY <1>2, <2>1 DEF reachNotFound, callReachEvent, Go
  <2>2. ASSUME Fails(t), UNCHANGED reach_event_done
        PROVE  PromiseTypeOK'
    <3>0. callFinishEvent(t, "finishing", Done(t))  BY <2>2 DEF Fails
    <3>1. \/ doing' = [doing EXCEPT ![t] = "finishing"] /\ awake' = awake
          \/ doing' = [doing EXCEPT ![t] = "idle"] /\ notify_all
      BY <3>0 DEF callFinishEvent, Done, Go
    <3>2. /\ doing' \in [Thread -> Places] /\ awake' \subseteq {s \in Thread : doing'[s] \in Waits}
          /\ \A s \in Thread : doing'[s] \in {"reaching", "failing"} => s = Runner
      <4>1. CASE doing' = [doing EXCEPT ![t] = "finishing"] /\ awake' = awake
        BY <1>2, <4>1 DEF reachNotFound
      <4>2. CASE doing' = [doing EXCEPT ![t] = "idle"] /\ notify_all
        BY <1>2, <4>2 DEF reachNotFound, notify_all
      <4> QED BY <3>1, <4>1, <4>2
    <3>3. finish_event_done' \in BOOLEAN
      BY <2>2 DEF Fails, callFinishEvent
    <3> QED BY <1>2, <2>2, <3>2, <3>3 DEF reachNotFound, Fails
  <2> QED BY <1>2, <2>1, <2>2 DEF reachNotFound
<1>3. ASSUME NEW t \in Thread, respondable(t)
      PROVE  PromiseTypeOK'
  BY <1>3 DEF respondable, Go
<1>4. ASSUME NEW t \in Thread, NEW v \in Answers, respond(t, v)
      PROVE  PromiseTypeOK'
  BY <1>4 DEF respond, callFinishEvent, Done, Go, notify_all
<1>5. ASSUME NEW t \in Thread, NEW f \in Callback, onReach(t, f)
      PROVE  PromiseTypeOK'
  BY <1>5 DEF onReach, callReachEvent, Stay, Go
<1>6. ASSUME NEW t \in Thread, NEW f \in Callback, onFinish(t, f)
      PROVE  PromiseTypeOK'
  BY <1>6 DEF onFinish, callFinishEvent, Stay, Go
<1>7. ASSUME NEW t \in Thread, reachReturns(t)
      PROVE  PromiseTypeOK'
  BY <1>7 DEF reachReturns, Done, Go, notify_all
<1>8. ASSUME NEW t \in Thread, failReturns(t)
      PROVE  PromiseTypeOK'
  BY <1>8 DEF failReturns, Fails, callFinishEvent, Done, Go, notify_all
<1>9. ASSUME NEW t \in Thread, finishReturns(t)
      PROVE  PromiseTypeOK'
  BY <1>9 DEF finishReturns, Done, Go, notify_all
<1>10. ASSUME NEW t \in Thread, onReturns(t)
      PROVE  PromiseTypeOK'
  BY <1>10 DEF onReturns, Go
<1>11. ASSUME NEW t \in Thread, Throw(t)
      PROVE  PromiseTypeOK'
  BY <1>11 DEF Throw, Go
<1>12. ASSUME NEW t \in Thread, NEW w \in Waits, startWait(t, w)
      PROVE  PromiseTypeOK'
  BY <1>12 DEF startWait, Go
<1>13. ASSUME NEW t \in Thread, Wake(t)
      PROVE  PromiseTypeOK'
  BY <1>13 DEF Wake, Look, Met, Go
<1>14. ASSUME NEW t \in Thread, Spurious(t)
      PROVE  PromiseTypeOK'
  BY <1>14 DEF Spurious, Look, Met, Go
<1>15. ASSUME NEW t \in Thread, TimeOut(t)
      PROVE  PromiseTypeOK'
  BY <1>15 DEF TimeOut, Go
<1> QED BY <1>1, <1>2, <1>3, <1>4, <1>5, <1>6, <1>7, <1>8,
           <1>9, <1>10, <1>11, <1>12, <1>13, <1>14, <1>15 DEF PromiseNext, Returns

\* Every step keeps what the threads know.
LEMMA StepPlaces ==
    ASSUME PromiseInv, PromiseNext
    PROVE  PlacesOK'
<1> USE PromiseAssumption DEF PromiseInv, PromiseTypeOK, Places, Waits, WaitsReach, WaitsFinish, InReach, InFinish,
    callVars, eventVars, PlacesOK
<1>1. ASSUME NEW t \in Thread, reachFound(t)
      PROVE  PlacesOK'
  BY <1>1 DEF reachFound, callReachEvent, Done, Go, notify_all
<1>2. ASSUME NEW t \in Thread, reachNotFound(t)
      PROVE  PlacesOK'
  BY <1>2 DEF reachNotFound, callReachEvent, Fails, callFinishEvent, Done, Go, notify_all
<1>3. ASSUME NEW t \in Thread, respondable(t)
      PROVE  PlacesOK'
  BY <1>3 DEF respondable, Go
<1>4. ASSUME NEW t \in Thread, NEW v \in Answers, respond(t, v)
      PROVE  PlacesOK'
  BY <1>4 DEF respond, callFinishEvent, Done, Go, notify_all
<1>5. ASSUME NEW t \in Thread, NEW f \in Callback, onReach(t, f)
      PROVE  PlacesOK'
  BY <1>5 DEF onReach, callReachEvent, Stay, Go
<1>6. ASSUME NEW t \in Thread, NEW f \in Callback, onFinish(t, f)
      PROVE  PlacesOK'
  BY <1>6 DEF onFinish, callFinishEvent, Stay, Go
<1>7. ASSUME NEW t \in Thread, reachReturns(t)
      PROVE  PlacesOK'
  BY <1>7 DEF reachReturns, Done, Go, notify_all
<1>8. ASSUME NEW t \in Thread, failReturns(t)
      PROVE  PlacesOK'
  BY <1>8 DEF failReturns, Fails, callFinishEvent, Done, Go, notify_all
<1>9. ASSUME NEW t \in Thread, finishReturns(t)
      PROVE  PlacesOK'
  BY <1>9 DEF finishReturns, Done, Go, notify_all
<1>10. ASSUME NEW t \in Thread, onReturns(t)
      PROVE  PlacesOK'
  BY <1>10 DEF onReturns, Go
<1>11. ASSUME NEW t \in Thread, Throw(t)
      PROVE  PlacesOK'
  BY <1>11 DEF Throw, Go
<1>12. ASSUME NEW t \in Thread, NEW w \in Waits, startWait(t, w)
      PROVE  PlacesOK'
  BY <1>12 DEF startWait, Go
<1>13. ASSUME NEW t \in Thread, Wake(t)
      PROVE  PlacesOK'
  BY <1>13 DEF Wake, Look, Met, Go
<1>14. ASSUME NEW t \in Thread, Spurious(t)
      PROVE  PlacesOK'
  BY <1>14 DEF Spurious, Look, Met, Go
<1>15. ASSUME NEW t \in Thread, TimeOut(t)
      PROVE  PlacesOK'
  BY <1>15 DEF TimeOut, Go
<1> QED BY <1>1, <1>2, <1>3, <1>4, <1>5, <1>6, <1>7, <1>8,
           <1>9, <1>10, <1>11, <1>12, <1>13, <1>14, <1>15 DEF PromiseNext, Returns

\* Every step calls the callbacks that it has to.
LEMMA StepEvents ==
    ASSUME PromiseInv, PromiseNext
    PROVE  EventsDelivered'
<1> USE PromiseAssumption DEF PromiseInv, PromiseTypeOK, Places, Waits, WaitsReach, WaitsFinish, InReach, InFinish,
    callVars, eventVars, EventsDelivered
<1>1. ASSUME NEW t \in Thread, reachFound(t)
      PROVE  EventsDelivered'
  BY <1>1 DEF reachFound, callReachEvent, Done, Go, notify_all
<1>2. ASSUME NEW t \in Thread, reachNotFound(t)
      PROVE  EventsDelivered'
  BY <1>2 DEF reachNotFound, callReachEvent, Fails, callFinishEvent, Done, Go, notify_all
<1>3. ASSUME NEW t \in Thread, respondable(t)
      PROVE  EventsDelivered'
  BY <1>3 DEF respondable, Go
<1>4. ASSUME NEW t \in Thread, NEW v \in Answers, respond(t, v)
      PROVE  EventsDelivered'
  BY <1>4 DEF respond, callFinishEvent, Done, Go, notify_all
<1>5. ASSUME NEW t \in Thread, NEW f \in Callback, onReach(t, f)
      PROVE  EventsDelivered'
  BY <1>5 DEF onReach, callReachEvent, Stay, Go
<1>6. ASSUME NEW t \in Thread, NEW f \in Callback, onFinish(t, f)
      PROVE  EventsDelivered'
  BY <1>6 DEF onFinish, callFinishEvent, Stay, Go
<1>7. ASSUME NEW t \in Thread, reachReturns(t)
      PROVE  EventsDelivered'
  BY <1>7 DEF reachReturns, Done, Go, notify_all
<1>8. ASSUME NEW t \in Thread, failReturns(t)
      PROVE  EventsDelivered'
  BY <1>8 DEF failReturns, Fails, callFinishEvent, Done, Go, notify_all
<1>9. ASSUME NEW t \in Thread, finishReturns(t)
      PROVE  EventsDelivered'
  BY <1>9 DEF finishReturns, Done, Go, notify_all
<1>10. ASSUME NEW t \in Thread, onReturns(t)
      PROVE  EventsDelivered'
  BY <1>10 DEF onReturns, Go
<1>11. ASSUME NEW t \in Thread, Throw(t)
      PROVE  EventsDelivered'
  BY <1>11 DEF Throw, Go
<1>12. ASSUME NEW t \in Thread, NEW w \in Waits, startWait(t, w)
      PROVE  EventsDelivered'
  BY <1>12 DEF startWait, Go
<1>13. ASSUME NEW t \in Thread, Wake(t)
      PROVE  EventsDelivered'
  BY <1>13 DEF Wake, Look, Met, Go
<1>14. ASSUME NEW t \in Thread, Spurious(t)
      PROVE  EventsDelivered'
  BY <1>14 DEF Spurious, Look, Met, Go
<1>15. ASSUME NEW t \in Thread, TimeOut(t)
      PROVE  EventsDelivered'
  BY <1>15 DEF TimeOut, Go
<1> QED BY <1>1, <1>2, <1>3, <1>4, <1>5, <1>6, <1>7, <1>8,
           <1>9, <1>10, <1>11, <1>12, <1>13, <1>14, <1>15 DEF PromiseNext, Returns

\* Every step wakes those whose condition it has met, or is in a callback.
LEMMA StepWaiters ==
    ASSUME PromiseInv, PromiseNext
    PROVE  NoLostWaiter'
<1> USE PromiseAssumption DEF PromiseInv, PromiseTypeOK, Places, Waits, WaitsReach, WaitsFinish, InReach, InFinish,
    callVars, eventVars, PlacesOK, NoLostWaiter, Met
<1>1. ASSUME NEW t \in Thread, reachFound(t)
      PROVE  NoLostWaiter'
  BY <1>1 DEF reachFound, callReachEvent, Done, Go, notify_all
<1>2. ASSUME NEW t \in Thread, reachNotFound(t)
      PROVE  NoLostWaiter'
  BY <1>2 DEF reachNotFound, callReachEvent, Fails, callFinishEvent, Done, Go, notify_all
<1>3. ASSUME NEW t \in Thread, respondable(t)
      PROVE  NoLostWaiter'
  BY <1>3 DEF respondable, Go
<1>4. ASSUME NEW t \in Thread, NEW v \in Answers, respond(t, v)
      PROVE  NoLostWaiter'
  BY <1>4 DEF respond, callFinishEvent, Done, Go, notify_all
<1>5. ASSUME NEW t \in Thread, NEW f \in Callback, onReach(t, f)
      PROVE  NoLostWaiter'
  BY <1>5 DEF onReach, callReachEvent, Stay, Go
<1>6. ASSUME NEW t \in Thread, NEW f \in Callback, onFinish(t, f)
      PROVE  NoLostWaiter'
  BY <1>6 DEF onFinish, callFinishEvent, Stay, Go
<1>7. ASSUME NEW t \in Thread, reachReturns(t)
      PROVE  NoLostWaiter'
  BY <1>7 DEF reachReturns, Done, Go, notify_all
<1>8. ASSUME NEW t \in Thread, failReturns(t)
      PROVE  NoLostWaiter'
  BY <1>8 DEF failReturns, Fails, callFinishEvent, Done, Go, notify_all
<1>9. ASSUME NEW t \in Thread, finishReturns(t)
      PROVE  NoLostWaiter'
  BY <1>9 DEF finishReturns, Done, Go, notify_all
<1>10. ASSUME NEW t \in Thread, onReturns(t)
      PROVE  NoLostWaiter'
  BY <1>10 DEF onReturns, Go
<1>11. ASSUME NEW t \in Thread, Throw(t)
      PROVE  NoLostWaiter'
  BY <1>11 DEF Throw, Go
<1>12. ASSUME NEW t \in Thread, NEW w \in Waits, startWait(t, w)
      PROVE  NoLostWaiter'
  BY <1>12 DEF startWait, Go
<1>13. ASSUME NEW t \in Thread, Wake(t)
      PROVE  NoLostWaiter'
  BY <1>13 DEF Wake, Look, Met, Go
<1>14. ASSUME NEW t \in Thread, Spurious(t)
      PROVE  NoLostWaiter'
  BY <1>14 DEF Spurious, Look, Met, Go
<1>15. ASSUME NEW t \in Thread, TimeOut(t)
      PROVE  NoLostWaiter'
  BY <1>15 DEF TimeOut, Go
<1> QED BY <1>1, <1>2, <1>3, <1>4, <1>5, <1>6, <1>7, <1>8,
           <1>9, <1>10, <1>11, <1>12, <1>13, <1>14, <1>15 DEF PromiseNext, Returns

LEMMA StepInv == PromiseInv /\ [PromiseNext]_promiseVars => PromiseInv'
<1>1. ASSUME PromiseInv, PromiseNext  PROVE  PromiseInv'
  BY <1>1, StepTypes, StepPlaces, StepEvents, StepWaiters DEF PromiseInv
<1>2. ASSUME PromiseInv, UNCHANGED promiseVars  PROVE  PromiseInv'
  BY <1>2 DEF promiseVars, callVars, eventVars, PromiseInv, PromiseTypeOK, EventsDelivered,
              NoLostWaiter, Met, PlacesOK
<1> QED BY <1>1, <1>2

LEMMA Invariant == PromiseSpec => []PromiseInv
<1> QED BY InitInv, StepInv, PTL DEF PromiseSpec

\* What a promise says of its call is consistent: PromiseData's flags, its result and
\* who has the handle.
THEOREM PromiseConsistent == PromiseSpec => []PromiseTypeOK
<1>1. PromiseInv => PromiseTypeOK  BY DEF PromiseInv
<1> QED BY <1>1, Invariant, PTL

\* No callback is missed, whoever comes first of the one that sets it and the one
\* that ends the call (onReach, onFinish; reach, respond, reject).
THEOREM CallbacksCalled == PromiseSpec => []EventsDelivered
<1>1. PromiseInv => EventsDelivered  BY DEF PromiseInv
<1> QED BY <1>1, Invariant, PTL

\* No wakeup is lost, although the mutex is given up between a change and its
\* notify_all.
THEOREM WaitersWoken == PromiseSpec => []NoLostWaiter
<1>1. PromiseInv => NoLostWaiter  BY DEF PromiseInv
<1> QED BY <1>1, Invariant, PTL

----------------------------------------------------------------------------
(* Promises implement Settlement: each step starts, ends or answers the    *)
(* call, or only tells a callback, unless the call is raced.               *)

LEMMA SettledInit == PromiseInit => Settles!SettlementInit
<1> QED BY DEF PromiseInit, Settles!SettlementInit, Stage, Told

\* A callback is only told of what has happened.
LEMMA ToldHappened ==
    ASSUME PromiseInv, PromiseInv',
           reach_event_done => reach_event_done', finish_event_done => finish_event_done',
           reach_event_done' => reach_event_done \/ reached',
           finish_event_done' => finish_event_done \/ finished'
    PROVE  Settles!Tell
<1>1. finished' => reached'  BY DEF PromiseInv, PlacesOK
<1>2. Settles!Happened(Stage') = (IF reached' THEN {"reach"} ELSE {})
                                 \cup (IF finished' THEN {"finish"} ELSE {})
  BY <1>1 DEF Settles!Happened, Stage
<1> QED BY <1>2 DEF Settles!Tell, Told, PromiseInv, PromiseTypeOK

LEMMA SettledStep ==
    ASSUME PromiseInv, PromiseInv', PromiseNext
    PROVE  Settles!SettlementNext \/ UNCHANGED Settles!settlementVars
<1> USE PromiseAssumption DEF PromiseInv, PromiseTypeOK, PlacesOK
<1>1. ASSUME NEW t \in Thread, reachFound(t)
      PROVE  Settles!SettlementNext \/ UNCHANGED Settles!settlementVars
  <2>1. Settles!Tell  BY <1>1, ToldHappened DEF reachFound, callReachEvent, eventVars, callVars
  <2>2. Stage = "calling" /\ Stage' = "started"
    BY <1>1 DEF reachFound, Stage, callVars
  <2> QED BY <1>1, <2>1, <2>2
          DEF reachFound, Settles!SettlementNext, Settles!Start
<1>2. ASSUME NEW t \in Thread, reachNotFound(t)
      PROVE  Settles!SettlementNext \/ UNCHANGED Settles!settlementVars
  <2>1. Settles!Tell  BY <1>2, ToldHappened DEF reachNotFound, callReachEvent, Fails, callFinishEvent, eventVars, callVars
  <2>2. /\ Stage = "calling"
             /\ \/ Stage' = "failed" /\ result' = result
                \/ Stage' = "answered" /\ result' = NotFound
    BY <1>2 DEF reachNotFound, Stage, callVars, Fails
  <2> QED BY <1>2, <2>1, <2>2
          DEF reachNotFound, Fails, Settles!SettlementNext, Settles!Start, Settles!Fail
<1>3. ASSUME NEW t \in Thread, respondable(t)
      PROVE  Settles!SettlementNext \/ UNCHANGED Settles!settlementVars
  <2>1. raced' \/ UNCHANGED Settles!settlementVars
    BY <1>3 DEF respondable, callVars, eventVars, Settles!settlementVars, Stage, Told
  <2> QED BY <2>1 DEF Settles!SettlementNext
<1>4. ASSUME NEW t \in Thread, NEW v \in Answers, respond(t, v)
      PROVE  Settles!SettlementNext \/ UNCHANGED Settles!settlementVars
  <2>1. Settles!Tell  BY <1>4, ToldHappened DEF respond, callFinishEvent, eventVars, callVars
  <2>2. finished => raced'  BY <1>4 DEF respond, callFinishEvent
  <2>3. ~finished => Stage = "started" /\ Stage' = "answered"  BY <1>4 DEF respond, Stage
  <2> QED BY <1>4, <2>1, <2>2, <2>3 DEF respond, Settles!SettlementNext, Settles!Answer
<1>5. ASSUME NEW t \in Thread, NEW f \in Callback, onReach(t, f)
      PROVE  Settles!SettlementNext \/ UNCHANGED Settles!settlementVars
  <2>1. Settles!Tell  BY <1>5, ToldHappened DEF onReach, callReachEvent, eventVars, callVars
  <2>2. UNCHANGED <<Stage, result>>
    BY <1>5 DEF onReach, Stage, callVars
  <2> QED BY <1>5, <2>1, <2>2
          DEF onReach, Settles!SettlementNext, Settles!TellOnly
<1>6. ASSUME NEW t \in Thread, NEW f \in Callback, onFinish(t, f)
      PROVE  Settles!SettlementNext \/ UNCHANGED Settles!settlementVars
  <2>1. Settles!Tell  BY <1>6, ToldHappened DEF onFinish, callFinishEvent, eventVars, callVars
  <2>2. UNCHANGED <<Stage, result>>
    BY <1>6 DEF onFinish, Stage, callVars
  <2> QED BY <1>6, <2>1, <2>2
          DEF onFinish, Settles!SettlementNext, Settles!TellOnly
<1>7. ASSUME NEW t \in Thread, reachReturns(t)
      PROVE  Settles!SettlementNext \/ UNCHANGED Settles!settlementVars
  BY <1>7 DEF reachReturns, callVars, eventVars, Settles!settlementVars, Stage, Told
<1>8. ASSUME NEW t \in Thread, failReturns(t)
      PROVE  Settles!SettlementNext \/ UNCHANGED Settles!settlementVars
  <2>1. Settles!Tell  BY <1>8, ToldHappened DEF failReturns, Fails, callFinishEvent, eventVars, callVars
  <2>2. Stage = "failed" /\ Stage' = "answered"
    BY <1>8 DEF failReturns, Stage, callVars, Fails
  <2> QED BY <1>8, <2>1, <2>2
          DEF failReturns, Fails, Settles!SettlementNext, Settles!Fail
<1>9. ASSUME NEW t \in Thread, finishReturns(t)
      PROVE  Settles!SettlementNext \/ UNCHANGED Settles!settlementVars
  BY <1>9 DEF finishReturns, callVars, eventVars, Settles!settlementVars, Stage, Told
<1>10. ASSUME NEW t \in Thread, onReturns(t)
      PROVE  Settles!SettlementNext \/ UNCHANGED Settles!settlementVars
  BY <1>10 DEF onReturns, callVars, eventVars, Settles!settlementVars, Stage, Told
<1>11. ASSUME NEW t \in Thread, Throw(t)
      PROVE  Settles!SettlementNext \/ UNCHANGED Settles!settlementVars
  BY <1>11 DEF Throw, callVars, eventVars, Settles!settlementVars, Stage, Told
<1>12. ASSUME NEW t \in Thread, NEW w \in Waits, startWait(t, w)
      PROVE  Settles!SettlementNext \/ UNCHANGED Settles!settlementVars
  BY <1>12 DEF startWait, callVars, eventVars, Settles!settlementVars, Stage, Told
<1>13. ASSUME NEW t \in Thread, Wake(t)
      PROVE  Settles!SettlementNext \/ UNCHANGED Settles!settlementVars
  BY <1>13 DEF Wake, Look, callVars, eventVars, Settles!settlementVars, Stage, Told
<1>14. ASSUME NEW t \in Thread, Spurious(t)
      PROVE  Settles!SettlementNext \/ UNCHANGED Settles!settlementVars
  BY <1>14 DEF Spurious, Look, callVars, eventVars, Settles!settlementVars, Stage, Told
<1>15. ASSUME NEW t \in Thread, TimeOut(t)
      PROVE  Settles!SettlementNext \/ UNCHANGED Settles!settlementVars
  BY <1>15 DEF TimeOut, callVars, eventVars, Settles!settlementVars, Stage, Told
<1> QED BY <1>1, <1>2, <1>3, <1>4, <1>5, <1>6, <1>7, <1>8,
           <1>9, <1>10, <1>11, <1>12, <1>13, <1>14, <1>15 DEF PromiseNext, Returns

\* A promise implements Settlement: unless two threads answer it, its answer is given
\* once and stays, and no callback is told twice or early.
THEOREM PromisesSettle == PromiseSpec => SettledOnce
<1>1. PromiseInv /\ PromiseInv' /\ [PromiseNext]_promiseVars
        => [Settles!SettlementNext]_(Settles!settlementVars)
  <2>1. ASSUME PromiseInv, PromiseInv', PromiseNext
        PROVE  [Settles!SettlementNext]_(Settles!settlementVars)
    BY <2>1, SettledStep
  <2>2. ASSUME UNCHANGED promiseVars
        PROVE  UNCHANGED Settles!settlementVars
    BY <2>2 DEF promiseVars, callVars, eventVars, Settles!settlementVars, Stage, Told
  <2> QED BY <2>1, <2>2
<1> QED BY <1>1, SettledInit, Invariant, PTL
        DEF PromiseSpec, SettledOnce, Settles!SettlementSpec

----------------------------------------------------------------------------
(* The threads of the server.                                              *)

LEMMA ServerInitInv == ServerInit => ServerInv
BY ServerAssumption
   DEF ServerInit, ServerInv, ServerTypeOK, ServerPlace, ServerThread, App, At

LEMMA ServerNextInv == ServerInv /\ [ServerNext]_serverVars => ServerInv'
<1> SUFFICES ASSUME ServerInv, [ServerNext]_serverVars PROVE ServerInv'
  OBVIOUS
<1> USE ServerAssumption
    DEF ServerInv, ServerTypeOK, ServerPlace, ServerThread, App, At, GoTo, Ended, Free, Holds, Leaves,
        appVars, connVars
<1>1. CASE UNCHANGED serverVars
  BY <1>1 DEF serverVars
<1>2. CASE MainStep \/ join \/ destroy
  <2>1. CASE construct
    BY <2>1 DEF construct
  <2>2. ASSUME NEW a \in App, constructApp(a) PROVE ServerInv'
    BY <2>2 DEF constructApp
  <2>3. CASE constructed
    BY <2>3 DEF constructed
  <2>4. CASE join \/ joinReturns \/ destroy
    BY <2>4 DEF join, joinReturns, destroy
  <2>5. CASE joinPing
    BY <2>5 DEF joinPing
  <2>6. CASE joinApps
    BY <2>6 DEF joinApps
  <2>. QED  BY <1>2, <2>1, <2>2, <2>3, <2>4, <2>5, <2>6 DEF MainStep
<1>3. ASSUME NEW t \in {"main", Tcp}, StopStep(t) PROVE ServerInv'
  <2>1. CASE stop(t)
    BY <2>1 DEF stop
  <2>2. CASE notify(t)
    BY <2>2 DEF notify
  <2>3. CASE closeConns(t)
    BY <2>3 DEF closeConns
  <2>4. CASE stopApps(t)
    BY <2>4 DEF stopApps
  <2>. QED  BY <1>3, <2>1, <2>2, <2>3, <2>4 DEF StopStep
<1>4. CASE PingStep \/ pingTimeout
  BY <1>4 DEF PingStep, pingTimeout, pingLock, pingCheck, pingWait, pingAwake
<1>5. ASSUME NEW a \in App,
             \/ listen(a) \/ runFails(a) \/ runSignalled(a) \/ runStopped(a)
             \/ \E c \in WsConn : open_callback(a, c) \/ close_callback(a, c)
      PROVE ServerInv'
  <2>1. CASE listen(a)
    BY <2>1 DEF listen
  <2>2. CASE runFails(a) \/ runSignalled(a) \/ runStopped(a)
    BY <2>2 DEF runFails, runSignalled, runStopped, Ends
  <2>3. ASSUME NEW c \in WsConn, open_callback(a, c) \/ close_callback(a, c)
        PROVE ServerInv'
    BY <2>3 DEF open_callback, close_callback
  <2>. QED  BY <1>5, <2>1, <2>2, <2>3
<1>. QED  BY <1>1, <1>2, <1>3, <1>4, <1>5 DEF ServerNext

\* The threads of the server come and go in the order of the constructor and stop().
THEOREM ServerConsistent == ServerSpec => []ServerInv
BY ServerInitInv, ServerNextInv, PTL DEF ServerSpec

\* The store goes only when every listener has ended (StoreOutlivesListeners).
THEOREM ListenersEndFirst == ServerSpec => []StoreOutlivesListeners
<1>1. ServerInv => StoreOutlivesListeners
  BY DEF ServerInv, StoreOutlivesListeners
<1>. QED  BY <1>1, ServerConsistent, PTL

----------------------------------------------------------------------------
(* ClientSync: no request and no value gets lost between the application    *)
(* thread, the ws thread and the server, unless an emptied sync_first is    *)
(* sent.                                                                   *)

\* What the loop of the ws thread keeps.
MovedOut == sync_first # NoFirst /\ sync_first.moved

LoopInv ==
    /\ ws.pc \in {"top", "done"} => connected = curl
    /\ ws.pc = "done" => ~connected
    /\ ws.pc \in {"first", "sendFirst", "send", "close"} => connected /\ curl
    /\ ws.pc \in {"recv", "swap"} => connected
    /\ ws.pc = "lost" => ~connected /\ ~curl
    /\ ws.pc \in {"sendFirst", "recv", "swap", "send", "lost", "close"} => MovedOut
    /\ ws.pc = "top" /\ connected => MovedOut
    /\ ws.pc \in {"first", "sendFirst"} => server = NewMemberData

\* An item is what the server should get: a request or a value.
Items == {<<"req", f>> : f \in req \ {PingStatus}}
         \cup {<<"val", v>> : v \in {data_recv} \ {NoValue}}

Carries(m, x) ==
    \/ x[1] = "req" /\ m.kind = "req" /\ m.field = x[2]
    \/ x[1] = "req" /\ m.kind = "first" /\ x[2] \in m.req
    \/ x[1] = "val" /\ m.kind \in {"first", "snapshot"} /\ m.val = x[2]

Queued(x, queue) == \E i \in 1..Len(queue) : Carries(queue[i], x)

Arrived(x) == \/ x[1] = "req" /\ x[2] \in server.req
              \/ x[1] = "val" /\ x[2] \in server.seen

\* An emptied sync_first is sent next, or has been sent, or does not matter
\* because the connection is lost.
Excused == /\ MovedOut
           /\ ~curl \/ server.moved \/ ws.pc = "first" \/ (ws.pc = "sendFirst" /\ ws.m.moved)

OnItsWay(x) ==
    \/ sync_first = NoFirst
    \/ sync_first # NoFirst /\ ~sync_first.moved /\ Carries(sync_first, x)
    \/ app.pc = "request" /\ x = <<"req", app.field>>
    \/ app.pc = "push" /\ Carries(app.m, x)
    \/ Queued(x, sync_queue)
    \/ ws.pc = "send" /\ Queued(x, ws.out)
    \/ ws.pc = "sendFirst" /\ Carries(ws.m, x)
    \/ curl /\ Arrived(x)
    \/ Excused

NothingForgotten == \A x \in Items : OnItsWay(x)

----------------------------------------------------------------------------
(* Types.                                                                  *)

LEMMA AppTypes ==
    ASSUME app \in AppState
    PROVE  /\ app.pc \in {"idle", "sync", "request", "requested", "push"}
           /\ app.pc = "sync" => app.connected2 \in BOOLEAN
           /\ app.pc \in {"request", "requested"} => app.field \in Fields
           /\ app.pc = "push" => app.m \in Queueable
BY DEF AppState

LEMMA WsTypes ==
    ASSUME ws \in WsState
    PROVE  /\ ws.pc \in {"top", "first", "sendFirst", "recv", "swap", "send", "lost",
                         "close", "done"}
           /\ ws.pc = "sendFirst" => ws.m \in FirstData
           /\ ws.pc = "send" => ws.out \in Seq(Queueable) /\ ws.out # <<>>
BY DEF WsState

LEMMA AppStates ==
    /\ [pc |-> "idle"] \in AppState
    /\ \A b \in BOOLEAN : [pc |-> "sync", connected2 |-> b] \in AppState
    /\ \A f \in Fields : /\ [pc |-> "request", field |-> f] \in AppState
                         /\ Requested(f) \in AppState
    /\ \A m \in Queueable : [pc |-> "push", m |-> m] \in AppState
BY DEF AppState, Requested

LEMMA WsStates ==
    /\ \A p \in {"top", "first", "recv", "swap", "lost", "close"} :
          [pc |-> p] \in WsState
    /\ \A m \in FirstData : [pc |-> "sendFirst", m |-> m] \in WsState
    /\ \A out \in Seq(Queueable), c \in BOOLEAN : Continue(out, c) \in WsState
    /\ \A b \in BOOLEAN : [pc |-> "done", closed |-> b] \in WsState
BY DEF WsState, Continue

LEMMA LatestType ==
    ASSUME ClientSyncTypeOK
    PROVE  Latest \in Value \cup {NoValue} /\ Changed \in Value \cup {NoValue}
<1>1. CASE data_send = <<>>
  BY <1>1 DEF ClientSyncTypeOK, Latest, Changed
<1>2. CASE data_send # <<>>
  <2>1. data_send[Len(data_send)] \in Value
    BY <1>2, EmptySeq, LenProperties, ElementOfSeq DEF ClientSyncTypeOK
  <2>. QED  BY <1>2, <2>1 DEF Latest, Changed
<1>. QED  BY <1>1, <1>2

LEMMA MessageTypes ==
    ASSUME ClientSyncTypeOK
    PROVE  /\ syncDataFirst \in FirstData
           /\ Snapshot(Changed, taken + 1) \in Queueable
           /\ \A f \in Fields : Req(f) \in Queueable
           /\ \A m \in FirstData : Moved(m) \in FirstData
           /\ \A m \in FirstData \cup Queueable : Received(m) \in ServerData
           /\ NewMemberData \in ServerData
<1>1. syncDataFirst \in FirstData
  BY LatestType DEF ClientSyncTypeOK, syncDataFirst, First, FirstData
<1>2. Snapshot(Changed, taken + 1) \in Queueable
  BY LatestType DEF ClientSyncTypeOK, Snapshot, Queueable
<1>3. \A f \in Fields : Req(f) \in Queueable
  BY DEF Req, Queueable
<1>4. ASSUME NEW m \in FirstData PROVE Moved(m) \in FirstData
  BY <1>4 DEF Moved, FirstData
<1>5. ASSUME NEW m \in FirstData \cup Queueable PROVE Received(m) \in ServerData
  <2>1. CASE m \in FirstData
    BY <2>1 DEF FirstData, Received, ServerData
  <2>2. CASE m \in [kind : {"snapshot"}, val : Value \cup {NoValue}, n : Nat]
    BY <2>2 DEF Received, ServerData, ClientSyncTypeOK
  <2>3. CASE m \in [kind : {"req"}, field : Fields]
    BY <2>3 DEF Received, ServerData, ClientSyncTypeOK
  <2>. QED  BY <2>1, <2>2, <2>3 DEF Queueable
<1>6. NewMemberData \in ServerData
  BY DEF NewMemberData, ServerData
<1>. QED  BY <1>1, <1>2, <1>3, <1>4, <1>5, <1>6

LEMMA CallsTypes ==
    ASSUME calls \in Counts
    PROVE  /\ [calls EXCEPT !.set = @ + 1] \in Counts
           /\ [calls EXCEPT !.sync = @ + 1] \in Counts
           /\ [calls EXCEPT !.loss = @ + 1] \in Counts
BY DEF Counts

LEMMA LoseTypes ==
    ASSUME ClientSyncTypeOK, Lose
    PROVE  /\ server' \in ServerData /\ curl' \in BOOLEAN
           /\ calls' \in Counts
<1>3. calls' \in Counts
  BY CallsTypes DEF Lose, ClientSyncTypeOK
<1>4. server' \in ServerData
  BY DEF Lose, ClientSyncTypeOK
<1>5. curl' \in BOOLEAN
  BY DEF Lose
<1>. QED  BY <1>3, <1>4, <1>5

LEMMA TypeInit == ClientInit => ClientSyncTypeOK
<1>1. NewMemberData \in ServerData
  BY DEF NewMemberData, ServerData
<1>2. [pc |-> "idle"] \in AppState /\ [pc |-> "top"] \in WsState
  BY AppStates, WsStates
<1>3. <<>> \in Seq(Value) /\ <<>> \in Seq(Queueable)
  OBVIOUS
<1>4. calls = [set |-> 0, sync |-> 0, loss |-> 0, close |-> FALSE] =>
         calls \in Counts
  BY DEF Counts
<1>5. SUFFICES ASSUME ClientInit PROVE ClientSyncTypeOK
  OBVIOUS
<1>6. /\ data_send \in Seq(Value) /\ data_recv \in Value \cup {NoValue}
      /\ req \subseteq Fields /\ taken \in Nat
  BY <1>3, <1>5 DEF ClientInit
<1>7. /\ sync_first \in FirstData \cup {NoFirst} /\ sync_queue \in Seq(Queueable)
      /\ connected \in BOOLEAN /\ closing \in BOOLEAN /\ curl \in BOOLEAN
  BY <1>3, <1>5 DEF ClientInit
<1>8. /\ app \in AppState /\ ws \in WsState /\ server \in ServerData
      /\ calls \in Counts
  BY <1>1, <1>2, <1>4, <1>5 DEF ClientInit
<1>. QED  BY <1>6, <1>7, <1>8 DEF ClientSyncTypeOK

LEMMA SendTypes ==
    ASSUME ClientSyncTypeOK, NEW m \in FirstData \cup Queueable, send(m) \/ Lose
    PROVE  /\ server' \in ServerData /\ curl' \in BOOLEAN
           /\ calls' \in Counts
<1>1. CASE send(m)
  <2>1. Received(m) \in ServerData
    BY MessageTypes
  <2>. QED  BY <1>1, <2>1 DEF send, ClientSyncTypeOK
<1>2. CASE Lose
  BY <1>2, LoseTypes
<1>. QED  BY <1>1, <1>2

LEMMA TypeStep == ClientSyncTypeOK /\ [ClientNext]_syncVars => ClientSyncTypeOK'
<1> SUFFICES ASSUME ClientSyncTypeOK, [ClientNext]_syncVars PROVE ClientSyncTypeOK'
  OBVIOUS
<1> USE AppTypes, WsTypes, AppStates, WsStates, MessageTypes DEF ClientSyncTypeOK
<1>1. ASSUME NEW v \in Value, set(v) PROVE ClientSyncTypeOK'
  <2>1. data_send' \in Seq(Value)
    BY <1>1, AppendProperties DEF set
  <2>2. calls' \in Counts
    BY <1>1, CallsTypes DEF set
  <2>. QED  BY <1>1, <2>1, <2>2 DEF set, network
<1>2. CASE Sync
  <2>1. app' \in AppState
    BY <1>2 DEF Sync
  <2>2. calls' \in Counts
    BY <1>2, CallsTypes DEF Sync
  <2>. QED  BY <1>2, <2>1, <2>2 DEF Sync, network, store
<1>3. ASSUME NEW f \in Field, request(f) PROVE ClientSyncTypeOK'
  BY <1>3 DEF request, network, Fields
<1>4. CASE pingStatusReq
  BY <1>4 DEF pingStatusReq, network, store, Fields
<1>5. CASE close
  BY <1>5 DEF close, network, store, Counts
<1>6. CASE TakeSnapshot
  <2>1. data_send' \in Seq(Value) /\ data_recv' \in Value \cup {NoValue} /\ taken' \in Nat
    BY <1>6, LatestType, EmptySeq DEF TakeSnapshot, transferSend
  <2>. QED  BY <1>6, <2>1 DEF TakeSnapshot, transferSend, network
<1>7. CASE messagePushReq
  BY <1>7 DEF messagePushReq, network, store
<1>8. CASE Push
  <2>1. app.m \in Queueable /\ (app.m.kind = "req" => app.m.field \in Fields)
    BY <1>8 DEF Push, Queueable
  <2>. QED  BY <1>8, <2>1, AppendProperties DEF Push, network, store
<1>9. CASE SetPingStatusReq
  BY <1>9 DEF SetPingStatusReq, network
<1>10. CASE init
  BY <1>10 DEF init, store
<1>11. CASE moveFirst
  <2>1. /\ data_send' \in Seq(Value) /\ data_recv' \in Value \cup {NoValue}
        /\ taken' \in Nat /\ req' = req
    <3>1. transferSend \/ UNCHANGED store
      BY <1>11 DEF moveFirst
    <3>2. CASE transferSend
      BY <3>2, LatestType, EmptySeq DEF transferSend
    <3>3. CASE UNCHANGED store
      BY <3>3 DEF store
    <3>. QED  BY <3>1, <3>2, <3>3
  <2>2. ws'.m \in FirstData /\ ws' \in WsState
    BY <1>11 DEF moveFirst
  <2>. QED  BY <1>11, <2>1, <2>2 DEF moveFirst, network
<1>12. CASE sendFirst
  BY <1>12, SendTypes DEF sendFirst, store
<1>13. CASE startRecv
  BY <1>13 DEF startRecv, network, store
<1>14. CASE recv
  <2>1. ws' \in WsState
    BY <1>14 DEF recv
  <2>2. /\ server' \in ServerData /\ curl' \in BOOLEAN
        /\ calls' \in Counts
    BY <1>14, LoseTypes DEF recv, network
  <2>. QED  BY <1>14, <2>1, <2>2 DEF recv, store
<1>15. CASE swap
  BY <1>15, EmptySeq DEF swap, network, store
<1>16. CASE sendNext
  <2>1. Head(ws.out) \in Queueable /\ Tail(ws.out) \in Seq(Queueable)
    BY <1>16, HeadTailProperties DEF sendNext
  <2>2. curl' \in BOOLEAN
    BY <1>16, <2>1, SendTypes DEF sendNext
  <2>. QED  BY <1>16, <2>1, <2>2, SendTypes DEF sendNext, store
<1>17. CASE resetFirst
  BY <1>17 DEF resetFirst, network, store
<1>18. CASE return
  BY <1>18 DEF return, store
<1>19. CASE UNCHANGED syncVars
  BY <1>19 DEF syncVars, store, network
<1>. QED
  BY <1>1, <1>2, <1>3, <1>4, <1>5, <1>6, <1>7, <1>8, <1>9, <1>10, <1>11, <1>12,
     <1>13, <1>14, <1>15, <1>16, <1>17, <1>18, <1>19
     DEF ClientNext, AppCalls, AppRuns, wsThreadMain

\* The variables of ClientSync have their types.
THEOREM ClientSyncTypeCorrect == ClientSpec => []ClientSyncTypeOK
<1>. QED  BY TypeInit, TypeStep, PTL DEF ClientSpec

----------------------------------------------------------------------------
(* The loop of the ws thread.                                              *)

LEMMA FirstFacts ==
    ASSUME ClientSyncTypeOK
    PROVE  /\ syncDataFirst \in FirstData /\ syncDataFirst # NoFirst
           /\ ~syncDataFirst.moved
           /\ \A m \in FirstData : /\ m # NoFirst /\ m.kind = "first"
                                  /\ Moved(m) # NoFirst /\ Moved(m).moved
BY MessageTypes, SyncAssumption DEF syncDataFirst, First, Moved, FirstData

\* An application action leaves the ws thread alone, and sync_first unless empty.
AppStep == /\ UNCHANGED <<ws, connected, curl, server>>
           /\ sync_first # NoFirst => UNCHANGED sync_first

LEMMA AppSteps ==
    ASSUME AppCalls \/ AppRuns
    PROVE  AppStep
<1>1. CASE TakeSnapshot
  BY <1>1 DEF TakeSnapshot, network, AppStep
<1>2. CASE ~TakeSnapshot
  BY <1>2 DEF AppCalls, AppRuns, set, Sync, request, pingStatusReq, close,
              messagePushReq, Push, SetPingStatusReq, network, AppStep
<1>. QED  BY <1>1, <1>2

LEMMA Continues ==
    ASSUME NEW out, NEW c \in BOOLEAN
    PROVE  /\ Continue(out, c).pc = "lost" => ~c
           /\ Continue(out, c).pc # "lost" => c
           /\ Continue(out, c).pc \in {"lost", "send", "close", "top"}
           /\ Continue(out, c).pc = "send" => Continue(out, c).out = out
           /\ out # <<>> /\ c => Continue(out, c).pc = "send"
BY DEF Continue

LEMMA LoopInit == ClientInit => LoopInv
<1> SUFFICES ASSUME ClientInit PROVE LoopInv
  OBVIOUS
<1>1. ws.pc = "top" /\ connected = FALSE /\ curl = FALSE
  BY DEF ClientInit
<1>. QED  BY <1>1 DEF LoopInv

LEMMA LoopStep ==
    ClientSyncTypeOK /\ LoopInv /\ [ClientNext]_syncVars => LoopInv'
<1> SUFFICES ASSUME ClientSyncTypeOK, LoopInv, [ClientNext]_syncVars PROVE LoopInv'
  OBVIOUS
<1> USE DEF LoopInv, MovedOut
<1>1. CASE AppCalls \/ AppRuns
  BY <1>1, AppSteps DEF AppStep
<1>2. CASE init
  BY <1>2 DEF init, store
<1>3. CASE moveFirst
  <2>1. ws'.pc = "sendFirst" /\ ws'.m \in FirstData
    BY <1>3, FirstFacts DEF moveFirst, ClientSyncTypeOK
  <2>2. sync_first' # NoFirst /\ sync_first'.moved
    BY <1>3, <2>1, FirstFacts DEF moveFirst
  <2>. QED  BY <1>3, <2>1, <2>2 DEF moveFirst, network
<1>4. CASE sendFirst
  BY <1>4 DEF sendFirst, send, Lose
<1>5. CASE startRecv
  BY <1>5 DEF startRecv, network
<1>6. CASE recv
  <2>1. ws.pc = "recv" /\ connected' = connected /\ sync_first' = sync_first
    BY <1>6 DEF recv
  <2>2. ws'.pc \in {"recv", "swap"}
    BY <1>6 DEF recv
  <2>. QED  BY <2>1, <2>2
<1>7. CASE swap
  <2>1. /\ ws' = Continue(sync_queue, curl) /\ curl \in BOOLEAN
        /\ connected' = curl /\ UNCHANGED <<sync_first, curl, server>>
    BY <1>7 DEF swap, network, ClientSyncTypeOK
  <2>. QED  BY <1>7, <2>1, Continues DEF swap
<1>8. CASE sendNext
  <2>1. /\ ws' = Continue(Tail(ws.out), curl') /\ curl' \in BOOLEAN
        /\ connected' = curl' /\ UNCHANGED sync_first
    BY <1>8 DEF sendNext, send, Lose, ClientSyncTypeOK
  <2>. QED  BY <1>8, <2>1, Continues DEF sendNext
<1>9. CASE resetFirst
  BY <1>9 DEF resetFirst, network, ClientSyncTypeOK
<1>10. CASE return
  BY <1>10 DEF return
<1>11. CASE UNCHANGED syncVars
  BY <1>11 DEF syncVars, network
<1>. QED
  BY <1>1, <1>2, <1>3, <1>4, <1>5, <1>6, <1>7, <1>8, <1>9, <1>10, <1>11
     DEF ClientNext, wsThreadMain

\* While there is a connection, connected agrees with the handle and sync_first
\* is there.
THEOREM ConnectionHasFirst == ClientSpec => []ConnectedHasFirst
<1>1. LoopInv /\ ClientSyncTypeOK => ConnectedHasFirst
  BY WsTypes DEF LoopInv, MovedOut, ConnectedHasFirst, ClientSyncTypeOK
<1>. QED  BY <1>1, ClientSyncTypeCorrect, LoopInit, LoopStep, PTL DEF ClientSpec

----------------------------------------------------------------------------
(* Nothing is forgotten.                                                   *)

PingIsLast == app.pc = "requested" => app.field = PingStatus

LEMMA PingRequestInit == ClientInit => PingIsLast
BY DEF ClientInit, PingIsLast

LEMMA PingRequestStep ==
    ClientSyncTypeOK /\ PingIsLast /\ [ClientNext]_syncVars => PingIsLast'
<1> SUFFICES ASSUME ClientSyncTypeOK, PingIsLast, [ClientNext]_syncVars PROVE PingIsLast'
  OBVIOUS
<1>1. CASE app' = app
  BY <1>1 DEF PingIsLast
<1>2. CASE messagePushReq \/ Push
  BY <1>2 DEF messagePushReq, Push, Requested, PingIsLast
<1>3. CASE app' # app /\ ~messagePushReq /\ ~Push
  <2>1. app'.pc # "requested"
    BY <1>3 DEF ClientNext, AppCalls, AppRuns, wsThreadMain, set, Sync, request,
       pingStatusReq, close, TakeSnapshot, SetPingStatusReq, init, moveFirst,
       sendFirst, startRecv, recv, swap, sendNext, resetFirst, return, syncVars
  <2>. QED  BY <2>1 DEF PingIsLast
<1>. QED  BY <1>1, <1>2, <1>3

\* The last value is in the snapshot unless it has been sent before, and in the
\* first data always.
LEMMA SnapshotCarries ==
    ASSUME ClientSyncTypeOK
    PROVE  Latest # data_recv => Changed = Latest
<1> SUFFICES ASSUME Latest # data_recv PROVE Changed = Latest
  OBVIOUS
<1>1. data_send # <<>> /\ data_send[Len(data_send)] # data_recv
  BY DEF Latest
<1>2. Len(data_send) \in 1..Len(data_send)
  BY <1>1, EmptySeq, LenProperties DEF ClientSyncTypeOK
<1>. QED  BY <1>1, <1>2 DEF Changed

LEMMA FirstCarries ==
    ASSUME NEW x \in Items', transferSend
    PROVE  Carries(syncDataFirst, x)
BY DEF Items, transferSend, Carries, syncDataFirst, First

\* What the server reads stays there; what a message carries arrives.
LEMMA ReceivedArrives ==
    ASSUME ClientSyncTypeOK, NEW m \in FirstData \cup Queueable, send(m), NEW x \in Items
    PROVE  /\ Carries(m, x) => Arrived(x)'
           /\ m \in Queueable /\ Arrived(x) => Arrived(x)'
           /\ m \in Queueable => (server.moved => server'.moved)
           /\ m \in FirstData => server'.moved = m.moved
<1> USE DEF Carries, Arrived, Items, send, Received
<1>1. CASE m \in FirstData
  <2>1. server' = [val |-> m.val, req |-> m.req, n |-> m.n,
                   seen |-> {m.val} \ {NoValue}, moved |-> m.moved] /\ m.kind = "first"
    BY <1>1 DEF FirstData
  <2>2. m \notin Queueable
    BY <2>1 DEF Queueable
  <2>. QED  BY <2>1, <2>2
<1>2. CASE m \in [kind : {"snapshot"}, val : Value \cup {NoValue}, n : Nat]
  <2>1. m.kind = "snapshot" /\ m \notin FirstData
    BY <1>2 DEF FirstData
  <2>. QED  BY <2>1 DEF ClientSyncTypeOK, ServerData
<1>3. CASE m \in [kind : {"req"}, field : Fields]
  <2>1. m.kind = "req" /\ m \notin FirstData
    BY <1>3 DEF FirstData
  <2>. QED  BY <2>1 DEF ClientSyncTypeOK, ServerData
<1>. QED  BY <1>1, <1>2, <1>3 DEF Queueable

LEMMA QueuedAppend ==
    ASSUME NEW queue \in Seq(Queueable), NEW m \in Queueable, NEW x
    PROVE  Queued(x, queue) \/ Carries(m, x) => Queued(x, Append(queue, m))
BY AppendProperties, LenProperties DEF Queued

LEMMA QueuedHeadTail ==
    ASSUME NEW queue \in Seq(Queueable), queue # <<>>, NEW x, Queued(x, queue)
    PROVE  Carries(Head(queue), x) \/ (Queued(x, Tail(queue)) /\ Tail(queue) # <<>>)
<1>1. PICK i \in 1..Len(queue) : Carries(queue[i], x)
  BY DEF Queued
<1>2. CASE i = 1
  BY <1>1, <1>2, HeadTailProperties
<1>3. CASE i # 1
  <2>1. Len(Tail(queue)) = Len(queue) - 1 /\ Len(queue) \in Nat
    BY HeadTailProperties, LenProperties
  <2>2. i - 1 \in 1..Len(Tail(queue))
    BY <1>3, <2>1
  <2>3. Tail(queue)[i - 1] = queue[i]
    BY <2>2, HeadTailProperties
  <2>4. Tail(queue) # <<>>
    <3>1. Len(Tail(queue)) # 0
      BY <1>3, <2>1
    <3>2. Tail(queue) \in Seq(Queueable)
      BY HeadTailProperties
    <3>. QED  BY <3>1, <3>2, EmptySeq
  <2>. QED  BY <1>1, <2>2, <2>3, <2>4 DEF Queued
<1>. QED  BY <1>2, <1>3

\* What the application thread does.
LEMMA AppForgetsNothing ==
    ASSUME ClientSyncTypeOK, LoopInv, PingIsLast, NothingForgotten, AppCalls \/ AppRuns
    PROVE  NothingForgotten'
<1> USE DEF NothingForgotten
<1>1. AppStep
  BY AppSteps
\* Each of them concerns only the thread itself, the queue and the store.
<1>2. ASSUME NEW x \in Items, sync_first' = sync_first,
             app.pc # "request" \/ x # <<"req", app.field>>,
             app.pc # "push" \/ ~Carries(app.m, x),
             Queued(x, sync_queue) => Queued(x, sync_queue')
      PROVE  OnItsWay(x)'
  BY <1>1, <1>2 DEF AppStep, OnItsWay, Excused, MovedOut, Arrived
<1>3. ASSUME NEW v \in Value, set(v) PROVE NothingForgotten'
  BY <1>2, <1>3 DEF set, Items
<1>4. CASE Sync
  BY <1>2, <1>4 DEF Sync, Items, store
<1>5. ASSUME NEW f \in Field, request(f) PROVE NothingForgotten'
  <2>1. ASSUME NEW x \in Items' PROVE x \in Items \/ x = <<"req", f>>
    BY <1>5 DEF request, Items
  <2>2. ASSUME NEW x \in Items PROVE OnItsWay(x)'
    BY <1>2, <1>5, <2>2 DEF request
  <2>3. OnItsWay(<<"req", f>>)'
    BY <1>5 DEF request, OnItsWay
  <2>. QED  BY <2>1, <2>2, <2>3
<1>6. CASE pingStatusReq
  BY <1>2, <1>6 DEF pingStatusReq, Items, store
<1>7. CASE close
  BY <1>2, <1>7 DEF close, Items, store
<1>8. CASE TakeSnapshot
  <2>1. CASE ~app.connected2 /\ sync_first = NoFirst
    <3>1. sync_first' = syncDataFirst /\ transferSend
      BY <1>8, <2>1 DEF TakeSnapshot
    <3>2. ASSUME NEW x \in Items' PROVE OnItsWay(x)'
      <4>1. sync_first' # NoFirst /\ ~sync_first'.moved /\ Carries(sync_first', x)
        BY <3>1, FirstCarries, FirstFacts
      <4>2. Carries(sync_first, x)' = Carries(sync_first', x')
        BY DEF Carries
      <4>. QED  BY <4>1, <4>2 DEF OnItsWay, Carries
    <3>. QED  BY <3>2
  <2>2. CASE ~(~app.connected2 /\ sync_first = NoFirst)
    <3>1. /\ app' = [pc |-> "push", m |-> Snapshot(Changed, taken + 1)]
          /\ transferSend /\ app.pc = "sync" /\ UNCHANGED <<sync_first, sync_queue>>
      BY <1>8, <2>2 DEF TakeSnapshot
    <3>2. ASSUME NEW x \in Items PROVE OnItsWay(x)'
      BY <1>2, <3>1, <3>2
    <3>3. ASSUME NEW x \in Items', x \notin Items PROVE OnItsWay(x)'
      <4>1. x = <<"val", Latest>> /\ Latest # data_recv
        BY <3>1, <3>3 DEF transferSend, Items
      <4>2. Carries(app'.m, x)
        BY <3>1, <4>1, SnapshotCarries DEF Snapshot, Carries
      <4>. QED  BY <3>1, <4>2 DEF OnItsWay, Carries
    <3>. QED  BY <3>2, <3>3
  <2>. QED  BY <2>1, <2>2
<1>9. CASE messagePushReq
  <2>1. ASSUME NEW x \in Items PROVE OnItsWay(x)'
    <3>1. CASE x # <<"req", app.field>>
      BY <1>2, <1>9, <3>1 DEF messagePushReq
    <3>2. CASE x = <<"req", app.field>> /\ sync_first = NoFirst
      BY <1>9, <3>2 DEF messagePushReq, OnItsWay
    <3>3. CASE x = <<"req", app.field>> /\ sync_first # NoFirst
      <4>1. app'.pc = "push" /\ Carries(app'.m, x)
        BY <1>9, <3>3 DEF messagePushReq, Req, Carries
      <4>. QED  BY <4>1 DEF OnItsWay, Carries
    <3>. QED  BY <3>1, <3>2, <3>3
  <2>. QED  BY <1>9, <2>1 DEF messagePushReq, Items, store
<1>10. CASE Push
  <2>1. sync_queue \in Seq(Queueable) /\ app.m \in Queueable
    BY <1>10, AppTypes DEF ClientSyncTypeOK, Push
  <2>2. ASSUME NEW x \in Items PROVE OnItsWay(x)'
    <3>1. Queued(x, sync_queue) \/ Carries(app.m, x) => Queued(x, sync_queue')
      BY <1>10, <2>1, QueuedAppend DEF Push
    <3>2. CASE Carries(app.m, x)
      BY <3>1, <3>2 DEF OnItsWay, Queued, Carries
    <3>3. CASE ~Carries(app.m, x)
      BY <1>2, <1>10, <3>1, <3>3 DEF Push
    <3>. QED  BY <3>2, <3>3
  <2>. QED  BY <1>10, <2>2 DEF Push, Items, store
<1>11. CASE SetPingStatusReq
  BY <1>2, <1>11 DEF SetPingStatusReq, Items, PingIsLast
<1>. QED
  BY <1>3, <1>4, <1>5, <1>6, <1>7, <1>8, <1>9, <1>10, <1>11 DEF AppCalls, AppRuns

\* What the ws thread does.  It leaves the application thread and its requests
\* alone.
LEMMA WsForgetsNothing ==
    ASSUME ClientSyncTypeOK, LoopInv, NothingForgotten, init \/ wsThreadMain
    PROVE  NothingForgotten'
<1> USE DEF NothingForgotten
<1>1. CASE init
  <2>1. ASSUME NEW x \in Items PROVE OnItsWay(x)'
    BY <1>1, <2>1 DEF init, OnItsWay, Excused, MovedOut, LoopInv
  <2>. QED  BY <1>1, <2>1 DEF init, Items, store
<1>2. CASE moveFirst
  <2>1. /\ ws'.pc = "sendFirst" /\ sync_first' = Moved(ws'.m) /\ ws.pc = "first"
        /\ UNCHANGED <<app, sync_queue, curl, server>>
    BY <1>2 DEF moveFirst, network
  <2>2. CASE sync_first = NoFirst
    <3>1. transferSend /\ ws'.m = syncDataFirst
      BY <1>2, <2>2 DEF moveFirst
    <3>2. ASSUME NEW x \in Items' PROVE OnItsWay(x)'
      BY <2>1, <3>1, FirstCarries DEF OnItsWay, Carries
    <3>. QED  BY <3>2
  <2>3. CASE sync_first # NoFirst
    <3>1. ws'.m = sync_first /\ Items' = Items
      BY <1>2, <2>3 DEF moveFirst, store, Items
    <3>2. MovedOut'
      BY <2>1, <2>3, <3>1, FirstFacts DEF MovedOut, ClientSyncTypeOK
    <3>3. ASSUME NEW x \in Items PROVE ~(curl /\ Arrived(x))
      BY <2>1 DEF LoopInv, Arrived, NewMemberData, Items
    <3>4. ASSUME NEW x \in Items, MovedOut PROVE OnItsWay(x)'
      BY <2>1, <3>1, <3>2, <3>4 DEF OnItsWay, Excused, MovedOut
    <3>5. ASSUME NEW x \in Items, ~MovedOut PROVE OnItsWay(x)'
      BY <2>1, <2>3, <3>1, <3>3, <3>5 DEF OnItsWay, Carries, Queued, Excused, MovedOut
    <3>. QED  BY <3>1, <3>4, <3>5
  <2>. QED  BY <2>2, <2>3
\* From here on sync_first is moved out, so that losing the connection is excused.
<1>3. ASSUME NEW x \in Items, MovedOut, UNCHANGED sync_first, curl' = FALSE
      PROVE  OnItsWay(x)'
  BY <1>3 DEF OnItsWay, Excused, MovedOut
<1>4. CASE sendFirst
  <2>1. /\ ws.pc = "sendFirst" /\ ws'.pc = "top" /\ MovedOut
        /\ UNCHANGED <<sync_first, app, sync_queue>> /\ Items' = Items
    BY <1>4 DEF sendFirst, LoopInv, Items, store
  <2>2. CASE Lose
    BY <1>3, <2>1, <2>2 DEF Lose
  <2>3. CASE send(ws.m)
    <3>1. ws.m \in FirstData /\ curl /\ curl' = curl
      BY <2>1, <2>3, WsTypes DEF ClientSyncTypeOK, LoopInv, send
    <3>2. ASSUME NEW x \in Items PROVE OnItsWay(x)'
      <4>1. Carries(ws.m, x) => Arrived(x)'
        BY <2>3, <3>1, ReceivedArrives
      <4>2. server'.moved = ws.m.moved
        BY <2>3, <3>1, <3>2, ReceivedArrives
      <4>3. ~Arrived(x) /\ ~server.moved
        BY <2>1 DEF LoopInv, Arrived, NewMemberData, Items
      <4>. QED  BY <2>1, <3>1, <4>1, <4>2, <4>3 DEF OnItsWay, Excused, MovedOut, Arrived, Queued, Carries
    <3>. QED  BY <2>1, <3>2
  <2>. QED  BY <1>4, <2>2, <2>3 DEF sendFirst
<1>5. CASE startRecv
  <2>1. ASSUME NEW x \in Items PROVE OnItsWay(x)'
    BY <1>5, <2>1 DEF startRecv, network, OnItsWay, Excused, MovedOut, Arrived
  <2>. QED  BY <1>5, <2>1 DEF startRecv, store, Items
<1>6. CASE recv
  <2>1. /\ ws.pc = "recv" /\ ws'.pc \in {"recv", "swap"} /\ MovedOut
        /\ UNCHANGED <<sync_first, app, sync_queue>> /\ Items' = Items
    BY <1>6 DEF recv, LoopInv, Items, store
  <2>2. CASE Lose
    BY <1>3, <2>1, <2>2 DEF Lose
  <2>3. CASE UNCHANGED network
    BY <2>1, <2>3 DEF network, OnItsWay, Excused, MovedOut, Arrived
  <2>. QED  BY <1>6, <2>2, <2>3 DEF recv
<1>7. CASE swap
  <2>1. /\ ws.pc = "swap" /\ ws' = Continue(sync_queue, curl) /\ MovedOut
        /\ UNCHANGED <<sync_first, app, curl, server>> /\ Items' = Items
    BY <1>7 DEF swap, LoopInv, Items, store, network
  <2>2. CASE ~curl
    BY <1>3, <2>1, <2>2 DEF ClientSyncTypeOK
  <2>3. CASE curl
    <3>1. ASSUME NEW x \in Items PROVE OnItsWay(x)'
      <4>1. CASE Queued(x, sync_queue)
        <5>1. sync_queue # <<>>
          BY <4>1 DEF Queued
        <5>2. ws'.pc = "send" /\ ws'.out = sync_queue
          BY <2>1, <2>3, <5>1 DEF Continue
        <5>. QED  BY <4>1, <5>2 DEF OnItsWay, Queued, Carries
      <4>2. CASE ~Queued(x, sync_queue)
        BY <2>1, <2>3, <3>1, <4>2 DEF OnItsWay, Excused, MovedOut, Arrived
      <4>. QED  BY <4>1, <4>2
    <3>. QED  BY <2>1, <3>1
  <2>. QED  BY <2>2, <2>3
<1>8. CASE sendNext
  <2>1. /\ ws.pc = "send" /\ ws' = Continue(Tail(ws.out), curl') /\ MovedOut
        /\ UNCHANGED <<sync_first, app, sync_queue>> /\ Items' = Items
        /\ ws.out \in Seq(Queueable) /\ ws.out # <<>>
    BY <1>8, WsTypes DEF sendNext, LoopInv, Items, store, ClientSyncTypeOK
  <2>2. CASE Lose
    BY <1>3, <2>1, <2>2 DEF Lose
  <2>3. CASE send(Head(ws.out))
    <3>1. curl /\ curl' = curl /\ Head(ws.out) \in Queueable
      BY <2>1, <2>3, HeadTailProperties DEF LoopInv, send
    <3>2. ASSUME NEW x \in Items PROVE OnItsWay(x)'
      <4>1. /\ Carries(Head(ws.out), x) => Arrived(x)'
            /\ Arrived(x) => Arrived(x)'
            /\ server.moved => server'.moved
        BY <2>3, <3>1, <3>2, ReceivedArrives
      <4>2. CASE Queued(x, ws.out) /\ ~Carries(Head(ws.out), x)
        <5>1. Queued(x, Tail(ws.out)) /\ Tail(ws.out) # <<>>
          BY <2>1, <4>2, QueuedHeadTail
        <5>2. ws'.pc = "send" /\ ws'.out = Tail(ws.out)
          BY <2>1, <3>1, <5>1 DEF Continue
        <5>. QED  BY <5>1, <5>2 DEF OnItsWay, Queued, Carries
      <4>3. CASE ~Queued(x, ws.out) \/ Carries(Head(ws.out), x)
        <5>1. CASE Arrived(x)'
          BY <3>1, <5>1 DEF OnItsWay
        <5>2. CASE ~Arrived(x)'
          <6>1. OnItsWay(x) /\ ~Arrived(x) /\ ~Queued(x, ws.out)
            BY <3>2, <4>1, <4>3, <5>2
          <6>2. \/ app.pc = "request" /\ x = <<"req", app.field>>
                \/ app.pc = "push" /\ Carries(app.m, x)
                \/ Queued(x, sync_queue)
                \/ server.moved
            BY <2>1, <3>1, <6>1 DEF OnItsWay, Excused, MovedOut
          <6>3. CASE server.moved
            <7>1. server'.moved
              BY <4>1, <6>3
            <7>2. MovedOut'
              BY <2>1 DEF MovedOut
            <7>. QED  BY <7>1, <7>2 DEF OnItsWay, Excused
          <6>. QED
            BY <2>1, <6>2, <6>3 DEF OnItsWay, Queued, Carries
        <5>. QED  BY <5>1, <5>2
      <4>. QED  BY <4>2, <4>3
    <3>. QED  BY <2>1, <3>2
  <2>. QED  BY <1>8, <2>2, <2>3 DEF sendNext
<1>9. CASE resetFirst
  <2>1. sync_first' = NoFirst
    BY <1>9 DEF resetFirst
  <2>. QED  BY <2>1 DEF OnItsWay
<1>10. CASE return
  <2>1. UNCHANGED <<sync_first, app, sync_queue>> /\ Items' = Items /\ curl' = FALSE
    BY <1>10 DEF return, store, Items
  <2>2. CASE ws.pc = "close"
    BY <1>3, <2>1, <2>2 DEF LoopInv
  <2>3. CASE ws.pc = "top" /\ ~connected
    <3>1. ~curl
      BY <2>3 DEF LoopInv
    <3>2. ASSUME NEW x \in Items PROVE OnItsWay(x)'
      BY <2>1, <2>3, <3>1, <3>2 DEF OnItsWay, Excused, MovedOut, Queued, Carries
    <3>. QED  BY <2>1, <3>2
  <2>. QED  BY <1>10, <2>2, <2>3 DEF return
<1>. QED
  BY <1>1, <1>2, <1>4, <1>5, <1>6, <1>7, <1>8, <1>9, <1>10 DEF wsThreadMain

LEMMA NothingForgottenStep ==
    ClientSyncTypeOK /\ LoopInv /\ PingIsLast /\ NothingForgotten /\ [ClientNext]_syncVars
        => NothingForgotten'
<1> SUFFICES ASSUME ClientSyncTypeOK, LoopInv, PingIsLast, NothingForgotten,
                    [ClientNext]_syncVars
             PROVE  NothingForgotten'
  OBVIOUS
<1>1. CASE UNCHANGED syncVars
  BY <1>1 DEF syncVars, store, network, NothingForgotten, Items, OnItsWay, Excused,
              MovedOut, Queued, Carries, Arrived
<1>. QED  BY <1>1, AppForgetsNothing, WsForgetsNothing DEF ClientNext

LEMMA NothingForgottenInit == ClientInit => NothingForgotten
BY DEF ClientInit, NothingForgotten, OnItsWay

THEOREM NothingIsForgotten ==
    ClientSpec => [](ClientSyncTypeOK /\ LoopInv /\ NothingForgotten)
<1>. QED
  BY TypeInit, TypeStep, LoopInit, LoopStep, PingRequestInit, PingRequestStep, NothingForgottenInit,
     NothingForgottenStep, PTL DEF ClientSpec

LEMMA SettledArrived ==
    ASSUME LoopInv, NothingForgotten, Settled, ~server.moved, NEW x \in Items
    PROVE  Arrived(x)
<1>1. MovedOut /\ ~Excused
  BY DEF LoopInv, Settled, Excused
<1>2. OnItsWay(x)
  BY DEF NothingForgotten
<1>3. ~Queued(x, sync_queue)
  BY DEF Settled, Queued
<1>. QED  BY <1>1, <1>2, <1>3 DEF OnItsWay, Settled, MovedOut

\* Every request reaches the server, however the connection comes and goes.
THEOREM RequestsReachServer == ClientSpec => []RequestsArrive
<1>1. LoopInv /\ NothingForgotten => RequestsArrive
  <2> SUFFICES ASSUME LoopInv, NothingForgotten, Settled, ~server.moved,
                      NEW f \in req \ {PingStatus}
               PROVE  f \in server.req
    BY DEF RequestsArrive
  <2>1. <<"req", f>> \in Items
    BY DEF Items
  <2>. QED  BY <2>1, SettledArrived DEF Arrived
<1>. QED  BY <1>1, NothingIsForgotten, PTL

\* The last value that sync() has taken reaches the server.
THEOREM LastValueReachesServer == ClientSpec => []ValueArrives
<1>1. LoopInv /\ NothingForgotten => ValueArrives
  <2> SUFFICES ASSUME LoopInv, NothingForgotten, Settled, ~server.moved,
                      data_recv # NoValue
               PROVE  data_recv \in server.seen
    BY DEF ValueArrives
  <2>1. <<"val", data_recv>> \in Items
    BY DEF Items
  <2>. QED  BY <2>1, SettledArrived DEF Arrived
<1>. QED  BY <1>1, NothingIsForgotten, PTL
============================================================================
