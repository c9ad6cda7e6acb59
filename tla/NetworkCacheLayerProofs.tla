---------------------- MODULE NetworkCacheLayerProofs -----------------------
(***************************************************************************)
(* Proofs about NetworkCacheLayer and HTTPRequest.  The callback of a      *)
(* request is a token: it is in the request, in the hands of curlLoop or   *)
(* in those of abort(), and in one place only, unless abort() came while   *)
(* curlLoop was copying it.  Only the request for the service that is      *)
(* being tried has one, so a callback always finds its entry waiting.  The *)
(* second part follows the bytes: what a download has written is the       *)
(* beginning of its range and what an upload has sent the beginning of the *)
(* file, until one of the threads takes the transfer to its end.           *)
(***************************************************************************)
EXTENDS NetworkCacheLayer, SequenceTheorems, TLAPS

Services == 0..(NumServices - 1)

-----------------------------------------------------------------------------
(* The inductive invariant *)

(* The requests are records that have at least the fields of the control. *)
HasControl(q) ==
  "mState" \in DOMAIN q /\ "handle" \in DOMAIN q /\ "callback" \in DOMAIN q

Shapes ==
  /\ http = [h \in Requests |-> http[h]]
  /\ \A h \in Requests : HasControl(http[h])

(* Nobody can start the request again. *)
Idle(r) == http[r].mState = "FINISHED" /\ http[r].handle = "none"

(* The callback of a request is in the request or in the hands of a thread *)
(* that is about to call it.                                               *)
CurlHas(r) == curl.pc = "callback" /\ r \in curl.h
AbortHas(r) == aborting.pc = "callback" /\ r \in aborting.h
Pending(r) == http[r].callback \/ CurlHas(r) \/ AbortHas(r)

CurlFinishes(r) == curl.pc \in {"freed", "copied"} /\ r \in curl.h
AbortAtWork(r) == aborting.pc \in {"copy", "callback"} /\ r \in aborting.h

(* Nobody has heard of the request. *)
Untouched(r) ==
  /\ http[r].handle = "none"
  /\ r \notin curl.h /\ r \notin aborting.h /\ r \notin dtor.pendingDelete
  /\ \A d \in starting : d.h # r
  /\ \A j \in Infos : r \notin info[j].httpreq

IsCurrent(i, k) == info[i].st = "waiting" /\ info[i].which = k

IsFresh(i, k) ==
  \/ info[i].st \in {"none", "lookup"}
  \/ info[i].st \in {"fetch", "create"} /\ k >= info[i].which
  \/ info[i].st = "waiting" /\ k > info[i].which

NotRaced(i) == i \notin early /\ \A k \in Services : RequestFor[i, k] \notin raced

RequestInv(r) ==
  /\ CurlHas(r) => ~http[r].callback /\ ~AbortHas(r)
  /\ AbortHas(r) => ~http[r].callback
  /\ CurlFinishes(r) => Idle(r) /\ (AbortAtWork(r) => ~http[r].callback)
  /\ curl.pc = "copied" /\ r \in curl.h => http[r].callback
  /\ AbortAtWork(r) => Idle(r)

SlotInv(i, k) ==
  NotRaced(i) =>
    /\ RequestInv(RequestFor[i, k])
    /\ Pending(RequestFor[i, k]) => IsCurrent(i, k)
    /\ IsFresh(i, k) => Untouched(RequestFor[i, k])

CountInv(i) == NotRaced(i) => answers[i] <= IF info[i].st = "erased" THEN 1 ELSE 0

-----------------------------------------------------------------------------
(* The control of a request *)

SameControl(p, q) ==
  HasControl(p) /\ p.mState = q.mState /\ p.handle = q.handle /\ p.callback = q.callback

(* gotHeader and write only change the data. *)
LEMMA AnswerKeepsControl ==
  ASSUME NEW q, HasControl(q), NEW status, NEW length, NEW sent, NEW server
  PROVE  SameControl([gotHeader(q, status, length) EXCEPT !.server = server, !.sent = sent], q)
  BY DEF gotHeader, SameControl, HasControl

(* write only changes the data and the offset. *)
LEMMA WriteKeepsControl ==
  ASSUME NEW q, HasControl(q), NEW chunk, NEW sent, NEW server
  PROVE  SameControl([write(q, chunk) EXCEPT !.sent = sent, !.server = server], q)
  BY DEF write, SameControl, HasControl

(* A dropped request keeps its control. *)
LEMMA DroppedKeepsControl ==
  ASSUME NEW q, HasControl(q)
  PROVE  SameControl(Dropped(q), q)
  BY DEF Dropped, NoRequest, SameControl, HasControl

(* What a new request and an added one are. *)
LEMMA NewControl ==
  ASSUME NEW range, NEW put
  PROVE  /\ HasControl(NewRequest(range, put))
         /\ NewRequest(range, put).mState = "NEW" /\ NewRequest(range, put).handle = "new"
  BY DEF NewRequest, initCurlHandle, NoRequest, HasControl

(* A request that go() has added keeps its callback. *)
LEMMA AddedControl ==
  ASSUME NEW q, HasControl(q), NEW h, NEW known
  PROVE  /\ HasControl(Added(q, h, known))
         /\ Added(q, h, known).mState = "INPROGRESS" /\ Added(q, h, known).handle = "added"
         /\ Added(q, h, known).callback = q.callback
  BY DEF Added, HasControl

(* A request that is set up again for a retry keeps its callback. *)
LEMMA RestartedControl ==
  ASSUME NEW q, HasControl(q)
  PROVE  HasControl(initCurlHandle(q)) /\ initCurlHandle(q).callback = q.callback
  BY DEF initCurlHandle, HasControl

(* One request changes and the others stay. *)
LEMMA OneChanges ==
  ASSUME Shapes, NEW h \in Requests, NEW q, HasControl(q), http' = [http EXCEPT ![h] = q]
  PROVE  /\ Shapes' /\ http'[h] = q
         /\ \A g \in Requests \ {h} : http'[g] = http[g]
  <1>1. DOMAIN http = Requests
    BY DEF Shapes
  <1>2. http'[h] = q /\ \A g \in Requests \ {h} : http'[g] = http[g]
    BY <1>1
  <1>3. http' = [g \in Requests |-> http'[g]]
    BY <1>1
  <1> QED
    BY <1>2, <1>3 DEF Shapes

(* The steps in which curl moves data leave the control of requests alone. *)
DataStep(h) ==
  ServerAnswers(h) \/ BodyArrives(h) \/ read(h) \/ UploadAccepted(h)
    \/ ExpectationFails(h) \/ TransferBreaks(h)

(* No step of a transfer touches state, handle or callback. *)
LEMMA DataStepKeepsControl ==
  ASSUME Shapes, NEW h \in Requests, DataStep(h)
  PROVE  /\ Shapes' /\ \A g \in Requests : SameControl(http'[g], http[g])
         /\ UNCHANGED <<curl, watch, woken, aborting, properties, raced>>
  <1>0. HasControl(http[h]) /\ DOMAIN http = Requests
    BY DEF Shapes
  <1>a. ASSUME NEW q, SameControl(q, http[h]), http' = [http EXCEPT ![h] = q]
        PROVE  Shapes' /\ \A g \in Requests : SameControl(http'[g], http[g])
    <2>1. HasControl(q)
      BY <1>a DEF SameControl
    <2>2. /\ Shapes' /\ http'[h] = q
          /\ \A g \in Requests \ {h} : http'[g] = http[g]
      BY <1>a, <2>1, OneChanges
    <2>3. \A g \in Requests : HasControl(http[g])
      BY DEF Shapes
    <2> QED
      BY <1>a, <2>2, <2>3 DEF SameControl
  <1>1. CASE ServerAnswers(h)
    <2> DEFINE body == Served(http[h], h)
               status == IF Ranged(http[h]) /\ HostOf[h] \in RangeServers THEN 206 ELSE 200
               q == [gotHeader(http[h], status, Len(body)) EXCEPT !.server = "sending",
                                                                  !.sent = body]
    <2>1. http' = [http EXCEPT ![h] = q]
      BY <1>1, Zenon DEF ServerAnswers
    <2>2. SameControl(q, http[h])
      <3> HIDE DEF body, status
      <3> QED
        BY <1>0, AnswerKeepsControl
    <2> QED
      BY <1>1, <1>a, <2>1, <2>2, Zenon DEF ServerAnswers
  <1>2. CASE BodyArrives(h)
    <2>1. PICK n \in 1..Len(http[h].sent) :
            LET rest == SubSeq(http[h].sent, n + 1, Len(http[h].sent))
            IN  http' = [http EXCEPT ![h] =
                  [write(http[h], SubSeq(http[h].sent, 1, n)) EXCEPT
                     !.sent = rest, !.server = IF rest = <<>> THEN "ok" ELSE "sending"]]
      BY <1>2, Zenon DEF BodyArrives
    <2> DEFINE rest == SubSeq(http[h].sent, n + 1, Len(http[h].sent))
               chunk == SubSeq(http[h].sent, 1, n)
               server == IF rest = <<>> THEN "ok" ELSE "sending"
               q == [write(http[h], chunk) EXCEPT !.sent = rest, !.server = server]
    <2>2. http' = [http EXCEPT ![h] = q]
      BY <2>1, Zenon
    <2>3. SameControl(q, http[h])
      <3> HIDE DEF rest, chunk, server
      <3> QED
        BY <1>0, WriteKeepsControl
    <2> QED
      BY <1>2, <1>a, <2>2, <2>3, Zenon DEF BodyArrives
  <1>3. CASE read(h)
    <2>1. PICK n \in 1..(FileLen - http[h].mUploadOffset) :
            http' = [http EXCEPT ![h].mUploadOffset = @ + n, ![h].server = "sending",
                       ![h].sent = @ \o [k \in 1..n |-> http[h].mUploadOffset + k - 1]]
      BY <1>3 DEF read
    <2> DEFINE q == [http[h] EXCEPT !.mUploadOffset = @ + n, !.server = "sending",
                       !.sent = @ \o [k \in 1..n |-> http[h].mUploadOffset + k - 1]]
    <2>2. SameControl(q, http[h])
      BY <1>0 DEF SameControl, HasControl
    <2>3. http' = [http EXCEPT ![h] = q]
      BY <2>1
    <2> QED
      BY <1>3, <1>a, <2>2, <2>3 DEF read
  <1>4. CASE UploadAccepted(h)
    <2>1. SameControl([http[h] EXCEPT !.server = "ok"], http[h])
      BY <1>0 DEF SameControl, HasControl
    <2>2. http' = [http EXCEPT ![h] = [http[h] EXCEPT !.server = "ok"]]
      BY <1>0, <1>4 DEF UploadAccepted
    <2> QED
      BY <1>4, <1>a, <2>1, <2>2 DEF UploadAccepted
  <1>5. CASE ExpectationFails(h)
    <2>1. SameControl([http[h] EXCEPT !.server = "417"], http[h])
      BY <1>0 DEF SameControl, HasControl
    <2>2. http' = [http EXCEPT ![h] = [http[h] EXCEPT !.server = "417"]]
      BY <1>0, <1>5 DEF ExpectationFails
    <2> QED
      BY <1>5, <1>a, <2>1, <2>2 DEF ExpectationFails
  <1>6. CASE TransferBreaks(h)
    <2>1. SameControl([http[h] EXCEPT !.server = "failed"], http[h])
      BY <1>0 DEF SameControl, HasControl
    <2>2. http' = [http EXCEPT ![h] = [http[h] EXCEPT !.server = "failed"]]
      BY <1>0, <1>6 DEF TransferBreaks
    <2> QED
      BY <1>6, <1>a, <2>1, <2>2 DEF TransferBreaks
  <1> QED
    BY <1>1, <1>2, <1>3, <1>4, <1>5, <1>6 DEF DataStep

-----------------------------------------------------------------------------
(* The operations keep the types *)

Control == {"NEW", "INPROGRESS", "FINISHED"}
Handles == {"none", "new", "added"}

HttpOK ==
  Shapes /\ \A h \in Requests : http[h].mState \in Control /\ http[h].handle \in Handles

(* A thread works on one request at a time. *)
CurlOK ==
  /\ curl \in [pc : {"select", "loop", "freed", "copied", "callback", "busy", "terminated"},
               h : SUBSET Requests, success : BOOLEAN]
  /\ \A g, h \in curl.h : g = h

AbortingOK ==
  /\ aborting \in [pc : {"idle", "copy", "callback", "busy"}, h : SUBSET Requests]
  /\ \A g, h \in aborting.h : g = h

Threads == {"client", "curl", "abort"}

InfoRecords ==
  [st : {"none", "lookup", "fetch", "create", "waiting", "erased"}, by : Threads, which : Nat,
   range : Ranges \cup {WholeFile}, httpreq : SUBSET Requests]

InfoOK ==
  /\ info \in [Infos -> InfoRecords]
  /\ \A i \in Infos : info[i].st = "create" => info[i].which < NumServices
StartingOK == starting \subseteq [h : Requests, by : Threads]

DtorOK ==
  dtor \in [pc : {"up", "collect", "abort", "wait", "asleep", "gone"},
            pendingDelete : SUBSET Requests]

AnswersOK == answers \in [Infos -> Nat]
RacedOK == raced \subseteq Requests

LayerOK == InfoOK /\ StartingOK /\ DtorOK /\ AnswersOK
CurlSideOK == HttpOK /\ CurlOK /\ AbortingOK /\ RacedOK
Types == LayerOK /\ CurlSideOK

(* The types used in the proofs imply the ones of the model. *)
LEMMA TypesAre == Types => TypeOK
  BY DEF Types, LayerOK, CurlSideOK, HttpOK, CurlOK, AbortingOK, InfoOK, InfoRecords,
         StartingOK, DtorOK,
         AnswersOK, RacedOK, Control, Handles, Threads, TypeOK

(* Each step of a callback that ends lets its thread go on. *)
LEMMA ReturnsTypes ==
  ASSUME CurlOK, AbortingOK, NEW by \in Threads, Returns(by)
  PROVE  CurlOK' /\ AbortingOK'
  BY DEF CurlOK, AbortingOK, Returns

(* What the steps do to the entry of a getData. *)
LEMMA GetDataInfo ==
  ASSUME InfoOK, NEW i \in Infos, NEW r \in Ranges, getData(i, r)
  PROVE  /\ InfoOK' /\ info[i].st = "none" /\ info'[i].st = "lookup"
         /\ info'[i].httpreq = info[i].httpreq
         /\ \A j \in Infos \ {i} : info'[j] = info[j]
  BY DEF getData, InfoOK, InfoRecords

(* gotServices begins with the first service. *)
LEMMA GotServicesInfo ==
  ASSUME InfoOK, NEW i \in Infos, gotServices(i)
  PROVE  /\ InfoOK' /\ info[i].st = "lookup" /\ info'[i].st = "fetch"
         /\ info'[i].which = 0 /\ info'[i].httpreq = info[i].httpreq
         /\ \A j \in Infos \ {i} : info'[j] = info[j]
  BY DEF gotServices, InfoOK, InfoRecords, Threads

(* The test of cleanup goes well, and the service is one of the list. *)
LEMMA TestCleanupInfo ==
  ASSUME InfoOK, NEW i \in Infos, TestCleanup(i)
  PROVE  /\ InfoOK' /\ info[i].st = "fetch" /\ info'[i].st = "create"
         /\ info'[i].which = info[i].which /\ info'[i].httpreq = info[i].httpreq
         /\ info'[i].range = info[i].range
         /\ \A j \in Infos \ {i} : info'[j] = info[j]
  BY DEF TestCleanup, InfoOK, InfoRecords

(* A service without a handler is passed over. *)
LEMMA NoHandlerInfo ==
  ASSUME InfoOK, NEW i \in Infos, NoHandler(i)
  PROVE  /\ InfoOK' /\ info[i].st = "create" /\ info'[i].st = "fetch"
         /\ info'[i].which = info[i].which + 1 /\ info'[i].httpreq = info[i].httpreq
         /\ \A j \in Infos \ {i} : info'[j] = info[j]
  BY DEF NoHandler, InfoOK, InfoRecords

(* Erasing an entry leaves the other entries and pendingDelete alone. *)
LEMMA EraseInfo ==
  ASSUME InfoOK, DtorOK, NEW i \in Infos, Erase(i)
  PROVE  /\ InfoOK' /\ DtorOK' /\ dtor'.pendingDelete = dtor.pendingDelete
         /\ info'[i].st = "erased" /\ info'[i].httpreq = {}
         /\ \A j \in Infos \ {i} : info'[j] = info[j]
  <1>1. DtorOK' /\ dtor'.pendingDelete = dtor.pendingDelete
    BY DEF Erase, DtorOK
  <1>2. /\ InfoOK' /\ info'[i].st = "erased" /\ info'[i].httpreq = {}
        /\ \A j \in Infos \ {i} : info'[j] = info[j]
    BY DEF Erase, InfoOK, InfoRecords
  <1> QED
    BY <1>1, <1>2

(* Arithmetic on the numbers of services. *)
LEMMA ServiceOrder ==
  ASSUME NEW k \in Services, NEW l \in Services
  PROVE  (l >= k + 1 => l > k) /\ ~(k > k) /\ k >= k
  BY NetworkAssumption DEF Services

(* A download is a request and no upload. *)
LEMMA RequestIsKnown ==
  ASSUME NEW i \in Infos, NEW k \in Services
  PROVE  RequestFor[i, k] \in Requests /\ RequestFor[i, k] \notin Uploads
  <1>1. <<i, k>> \in Infos \X (0..(NumServices - 1))
    BY DEF Services
  <1> QED
    BY <1>1, NetworkAssumption

(* Different attempts have different requests. *)
LEMMA RequestsDiffer ==
  ASSUME NEW i \in Infos, NEW k \in Services, NEW j \in Infos, NEW l \in Services,
         RequestFor[i, k] = RequestFor[j, l]
  PROVE  i = j /\ k = l
  <1>1. <<i, k>> \in Infos \X (0..(NumServices - 1)) /\ <<j, l>> \in Infos \X (0..(NumServices - 1))
    BY DEF Services
  <1>2. <<i, k>> = <<j, l>>
    BY <1>1, NetworkAssumption
  <1> QED
    BY <1>2

(* doFetch enters the new request in the entry before it is started. *)
LEMMA CreateInfo ==
  ASSUME InfoOK, NEW i \in Infos, CreateDownload(i)
  PROVE  /\ info[i].which \in Services /\ Current(i) \in Requests
         /\ InfoOK' /\ info[i].st = "create" /\ info'[i].st = "waiting"
         /\ info'[i].which = info[i].which /\ info'[i].httpreq = {Current(i)}
         /\ \A j \in Infos \ {i} : info'[j] = info[j]
  <1>1. info[i].which \in Services
    BY NetworkAssumption DEF CreateDownload, InfoOK, InfoRecords, Services
  <1>2. Current(i) \in Requests
    BY <1>1, RequestIsKnown DEF Current
  <1> QED
    BY <1>1, <1>2 DEF CreateDownload, InfoOK, InfoRecords

(* A callback ends for its thread, or goes on with the next service. *)
Leaves(by) ==
  /\ by = "curl" => /\ aborting' = aborting
                    /\ curl'.pc \in {"loop", "busy"} /\ curl'.h \subseteq curl.h
  /\ by = "abort" => /\ curl' = curl
                     /\ aborting'.pc \in {"idle", "busy"} /\ aborting'.h \subseteq aborting.h
  /\ by = "client" => curl' = curl /\ aborting' = aborting

(* A thread that returns has no callback left. *)
LEMMA ReturnsLeaves ==
  ASSUME CurlOK, AbortingOK, NEW by \in Threads, Returns(by)
  PROVE  Leaves(by)
  BY DEF CurlOK, AbortingOK, Returns, Leaves, Threads

(* A call is counted for one getData. *)
LEMMA CalledOnce ==
  ASSUME AnswersOK, NEW i \in Infos, Called(i)
  PROVE  /\ AnswersOK' /\ (answers[i] = 0 => answers'[i] = 1)
         /\ \A j \in Infos \ {i} : answers'[j] = answers[j]
  BY DEF AnswersOK, Called

(* What httpCallback does, whichever thread calls it. *)
LEMMA CallbackEffect ==
  ASSUME LayerOK, CurlOK, AbortingOK, NEW i \in Infos, NEW k \in Services,
         NEW by \in {"curl", "abort"}, NEW success \in BOOLEAN,
         httpCallback(i, k, by, success)
  PROVE  /\ InfoOK' /\ DtorOK' /\ AnswersOK' /\ CurlOK' /\ AbortingOK' /\ Leaves(by)
         /\ dtor'.pendingDelete = dtor.pendingDelete
         /\ info'[i].httpreq \subseteq info[i].httpreq
         /\ \A j \in Infos \ {i} : info'[j] = info[j] /\ answers'[j] = answers[j]
         /\ info[i].st \notin {"erased", "fetch", "create"} =>
              \/ info'[i].st = "erased" /\ (answers[i] = 0 => answers'[i] = 1)
              \/ info'[i].st = "fetch" /\ info'[i].which = k + 1 /\ answers'[i] = answers[i]
  <1>0. InfoOK /\ DtorOK /\ AnswersOK /\ by \in Threads
    BY DEF LayerOK, Threads
  <1>1. CASE info[i].st \in {"erased", "fetch", "create"}
    <2>1. Called(i) /\ Returns(by) /\ info' = info /\ dtor' = dtor
      BY <1>1 DEF httpCallback
    <2>2. CurlOK' /\ AbortingOK' /\ Leaves(by)
      BY <1>0, <2>1, ReturnsTypes, ReturnsLeaves
    <2>3. AnswersOK' /\ \A j \in Infos \ {i} : answers'[j] = answers[j]
      BY <1>0, <2>1, CalledOnce
    <2>4. InfoOK' /\ DtorOK'
      BY <1>0, <2>1 DEF InfoOK, DtorOK
    <2> QED
      BY <1>1, <2>1, <2>2, <2>3, <2>4
  <1>2. CASE info[i].st \notin {"erased", "fetch", "create"} /\ success
    <2>1. Called(i) /\ Returns(by) /\ Erase(i)
      BY <1>2 DEF httpCallback
    <2>2. CurlOK' /\ AbortingOK' /\ Leaves(by)
      BY <1>0, <2>1, ReturnsTypes, ReturnsLeaves
    <2>3. /\ AnswersOK' /\ (answers[i] = 0 => answers'[i] = 1)
          /\ \A j \in Infos \ {i} : answers'[j] = answers[j]
      BY <1>0, <2>1, CalledOnce
    <2>4. /\ InfoOK' /\ DtorOK' /\ dtor'.pendingDelete = dtor.pendingDelete
          /\ info'[i].st = "erased" /\ info'[i].httpreq = {}
          /\ \A j \in Infos \ {i} : info'[j] = info[j]
      BY <1>0, <2>1, EraseInfo
    <2> QED
      BY <2>2, <2>3, <2>4
  <1>3. CASE info[i].st \notin {"erased", "fetch", "create"} /\ ~success
    <2>1. /\ info' = [info EXCEPT ![i].st = "fetch", ![i].by = by, ![i].which = k + 1]
          /\ curl' = IF by = "curl" THEN [curl EXCEPT !.pc = "busy"] ELSE curl
          /\ aborting' = IF by = "abort" THEN [aborting EXCEPT !.pc = "busy"] ELSE aborting
          /\ dtor' = dtor /\ answers' = answers
      BY <1>3 DEF httpCallback
    <2>2. CurlOK' /\ AbortingOK'
      BY <2>1 DEF CurlOK, AbortingOK
    <2>3. Leaves(by)
      BY <2>1 DEF CurlOK, AbortingOK, Leaves
    <2>4. k + 1 \in Nat
      BY NetworkAssumption DEF Services
    <2>5. /\ InfoOK' /\ info'[i].st = "fetch" /\ info'[i].which = k + 1
          /\ info'[i].httpreq = info[i].httpreq
          /\ \A j \in Infos \ {i} : info'[j] = info[j]
      BY <1>0, <2>1, <2>4 DEF InfoOK, InfoRecords
    <2>6. AnswersOK' /\ DtorOK'
      BY <1>0, <2>1 DEF AnswersOK, DtorOK
    <2> QED
      BY <1>3, <2>1, <2>2, <2>3, <2>5, <2>6
  <1> QED
    BY <1>1, <1>2, <1>3

-----------------------------------------------------------------------------
(* What leaves a request alone *)

Started(r) == \E d \in starting : d.h = r
Listed(r) == r \in dtor.pendingDelete \/ \E j \in Infos : r \in info[j].httpreq

(* A step that takes the callback of r nowhere and shows r to nobody new. *)
QuietRequest(r) ==
  /\ http'[r].callback = http[r].callback
  /\ Idle(r) => Idle(r)'
  /\ http[r].handle = "none" => http'[r].handle = "none" \/ Started(r)

QuietThreads(r) ==
  /\ \/ curl' = curl
     \/ r \in curl'.h => r \in curl.h /\ curl'.pc \notin {"freed", "copied", "callback"}
  /\ \/ aborting' = aborting
     \/ r \in aborting'.h => r \in aborting.h /\ aborting'.pc \notin {"copy", "callback"}

QuietLists(r) == (Listed(r)' => Listed(r)) /\ (Started(r)' => Started(r))

Quiet(r) == QuietRequest(r) /\ QuietThreads(r) /\ QuietLists(r)

(* A quiet step keeps what is known of a request. *)
LEMMA QuietKeepsRequest ==
  ASSUME NEW r, RequestInv(r), Quiet(r)
  PROVE  RequestInv(r)' /\ (Pending(r)' => Pending(r))
  <1>1. (CurlHas(r)' => CurlHas(r)) /\ (AbortHas(r)' => AbortHas(r))
    BY DEF Quiet, QuietThreads, CurlHas, AbortHas
  <1>2. (CurlFinishes(r)' => CurlFinishes(r)) /\ (AbortAtWork(r)' => AbortAtWork(r))
    BY DEF Quiet, QuietThreads, CurlFinishes, AbortAtWork
  <1>3. (curl'.pc = "copied" /\ r \in curl'.h) => (curl.pc = "copied" /\ r \in curl.h)
    BY DEF Quiet, QuietThreads
  <1>4. (http'[r].callback <=> http[r].callback) /\ (Idle(r) => Idle(r)')
    BY Zenon DEF Quiet, QuietRequest
  <1>5. RequestInv(r)'
    BY <1>1, <1>2, <1>3, <1>4, Zenon DEF RequestInv
  <1>6. Pending(r)' => Pending(r)
    BY <1>1, <1>4, Zenon DEF Pending
  <1> QED
    BY <1>5, <1>6

(* A quiet step keeps what is known of an attempt, if its place does not change. *)
LEMMA QuietKeepsSlot ==
  ASSUME NEW i \in Infos, NEW k \in Services, SlotInv(i, k), raced \subseteq raced', early \subseteq early',
         Quiet(RequestFor[i, k]), IsFresh(i, k)' => IsFresh(i, k),
         IsCurrent(i, k) => IsCurrent(i, k)'
  PROVE  SlotInv(i, k)'
  <1> SUFFICES ASSUME NotRaced(i)'
               PROVE  /\ RequestInv(RequestFor[i, k])'
                      /\ Pending(RequestFor[i, k])' => IsCurrent(i, k)'
                      /\ IsFresh(i, k)' => Untouched(RequestFor[i, k])'
    BY DEF SlotInv
  <1>0. PICK r : r = RequestFor[i, k]
    OBVIOUS
  <1>1. NotRaced(i)
    BY DEF NotRaced
  <1>2. /\ RequestInv(r)
        /\ Pending(r) => IsCurrent(i, k)
        /\ IsFresh(i, k) => Untouched(r)
    BY <1>0, <1>1 DEF SlotInv
  <1>3. Quiet(r)
    BY <1>0
  <1>7. RequestInv(r)'
    BY <1>2, <1>3, QuietKeepsRequest
  <1>8. Pending(r)' => IsCurrent(i, k)'
    BY <1>2, <1>3, QuietKeepsRequest
  <1>9. ASSUME IsFresh(i, k)' PROVE Untouched(r)'
    <2>1. Untouched(r)
      BY <1>2, <1>9
    <2>2. ~Started(r) /\ ~Listed(r)
      BY <2>1 DEF Untouched, Started, Listed
    <2>3. ~Started(r)' /\ ~Listed(r)' /\ http'[r].handle = "none"
      BY <1>3, <2>1, <2>2 DEF Quiet, QuietRequest, QuietLists, Untouched
    <2>4. r \notin curl'.h /\ r \notin aborting'.h
      BY <1>3, <2>1 DEF Quiet, QuietThreads, Untouched
    <2> QED
      BY <2>3, <2>4 DEF Untouched, Started, Listed
  <1> QED
    BY <1>0, <1>7, <1>8, <1>9

(* A getData whose entry stays the same keeps its count and its place. *)
LEMMA SameEntry ==
  ASSUME NEW i \in Infos, info'[i] = info[i]
  PROVE  \A k \in Services : /\ IsFresh(i, k)' <=> IsFresh(i, k)
                             /\ IsCurrent(i, k)' <=> IsCurrent(i, k)
  BY DEF IsFresh, IsCurrent

(* The count stays right if neither the count nor the entry changes. *)
LEMMA SameCount ==
  ASSUME NEW i \in Infos, CountInv(i), info'[i] = info[i], answers'[i] = answers[i],
         raced \subseteq raced', early \subseteq early'
  PROVE  CountInv(i)'
  <1>1. NotRaced(i)' => NotRaced(i)
    BY DEF NotRaced
  <1> QED
    BY <1>1 DEF CountInv

Slots == \A i \in Infos : CountInv(i) /\ \A k \in Services : SlotInv(i, k)

(* A step that leaves every download alone. *)
LEMMA QuietStep ==
  ASSUME Slots, info' = info, answers' = answers, raced \subseteq raced', early \subseteq early',
         \A i \in Infos, k \in Services : Quiet(RequestFor[i, k])
  PROVE  Slots'
  <1> SUFFICES ASSUME NEW i \in Infos
               PROVE  CountInv(i)' /\ \A k \in Services : SlotInv(i, k)'
    BY DEF Slots
  <1>1. CountInv(i)'
    BY SameCount DEF Slots
  <1>2. ASSUME NEW k \in Services PROVE SlotInv(i, k)'
    <2>1. SlotInv(i, k) /\ Quiet(RequestFor[i, k])
      BY DEF Slots
    <2>2. (IsFresh(i, k)' => IsFresh(i, k)) /\ (IsCurrent(i, k) => IsCurrent(i, k)')
      BY SameEntry
    <2> QED
      BY <2>1, <2>2, QuietKeepsSlot
  <1> QED
    BY <1>1, <1>2

(* The three parts of Quiet, each from what an action does. *)
LEMMA ControlIsQuiet ==
  ASSUME NEW r, SameControl(http'[r], http[r])
  PROVE  QuietRequest(r)
  BY DEF SameControl, QuietRequest, Idle

(* A thread that ends its callback takes none with it. *)
LEMMA LeavesIsQuiet ==
  ASSUME NEW by \in Threads, Leaves(by), NEW r
  PROVE  QuietThreads(r)
  BY DEF Leaves, QuietThreads, Threads

(* Lists that shrink show no request to anybody. *)
LEMMA ListsAreQuiet ==
  ASSUME NEW r, starting' \subseteq starting, dtor'.pendingDelete \subseteq dtor.pendingDelete,
         \A j \in Infos : info'[j].httpreq \subseteq info[j].httpreq
  PROVE  QuietLists(r)
  BY DEF QuietLists, Listed, Started

(* An unchanged table has unchanged requests. *)
LEMMA SameHttp ==
  ASSUME Shapes, http' = http
  PROVE  \A g \in Requests : SameControl(http'[g], http[g])
  BY DEF Shapes, SameControl

(* Requests with the same control have the same types. *)
LEMMA SameTypes ==
  ASSUME HttpOK, Shapes', \A g \in Requests : SameControl(http'[g], http[g])
  PROVE  HttpOK'
  BY DEF HttpOK, SameControl

-----------------------------------------------------------------------------
(* The steps of doFetch *)

(* The entry of one getData moves on; no request is concerned. *)
LEMMA EntryMoves ==
  ASSUME Types, Slots, NEW i \in Infos, InfoOK',
         UNCHANGED <<http, curl, aborting, raced, early, starting, dtor, answers>>,
         info'[i].httpreq = info[i].httpreq,
         \A j \in Infos \ {i} : info'[j] = info[j],
         info[i].st # "erased", info[i].st # "waiting", info'[i].st # "erased",
         \A k \in Services : IsFresh(i, k)' => IsFresh(i, k)
  PROVE  Types' /\ Slots'
  <1>1. Types'
    BY DEF Types, LayerOK, CurlSideOK, HttpOK, Shapes, CurlOK, AbortingOK, RacedOK, StartingOK,
           DtorOK, AnswersOK
  <1>2. ASSUME NEW j \in Infos, NEW k \in Services PROVE Quiet(RequestFor[j, k])
    <2>1. RequestFor[j, k] \in Requests
      BY RequestIsKnown
    <2>2. QuietRequest(RequestFor[j, k])
      BY <2>1, SameHttp, ControlIsQuiet DEF Types, CurlSideOK, HttpOK
    <2>3. QuietThreads(RequestFor[j, k])
      BY DEF QuietThreads
    <2>4. QuietLists(RequestFor[j, k])
      BY ListsAreQuiet
    <2> QED
      BY <2>2, <2>3, <2>4 DEF Quiet
  <1>3. ASSUME NEW j \in Infos PROVE CountInv(j)'
    <2>1. CASE j = i
      BY <2>1 DEF Slots, CountInv, NotRaced
    <2>2. CASE j # i
      BY <2>2, SameCount DEF Slots
    <2> QED
      BY <2>1, <2>2
  <1>4. ASSUME NEW j \in Infos, NEW k \in Services PROVE SlotInv(j, k)'
    <2>1. SlotInv(j, k) /\ Quiet(RequestFor[j, k])
      BY <1>2 DEF Slots
    <2>2. IsFresh(j, k)' => IsFresh(j, k)
      BY SameEntry
    <2>3. IsCurrent(j, k) => IsCurrent(j, k)'
      BY SameEntry DEF IsCurrent
    <2> QED
      BY <2>1, <2>2, <2>3, QuietKeepsSlot
  <1> QED
    BY <1>1, <1>3, <1>4 DEF Slots

(* getData makes an entry; none of its requests exists yet. *)
LEMMA GetDataStep ==
  ASSUME Types, Slots, NEW i \in Infos, NEW r \in Ranges, getData(i, r)
  PROVE  Types' /\ Slots'
  <1>1. /\ InfoOK' /\ info[i].st = "none" /\ info'[i].st = "lookup"
        /\ info'[i].httpreq = info[i].httpreq
        /\ \A j \in Infos \ {i} : info'[j] = info[j]
    BY GetDataInfo DEF Types, LayerOK
  <1>2. UNCHANGED <<http, curl, aborting, raced, early, starting, dtor, answers>>
    BY DEF getData, httpVars, ghosts
  <1>3. \A k \in Services : IsFresh(i, k)' => IsFresh(i, k)
    BY <1>1 DEF IsFresh
  <1> QED
    BY <1>1, <1>2, <1>3, EntryMoves

(* gotServices keeps the invariant. *)
LEMMA GotServicesStep ==
  ASSUME Types, Slots, NEW i \in Infos, gotServices(i)
  PROVE  Types' /\ Slots'
  <1>1. /\ InfoOK' /\ info[i].st = "lookup" /\ info'[i].st = "fetch"
        /\ info'[i].httpreq = info[i].httpreq
        /\ \A j \in Infos \ {i} : info'[j] = info[j]
    BY GotServicesInfo DEF Types, LayerOK
  <1>2. UNCHANGED <<http, curl, aborting, raced, early, starting, dtor, answers>>
    BY DEF gotServices, httpVars, ghosts
  <1>3. \A k \in Services : IsFresh(i, k)' => IsFresh(i, k)
    BY <1>1 DEF IsFresh
  <1> QED
    BY <1>1, <1>2, <1>3, EntryMoves

(* The test of cleanup keeps the invariant. *)
LEMMA TestCleanupStep ==
  ASSUME Types, Slots, NEW i \in Infos, TestCleanup(i)
  PROVE  Types' /\ Slots'
  <1>1. /\ InfoOK' /\ info[i].st = "fetch" /\ info'[i].st = "create"
        /\ info'[i].which = info[i].which /\ info'[i].httpreq = info[i].httpreq
        /\ \A j \in Infos \ {i} : info'[j] = info[j]
    BY TestCleanupInfo DEF Types, LayerOK
  <1>2. UNCHANGED <<http, curl, aborting, raced, early, starting, dtor, answers>>
    BY DEF TestCleanup, httpVars, ghosts
  <1>3. \A k \in Services : IsFresh(i, k)' => IsFresh(i, k)
    BY <1>1 DEF IsFresh
  <1> QED
    BY <1>1, <1>2, <1>3, EntryMoves

(* A service that is passed over keeps the invariant. *)
LEMMA NoHandlerStep ==
  ASSUME Types, Slots, NEW i \in Infos, NoHandler(i)
  PROVE  Types' /\ Slots'
  <1>1. /\ InfoOK' /\ info[i].st = "create" /\ info'[i].st = "fetch"
        /\ info'[i].which = info[i].which + 1 /\ info'[i].httpreq = info[i].httpreq
        /\ \A j \in Infos \ {i} : info'[j] = info[j]
    BY NoHandlerInfo DEF Types, LayerOK
  <1>2. UNCHANGED <<http, curl, aborting, raced, early, starting, dtor, answers>>
    BY DEF NoHandler, httpVars, ghosts
  <1>3. info[i].which \in Nat
    BY DEF Types, LayerOK, InfoOK, InfoRecords
  <1>4. \A k \in Services : k >= info[i].which + 1 => k >= info[i].which
    BY <1>3, NetworkAssumption DEF Services
  <1>5. \A k \in Services : IsFresh(i, k)' => IsFresh(i, k)
    BY <1>1, <1>4 DEF IsFresh
  <1> QED
    BY <1>1, <1>2, <1>5, EntryMoves

(* doFetch gives up between two requests, when no callback is left. *)
LEMMA GiveUpStep ==
  ASSUME Types, Slots, NEW i \in Infos, GiveUp(i)
  PROVE  Types' /\ Slots'
  <1>0. /\ InfoOK /\ DtorOK /\ AnswersOK /\ StartingOK /\ HttpOK /\ Shapes
        /\ CurlOK /\ AbortingOK /\ RacedOK
    BY DEF Types, LayerOK, CurlSideOK, HttpOK
  <1>1. /\ info[i].st = "fetch" /\ Called(i) /\ Erase(i) /\ Returns(info[i].by)
        /\ UNCHANGED <<http, raced, early, starting>>
    BY DEF GiveUp
  <1>2. info[i].by \in Threads
    BY <1>0 DEF InfoOK, InfoRecords
  <1>3. CurlOK' /\ AbortingOK' /\ Leaves(info[i].by)
    BY <1>0, <1>1, <1>2, ReturnsTypes, ReturnsLeaves
  <1>4. /\ InfoOK' /\ DtorOK' /\ dtor'.pendingDelete = dtor.pendingDelete
        /\ info'[i].st = "erased" /\ info'[i].httpreq = {}
        /\ \A j \in Infos \ {i} : info'[j] = info[j]
    BY <1>0, <1>1, EraseInfo
  <1>5. /\ AnswersOK' /\ (answers[i] = 0 => answers'[i] = 1)
        /\ \A j \in Infos \ {i} : answers'[j] = answers[j]
    BY <1>0, <1>1, CalledOnce
  <1>6. HttpOK' /\ RacedOK' /\ StartingOK'
    BY <1>0, <1>1 DEF HttpOK, Shapes, RacedOK, StartingOK
  <1>7. ASSUME NEW j \in Infos, NEW k \in Services PROVE Quiet(RequestFor[j, k])
    <2>1. QuietRequest(RequestFor[j, k])
      BY <1>0, <1>1, SameHttp, ControlIsQuiet, RequestIsKnown
    <2>2. QuietThreads(RequestFor[j, k])
      BY <1>2, <1>3, LeavesIsQuiet
    <2>3. \A l \in Infos : info'[l].httpreq \subseteq info[l].httpreq
      BY <1>4
    <2>4. QuietLists(RequestFor[j, k])
      BY <1>1, <1>4, <2>3, ListsAreQuiet
    <2> QED
      BY <2>1, <2>2, <2>4 DEF Quiet
  <1>8. ASSUME NEW j \in Infos PROVE CountInv(j)'
    <2>1. CASE j = i
      <3>1. answers[i] \in Nat
        BY <1>0 DEF AnswersOK
      <3>2. NotRaced(i) => answers[i] <= 0
        BY <1>1 DEF Slots, CountInv
      <3>3. NotRaced(i)' => NotRaced(i)
        BY <1>1 DEF NotRaced
      <3>4. NotRaced(i) => answers'[i] <= 1
        BY <1>5, <3>1, <3>2
      <3> QED
        BY <1>4, <2>1, <3>3, <3>4 DEF CountInv
    <2>2. CASE j # i
      BY <1>1, <1>4, <1>5, <2>2, SameCount DEF Slots
    <2> QED
      BY <2>1, <2>2
  <1>9. ASSUME NEW j \in Infos, NEW k \in Services PROVE SlotInv(j, k)'
    <2>1. SlotInv(j, k) /\ Quiet(RequestFor[j, k])
      BY <1>7 DEF Slots
    <2>2. IsFresh(j, k)' => IsFresh(j, k)
      BY <1>4, SameEntry DEF IsFresh
    <2>3. IsCurrent(j, k) => IsCurrent(j, k)'
      BY <1>1, <1>4, SameEntry DEF IsCurrent
    <2> QED
      BY <1>1, <2>1, <2>2, <2>3, QuietKeepsSlot
  <1> QED
    BY <1>3, <1>4, <1>5, <1>6, <1>8, <1>9 DEF Slots, Types, LayerOK, CurlSideOK

(* The request for the current service is made; nobody had heard of it. *)
LEMMA CreateDownloadStep ==
  ASSUME Types, Slots, NEW i \in Infos, CreateDownload(i)
  PROVE  Types' /\ Slots'
  <1>0. /\ InfoOK /\ DtorOK /\ AnswersOK /\ StartingOK /\ HttpOK /\ Shapes
        /\ CurlOK /\ AbortingOK /\ RacedOK
    BY DEF Types, LayerOK, CurlSideOK, HttpOK
  <1>1. PICK w \in Services : w = info[i].which
    BY <1>0, CreateInfo
  <1>2. PICK h \in Requests : h = RequestFor[i, w]
    BY <1>1, RequestIsKnown
  <1>3. Current(i) = h
    BY <1>1, <1>2 DEF Current
  <1>4. /\ http' = [http EXCEPT ![h] = NewRequest(info[i].range, FALSE)]
        /\ starting' = starting \cup {[h |-> h, by |-> info[i].by]}
        /\ UNCHANGED <<curl, aborting, raced, early, dtor, answers>>
    BY <1>3 DEF CreateDownload, ghosts
  <1>5. /\ InfoOK' /\ info[i].st = "create" /\ info'[i].st = "waiting"
        /\ info'[i].which = w /\ info'[i].httpreq = {h}
        /\ \A j \in Infos \ {i} : info'[j] = info[j]
    BY <1>0, <1>1, <1>3, CreateInfo
  <1>6. /\ Shapes' /\ http'[h].mState = "NEW" /\ http'[h].handle = "new"
        /\ \A g \in Requests \ {h} : http'[g] = http[g]
    <2>1. PICK q : q = NewRequest(info[i].range, FALSE)
      OBVIOUS
    <2>2. HasControl(q) /\ q.mState = "NEW" /\ q.handle = "new"
      BY <2>1, NewControl
    <2>3. http' = [http EXCEPT ![h] = q]
      BY <1>4, <2>1
    <2> QED
      BY <1>0, <2>2, <2>3, OneChanges
  <1>7. HttpOK'
    <2>1. ASSUME NEW g \in Requests PROVE http'[g].mState \in Control /\ http'[g].handle \in Handles
      BY <1>0, <1>6 DEF HttpOK, Control, Handles
    <2> QED
      BY <1>6, <2>1 DEF HttpOK
  <1>8. info[i].by \in Threads
    BY <1>0 DEF InfoOK, InfoRecords
  <1>9. Types'
    BY <1>0, <1>4, <1>5, <1>7, <1>8 DEF Types, LayerOK, CurlSideOK, StartingOK, DtorOK,
       AnswersOK, CurlOK, AbortingOK, RacedOK
  <1>10. ASSUME NEW j \in Infos, NEW k \in Services, RequestFor[j, k] # h
         PROVE  Quiet(RequestFor[j, k])
    <2>1. PICK r \in Requests : r = RequestFor[j, k]
      BY RequestIsKnown
    <2>2. SameControl(http'[r], http[r])
      BY <1>0, <1>6, <1>10, <2>1 DEF Shapes, SameControl
    <2>3. QuietRequest(r)
      BY <2>2, ControlIsQuiet
    <2>4. QuietThreads(r)
      BY <1>4 DEF QuietThreads
    <2>5. Listed(r)' => Listed(r)
      BY <1>4, <1>5, <1>10, <2>1 DEF Listed
    <2>6. ASSUME Started(r)' PROVE Started(r)
      <3>1. PICK e \in starting' : e.h = r
        BY <2>6 DEF Started
      <3>2. e # [h |-> h, by |-> info[i].by]
        <4>1. [h |-> h, by |-> info[i].by].h = h
          OBVIOUS
        <4>2. r # h
          BY <1>10, <2>1
        <4> QED
          BY <3>1, <4>1, <4>2
      <3> QED
        BY <1>4, <3>1, <3>2 DEF Started
    <2> QED
      BY <2>1, <2>3, <2>4, <2>5, <2>6 DEF Quiet, QuietLists
  <1>11. ASSUME NEW j \in Infos PROVE CountInv(j)'
    <2>1. CASE j = i
      BY <1>4, <1>5, <2>1 DEF Slots, CountInv, NotRaced
    <2>2. CASE j # i
      BY <1>4, <1>5, <2>2, SameCount DEF Slots
    <2> QED
      BY <2>1, <2>2
  <1>12. ASSUME NEW j \in Infos, NEW k \in Services, RequestFor[j, k] # h
         PROVE  SlotInv(j, k)'
    <2>1. SlotInv(j, k) /\ Quiet(RequestFor[j, k])
      BY <1>10, <1>12 DEF Slots
    <2>2. w \in Int /\ k \in Int
      BY NetworkAssumption DEF Services
    <2>3. k > w => k >= w
      BY <2>2
    <2>4. IsFresh(j, k)' => IsFresh(j, k)
      BY <1>1, <1>5, <2>3, SameEntry DEF IsFresh
    <2>5. IsCurrent(j, k) => IsCurrent(j, k)'
      BY <1>5, SameEntry DEF IsCurrent
    <2> QED
      BY <1>4, <2>1, <2>4, <2>5, QuietKeepsSlot
  <1>13. ASSUME NotRaced(i)' PROVE SlotInv(i, w)'
    <2>1. NotRaced(i)
      BY <1>4, <1>13 DEF NotRaced
    <2>2. w \in Int
      BY NetworkAssumption DEF Services
    <2>3. IsFresh(i, w)
      BY <1>1, <1>5, <2>2 DEF IsFresh
    <2>4. Untouched(h)
      BY <1>2, <2>1, <2>3 DEF Slots, SlotInv
    <2>5. h \notin curl'.h /\ h \notin aborting'.h
      BY <1>4, <2>4 DEF Untouched
    <2>6. RequestInv(h)'
      BY <2>5, Zenon DEF RequestInv, CurlHas, AbortHas, CurlFinishes, AbortAtWork
    <2>7. IsCurrent(i, w)'
      BY <1>5 DEF IsCurrent
    <2>8. ~IsFresh(i, w)'
      BY <1>5, <2>2 DEF IsFresh
    <2> QED
      BY <1>2, <2>6, <2>7, <2>8 DEF SlotInv
  <1>14. ASSUME NEW j \in Infos, NEW k \in Services PROVE SlotInv(j, k)'
    <2>1. CASE RequestFor[j, k] = h
      <3>1. j = i
        BY <1>2, <2>1, RequestsDiffer
      <3>2. k = w
        <4>1. /\ <<i, k>> \in Infos \X (0..(NumServices - 1))
              /\ <<i, w>> \in Infos \X (0..(NumServices - 1))
          BY <1>1 DEF Services
        <4>2. RequestFor[<<i, k>>] = RequestFor[<<i, w>>]
          BY <1>2, <2>1, <3>1
        <4>3. <<i, k>> = <<i, w>>
          BY <4>1, <4>2, NetworkAssumption
        <4> QED
          BY <4>3
      <3>3. SlotInv(i, w)'
        BY <1>13 DEF SlotInv
      <3> QED
        BY <3>1, <3>2, <3>3
    <2>2. CASE RequestFor[j, k] # h
      BY <1>12, <2>2
    <2> QED
      BY <2>1, <2>2
  <1> QED
    BY <1>9, <1>11, <1>14 DEF Slots

(* go() keeps the callback where it is. *)
LEMMA StartDownloadStep ==
  ASSUME Types, Slots, NEW d \in starting, StartDownload(d)
  PROVE  Types' /\ Slots'
  <1>0. /\ InfoOK /\ DtorOK /\ AnswersOK /\ StartingOK /\ HttpOK /\ Shapes
        /\ CurlOK /\ AbortingOK /\ RacedOK
    BY DEF Types, LayerOK, CurlSideOK, HttpOK
  <1>1. d.h \in Requests /\ d.by \in Threads
    BY <1>0 DEF StartingOK
  <1>2. PICK h \in Requests : h = d.h
    BY <1>1
  <1>3. /\ http[h].mState = "NEW" /\ http' = [http EXCEPT ![h] = Added(http[h], h, properties)]
        /\ starting' \subseteq starting /\ Returns(d.by)
        /\ UNCHANGED <<raced, early, info, dtor, answers>>
    BY <1>2 DEF StartDownload, go, CanGo, ghosts
  <1>4. HasControl(http[h])
    BY <1>0 DEF Shapes
  <1>5. /\ HasControl(Added(http[h], h, properties))
        /\ Added(http[h], h, properties).mState = "INPROGRESS"
        /\ Added(http[h], h, properties).handle = "added"
        /\ Added(http[h], h, properties).callback = http[h].callback
    BY <1>4, AddedControl
  <1>6. /\ Shapes' /\ http'[h].mState = "INPROGRESS" /\ http'[h].handle = "added"
        /\ http'[h].callback = http[h].callback
        /\ \A g \in Requests \ {h} : http'[g] = http[g]
    BY <1>0, <1>3, <1>5, OneChanges
  <1>7. HttpOK'
    <2>1. ASSUME NEW g \in Requests PROVE http'[g].mState \in Control /\ http'[g].handle \in Handles
      BY <1>0, <1>6 DEF HttpOK, Control, Handles
    <2> QED
      BY <1>6, <2>1 DEF HttpOK
  <1>8. CurlOK' /\ AbortingOK' /\ Leaves(d.by)
    BY <1>0, <1>1, <1>3, ReturnsTypes, ReturnsLeaves
  <1>9. Types'
    BY <1>0, <1>3, <1>7, <1>8 DEF Types, LayerOK, CurlSideOK, InfoOK, StartingOK, DtorOK,
       AnswersOK, RacedOK
  <1>10. ASSUME NEW j \in Infos, NEW k \in Services PROVE Quiet(RequestFor[j, k])
    <2>1. PICK r \in Requests : r = RequestFor[j, k]
      BY RequestIsKnown
    <2>4. QuietThreads(r)
      BY <1>1, <1>8, LeavesIsQuiet
    <2>5. QuietLists(r)
      BY <1>3, ListsAreQuiet
    <2>6. QuietRequest(r) => Quiet(r)
      BY <2>4, <2>5 DEF Quiet
    <2>7. QuietRequest(r)
      <3>1. CASE r = h
        <4>1. ~Idle(r)
          BY <1>3, <3>1 DEF Idle
        <4>2. Started(r)
          BY <1>2, <3>1 DEF Started
        <4> QED
          BY <1>6, <3>1, <4>1, <4>2 DEF QuietRequest
      <3>2. CASE r # h
        <4>1. SameControl(http'[r], http[r])
          BY <1>0, <1>6, <3>2 DEF Shapes, SameControl
        <4> QED
          BY <4>1, ControlIsQuiet
      <3> QED
        BY <3>1, <3>2
    <2> QED
      BY <2>1, <2>6, <2>7
  <1> QED
    BY <1>3, <1>9, <1>10, QuietStep

(* go() that throws leaves the callback where it is. *)
LEMMA GoThrowsStep ==
  ASSUME Types, Slots, NEW d \in starting, GoThrows(d)
  PROVE  Types' /\ Slots'
  <1>0. /\ InfoOK /\ DtorOK /\ AnswersOK /\ StartingOK /\ HttpOK /\ Shapes
        /\ CurlOK /\ AbortingOK /\ RacedOK
    BY DEF Types, LayerOK, CurlSideOK, HttpOK
  <1>1. d.by \in Threads
    BY <1>0 DEF StartingOK
  <1>2. /\ starting' \subseteq starting
        /\ curl' = curl \/ curl' = [curl EXCEPT !.pc = "terminated"]
        /\ UNCHANGED <<http, aborting, raced, early, info, dtor, answers>>
    BY DEF GoThrows, ghosts
  <1>3. /\ CurlOK' /\ AbortingOK'
        /\ curl' = curl \/ (curl'.h = curl.h /\ curl'.pc = "terminated")
    BY <1>0, <1>2 DEF CurlOK, AbortingOK
  <1>4. Types'
    BY <1>0, <1>2, <1>3 DEF Types, LayerOK, CurlSideOK, HttpOK, Shapes, InfoOK, StartingOK,
       DtorOK, AnswersOK, RacedOK
  <1>5. ASSUME NEW j \in Infos, NEW k \in Services PROVE Quiet(RequestFor[j, k])
    <2>1. QuietRequest(RequestFor[j, k])
      BY <1>0, <1>2, SameHttp, ControlIsQuiet, RequestIsKnown
    <2>2. QuietThreads(RequestFor[j, k])
      BY <1>2, <1>3 DEF QuietThreads
    <2>3. QuietLists(RequestFor[j, k])
      BY <1>2, ListsAreQuiet
    <2> QED
      BY <2>1, <2>2, <2>3 DEF Quiet
  <1> QED
    BY <1>2, <1>4, <1>5, QuietStep

-----------------------------------------------------------------------------
(* The steps that leave all callbacks where they are *)

(* A step that changes no entry: Types are preserved apart, and the lists of *)
(* requests only shrink.                                                     *)
LEMMA CalmStep ==
  ASSUME Types, Slots, UNCHANGED <<info, starting, answers, raced, early>>,
         dtor'.pendingDelete \subseteq dtor.pendingDelete,
         \A i \in Infos, k \in Services :
           QuietRequest(RequestFor[i, k]) /\ QuietThreads(RequestFor[i, k])
  PROVE  Slots'
  <1>1. ASSUME NEW i \in Infos, NEW k \in Services PROVE Quiet(RequestFor[i, k])
    <2>1. QuietLists(RequestFor[i, k])
      BY ListsAreQuiet
    <2> QED
      BY <2>1 DEF Quiet
  <1> QED
    BY <1>1, QuietStep

(* select() has no request in its hands. *)
LEMMA SelectStep ==
  ASSUME Types, Slots, (Select \/ SelectReturns) /\ NetworkOnly
  PROVE  Types' /\ Slots'
  <1>0. CurlOK /\ Shapes
    BY DEF Types, CurlSideOK, HttpOK
  <1>1. UNCHANGED <<http, aborting, raced, early, info, starting, dtor, answers>>
    BY DEF Select, SelectReturns, NetworkOnly, ghosts
  <1>2. \/ curl' = [curl EXCEPT !.pc = "select"]
        \/ curl' = [curl EXCEPT !.pc = "loop"]
    BY DEF Select, SelectReturns
  <1>3. CurlOK' /\ curl'.h = curl.h /\ curl'.pc \in {"select", "loop"}
    BY <1>0, <1>2 DEF CurlOK
  <1>4. Types'
    BY <1>1, <1>3 DEF Types, LayerOK, CurlSideOK, HttpOK, Shapes, InfoOK, StartingOK, DtorOK,
       AnswersOK, RacedOK, AbortingOK
  <1>5. ASSUME NEW i \in Infos, NEW k \in Services
        PROVE  QuietRequest(RequestFor[i, k]) /\ QuietThreads(RequestFor[i, k])
    <2>1. QuietRequest(RequestFor[i, k])
      BY <1>0, <1>1, SameHttp, ControlIsQuiet, RequestIsKnown
    <2>2. QuietThreads(RequestFor[i, k])
      BY <1>1, <1>3 DEF QuietThreads
    <2> QED
      BY <2>1, <2>2
  <1> QED
    BY <1>1, <1>4, <1>5, CalmStep

(* The data of a transfer keeps the invariant. *)
LEMMA DataStepStep ==
  ASSUME Types, Slots, NEW h \in Requests, DataStep(h), NetworkOnly
  PROVE  Types' /\ Slots'
  <1>0. Shapes /\ HttpOK
    BY DEF Types, CurlSideOK, HttpOK
  <1>1. UNCHANGED <<info, starting, dtor, answers, early>>
    BY DEF NetworkOnly, ghosts
  <1>2. /\ Shapes' /\ \A g \in Requests : SameControl(http'[g], http[g])
        /\ UNCHANGED <<curl, aborting, raced>>
    BY <1>0, DataStepKeepsControl
  <1>3. HttpOK'
    BY <1>0, <1>2, SameTypes
  <1>4. Types'
    BY <1>1, <1>2, <1>3 DEF Types, LayerOK, CurlSideOK, InfoOK, StartingOK, DtorOK,
       AnswersOK, RacedOK, AbortingOK, CurlOK
  <1>5. ASSUME NEW i \in Infos, NEW k \in Services
        PROVE  QuietRequest(RequestFor[i, k]) /\ QuietThreads(RequestFor[i, k])
    <2>1. QuietRequest(RequestFor[i, k])
      BY <1>2, ControlIsQuiet, RequestIsKnown
    <2>2. QuietThreads(RequestFor[i, k])
      BY <1>2 DEF QuietThreads
    <2> QED
      BY <2>1, <2>2
  <1> QED
    BY <1>1, <1>2, <1>4, <1>5, CalmStep

(* A retry after 417 is the same request with the same callback. *)
LEMMA RestartIsQuiet ==
  ASSUME Types, NEW h \in Requests, Restart(h)
  PROVE  /\ HttpOK' /\ UNCHANGED <<curl, aborting, raced>>
         /\ \A i \in Infos, k \in Services :
              QuietRequest(RequestFor[i, k]) /\ QuietThreads(RequestFor[i, k])
  <1>0. Shapes /\ HttpOK /\ HasControl(http[h])
    BY DEF Types, CurlSideOK, HttpOK, Shapes
  <1>1. UNCHANGED <<curl, aborting, raced>>
    BY DEF Restart
  <1>2. PICK q : q = Added(initCurlHandle(http[h]), h, properties')
    OBVIOUS
  <1>3. http' = [http EXCEPT ![h] = q] /\ http[h].handle = "added"
    BY <1>2 DEF Restart, Over, Performing
  <1>4. PICK p : p = initCurlHandle(http[h])
    OBVIOUS
  <1>5. HasControl(p) /\ p.callback = http[h].callback
    BY <1>0, <1>4, RestartedControl
  <1>6. /\ HasControl(q) /\ q.mState = "INPROGRESS" /\ q.handle = "added"
        /\ q.callback = http[h].callback
    BY <1>2, <1>4, <1>5, AddedControl
  <1>7. /\ Shapes' /\ http'[h] = q
        /\ \A g \in Requests \ {h} : http'[g] = http[g]
    BY <1>0, <1>3, <1>6, OneChanges
  <1>8. HttpOK'
    <2>1. ASSUME NEW g \in Requests PROVE http'[g].mState \in Control /\ http'[g].handle \in Handles
      BY <1>0, <1>6, <1>7 DEF HttpOK, Control, Handles
    <2> QED
      BY <1>7, <2>1 DEF HttpOK
  <1>10. ASSUME NEW i \in Infos, NEW k \in Services
         PROVE  QuietRequest(RequestFor[i, k]) /\ QuietThreads(RequestFor[i, k])
    <2>1. PICK r \in Requests : r = RequestFor[i, k]
      BY RequestIsKnown
    <2>4. QuietRequest(r)
      <3>1. CASE r = h
        BY <1>3, <1>6, <1>7, <3>1 DEF QuietRequest, Idle
      <3>2. CASE r # h
        <4>1. SameControl(http'[r], http[r])
          BY <1>0, <1>7, <3>2 DEF Shapes, SameControl
        <4> QED
          BY <4>1, ControlIsQuiet
      <3> QED
        BY <3>1, <3>2
    <2>5. QuietThreads(r)
      BY <1>1 DEF QuietThreads
    <2> QED
      BY <2>1, <2>4, <2>5
  <1> QED
    BY <1>1, <1>8, <1>10

(* A retry that calls nobody changes no entry. *)
LEMMA RetryStep ==
  ASSUME Types, Slots, NEW h \in Requests, Retry(h), NetworkOnly
  PROVE  Types' /\ Slots'
  <1>1. UNCHANGED <<info, starting, dtor, answers, early>> /\ Restart(h)
    BY DEF NetworkOnly, ghosts, Retry
  <1>2. /\ HttpOK' /\ UNCHANGED <<curl, aborting, raced>>
        /\ \A i \in Infos, k \in Services :
             QuietRequest(RequestFor[i, k]) /\ QuietThreads(RequestFor[i, k])
    BY <1>1, RestartIsQuiet
  <1>3. Types'
    BY <1>1, <1>2 DEF Types, LayerOK, CurlSideOK, InfoOK, StartingOK, DtorOK,
       AnswersOK, RacedOK, AbortingOK, CurlOK
  <1> QED
    BY <1>1, <1>2, <1>3, CalmStep

(* A retry that calls back: of its getData nothing is claimed any more. *)
LEMMA RetryCallsBackStep ==
  ASSUME Types, Slots, NEW i \in Infos, NEW k \in Services, RetryCallsBack(i, k)
  PROVE  Types' /\ Slots'
  <1>0. InfoOK /\ DtorOK /\ AnswersOK /\ StartingOK
    BY DEF Types, LayerOK
  <1>1. /\ Restart(RequestFor[i, k]) /\ RequestFor[i, k] \in Requests
        /\ Called(i) /\ Erase(i) /\ starting' = starting /\ early' = early \cup {i}
    BY RequestIsKnown DEF RetryCallsBack
  <1>2. /\ HttpOK' /\ UNCHANGED <<curl, aborting, raced>>
        /\ \A j \in Infos, l \in Services :
             QuietRequest(RequestFor[j, l]) /\ QuietThreads(RequestFor[j, l])
    BY <1>1, RestartIsQuiet
  <1>3. AnswersOK' /\ \A j \in Infos \ {i} : answers'[j] = answers[j]
    BY <1>0, <1>1, CalledOnce
  <1>4. /\ InfoOK' /\ DtorOK' /\ dtor'.pendingDelete = dtor.pendingDelete
        /\ \A j \in Infos \ {i} : info'[j] = info[j]
        /\ info'[i].httpreq = {}
    BY <1>0, <1>1, EraseInfo
  <1>5. Types'
    BY <1>1, <1>2, <1>3, <1>4 DEF Types, LayerOK, CurlSideOK, StartingOK, RacedOK,
       AbortingOK, CurlOK
  <1>6. ASSUME NEW j \in Infos PROVE CountInv(j)'
    <2>1. CASE j = i
      BY <1>1, <2>1 DEF CountInv, NotRaced
    <2>2. CASE j # i
      BY <1>1, <1>2, <1>3, <1>4, <2>2, SameCount DEF Slots
    <2> QED
      BY <2>1, <2>2
  <1>7. ASSUME NEW j \in Infos, NEW l \in Services PROVE SlotInv(j, l)'
    <2>1. CASE j = i
      BY <1>1, <2>1 DEF SlotInv, NotRaced
    <2>2. CASE j # i
      <3>1. QuietLists(RequestFor[j, l])
        BY <1>1, <1>4, ListsAreQuiet
      <3>2. Quiet(RequestFor[j, l]) /\ SlotInv(j, l)
        BY <1>2, <3>1 DEF Quiet, Slots
      <3>3. (IsFresh(j, l)' => IsFresh(j, l)) /\ (IsCurrent(j, l) => IsCurrent(j, l)')
        BY <1>4, <2>2, SameEntry
      <3> QED
        BY <1>1, <1>2, <3>2, <3>3, QuietKeepsSlot
    <2> QED
      BY <2>1, <2>2
  <1> QED
    BY <1>5, <1>6, <1>7 DEF Slots

(* Uploads are other requests. *)
LEMMA UploadCallsStep ==
  ASSUME Types, Slots, NEW u \in Uploads, UploadCalls(u)
  PROVE  Types' /\ Slots'
  <1>0. Shapes /\ HttpOK /\ CurlOK /\ AbortingOK /\ u \in Requests /\ "curl" \in Threads
    BY NetworkAssumption DEF Types, CurlSideOK, HttpOK, Threads
  <1>1. /\ UNCHANGED <<info, starting, dtor, answers, raced, early>> /\ Returns("curl")
        /\ http' = [http EXCEPT ![u] = Dropped(http[u])]
    BY DEF UploadCalls
  <1>2. SameControl(Dropped(http[u]), http[u])
    BY <1>0, DroppedKeepsControl DEF Shapes
  <1>3. /\ Shapes' /\ http'[u] = Dropped(http[u])
        /\ \A g \in Requests \ {u} : http'[g] = http[g]
    BY <1>0, <1>1, <1>2, OneChanges DEF SameControl
  <1>4. \A g \in Requests : SameControl(http'[g], http[g])
    BY <1>0, <1>2, <1>3 DEF SameControl, Shapes
  <1>5. HttpOK'
    BY <1>0, <1>3, <1>4, SameTypes
  <1>6. CurlOK' /\ AbortingOK' /\ Leaves("curl")
    BY <1>0, <1>1, ReturnsTypes, ReturnsLeaves
  <1>7. Types'
    BY <1>1, <1>5, <1>6 DEF Types, LayerOK, CurlSideOK, InfoOK, StartingOK, DtorOK,
       AnswersOK, RacedOK
  <1>8. ASSUME NEW i \in Infos, NEW k \in Services
        PROVE  QuietRequest(RequestFor[i, k]) /\ QuietThreads(RequestFor[i, k])
    BY <1>0, <1>4, <1>6, ControlIsQuiet, LeavesIsQuiet, RequestIsKnown
  <1> QED
    BY <1>1, <1>7, <1>8, CalmStep

(* A new upload is none of the requests of a getData. *)
LEMMA CreateUploadStep ==
  ASSUME Types, Slots, NEW u \in Uploads, CreateUpload(u)
  PROVE  Types' /\ Slots'
  <1>0. Shapes /\ HttpOK /\ StartingOK /\ u \in Requests /\ "client" \in Threads
    BY NetworkAssumption DEF Types, LayerOK, CurlSideOK, HttpOK, Threads
  <1>1. PICK q : q = NewRequest(WholeFile, TRUE)
    OBVIOUS
  <1>2. PICK d : d = [h |-> u, by |-> "client"]
    OBVIOUS
  <1>3. /\ UNCHANGED <<info, dtor, answers, raced, early, curl, aborting>>
        /\ http' = [http EXCEPT ![u] = q] /\ starting' = starting \cup {d}
    BY <1>1, <1>2 DEF CreateUpload, ghosts
  <1>4. HasControl(q) /\ q.mState = "NEW" /\ q.handle = "new"
    BY <1>1, NewControl
  <1>5. /\ Shapes' /\ http'[u] = q
        /\ \A g \in Requests \ {u} : http'[g] = http[g]
    BY <1>0, <1>3, <1>4, OneChanges
  <1>6. HttpOK'
    <2>1. ASSUME NEW g \in Requests PROVE http'[g].mState \in Control /\ http'[g].handle \in Handles
      BY <1>0, <1>4, <1>5 DEF HttpOK, Control, Handles
    <2> QED
      BY <1>5, <2>1 DEF HttpOK
  <1>7. d \in [h : Requests, by : Threads] /\ d.h = u
    BY <1>0, <1>2
  <1>8. Types'
    BY <1>0, <1>3, <1>6, <1>7 DEF Types, LayerOK, CurlSideOK, InfoOK, StartingOK, DtorOK,
       AnswersOK, RacedOK, CurlOK, AbortingOK
  <1>9. ASSUME NEW i \in Infos, NEW k \in Services PROVE Quiet(RequestFor[i, k])
    <2>1. PICK r \in Requests : r = RequestFor[i, k] /\ r \notin Uploads
      BY RequestIsKnown
    <2>2. SameControl(http'[r], http[r])
      BY <1>0, <1>5, <2>1 DEF Shapes, SameControl
    <2>3. QuietRequest(r)
      BY <2>2, ControlIsQuiet
    <2>4. QuietThreads(r)
      BY <1>3 DEF QuietThreads
    <2>5. Listed(r)' => Listed(r)
      BY <1>3 DEF Listed
    <2>6. Started(r)' => Started(r)
      BY <1>3, <1>7, <2>1 DEF Started
    <2> QED
      BY <2>1, <2>3, <2>4, <2>5, <2>6 DEF Quiet, QuietLists
  <1> QED
    BY <1>3, <1>8, <1>9, QuietStep

(* The destructor, apart from its calls of abort(). *)
LEMMA DestroyStep ==
  ASSUME Types, Slots, DestroyBegin \/ DestroyCollect \/ DestroyWait
  PROVE  Types' /\ Slots'
  <1>0. Shapes /\ DtorOK /\ InfoOK
    BY DEF Types, LayerOK, CurlSideOK, HttpOK
  <1>1. UNCHANGED <<http, curl, aborting, raced, early, info, starting, answers>>
    BY DEF DestroyBegin, DestroyCollect, DestroyWait, httpVars, ghosts
  <1>2. DtorOK' /\ \A r \in Requests : Listed(r)' => Listed(r)
    <2>1. CASE DestroyBegin
      <3>1. DtorOK' /\ dtor'.pendingDelete = dtor.pendingDelete
        BY <1>0, <2>1 DEF DestroyBegin, DtorOK
      <3> QED
        BY <1>1, <3>1 DEF Listed
    <2>2. CASE DestroyCollect
      <3>1. \A i \in Infos : info[i].httpreq \subseteq Requests
        BY <1>0 DEF InfoOK, InfoRecords
      <3>2. dtor' = [pc |-> "abort", pendingDelete |-> UNION {info[i].httpreq : i \in Infos}]
        BY <2>2 DEF DestroyCollect
      <3>3. dtor'.pendingDelete = UNION {info[i].httpreq : i \in Infos}
        BY <3>2
      <3>4. dtor'.pendingDelete \subseteq Requests
        BY <3>1, <3>3
      <3>5. DtorOK'
        BY <3>2, <3>3, <3>4 DEF DtorOK
      <3>6. \A r \in Requests : r \in dtor'.pendingDelete => \E i \in Infos : r \in info[i].httpreq
        BY <3>3
      <3> QED
        BY <1>1, <3>5, <3>6 DEF Listed
    <2>3. CASE DestroyWait
      <3>1. DtorOK' /\ dtor'.pendingDelete = dtor.pendingDelete
        BY <1>0, <2>3 DEF DestroyWait, DtorOK
      <3> QED
        BY <1>1, <3>1 DEF Listed
    <2> QED
      BY <2>1, <2>2, <2>3
  <1>3. Types'
    BY <1>1, <1>2 DEF Types, LayerOK, CurlSideOK, HttpOK, Shapes, InfoOK, StartingOK,
       AnswersOK, RacedOK, CurlOK, AbortingOK
  <1>4. ASSUME NEW i \in Infos, NEW k \in Services PROVE Quiet(RequestFor[i, k])
    <2>1. PICK r \in Requests : r = RequestFor[i, k]
      BY RequestIsKnown
    <2>2. QuietRequest(r)
      BY <1>0, <1>1, SameHttp, ControlIsQuiet
    <2>3. QuietThreads(r)
      BY <1>1 DEF QuietThreads
    <2>4. QuietLists(r)
      BY <1>1, <1>2 DEF QuietLists, Started
    <2> QED
      BY <2>1, <2>2, <2>3, <2>4 DEF Quiet
  <1> QED
    BY <1>1, <1>3, <1>4, QuietStep

-----------------------------------------------------------------------------
(* The steps that pass the callback of one request on *)

(* A step that concerns the request h, and is quiet for the others. *)
LEMMA OneRequestStep ==
  ASSUME Slots, NEW h \in Requests, info' = info, answers' = answers, raced \subseteq raced', early \subseteq early',
         \A i \in Infos, k \in Services : RequestFor[i, k] # h => Quiet(RequestFor[i, k]),
         \A i \in Infos, k \in Services : RequestFor[i, k] = h => SlotInv(i, k)'
  PROVE  Slots'
  <1>1. ASSUME NEW i \in Infos PROVE CountInv(i)'
    BY SameCount DEF Slots
  <1>2. ASSUME NEW i \in Infos, NEW k \in Services PROVE SlotInv(i, k)'
    <2>1. CASE RequestFor[i, k] # h
      <3>1. SlotInv(i, k) /\ Quiet(RequestFor[i, k])
        BY <2>1 DEF Slots
      <3>2. (IsFresh(i, k)' => IsFresh(i, k)) /\ (IsCurrent(i, k) => IsCurrent(i, k)')
        BY SameEntry
      <3> QED
        BY <3>1, <3>2, QuietKeepsSlot
    <2> QED
      BY <2>1
  <1> QED
    BY <1>1, <1>2 DEF Slots

(* What the invariant says of the request of a getData that is not raced. *)
LEMMA SlotFacts ==
  ASSUME Slots, NEW i \in Infos, NEW k \in Services, NEW h, h = RequestFor[i, k],
         raced \subseteq raced', early \subseteq early', NotRaced(i)'
  PROVE  /\ RequestInv(h)
         /\ Pending(h) => IsCurrent(i, k)
         /\ IsFresh(i, k) => Untouched(h)
  <1>1. NotRaced(i)
    BY DEF NotRaced
  <1> QED
    BY <1>1 DEF Slots, SlotInv

(* curlLoop takes a finished request in hand, which abort() has not touched. *)
LEMMA FreeHandleStep ==
  ASSUME Types, Slots, NEW h \in Requests, FreeHandle(h), NetworkOnly
  PROVE  Types' /\ Slots'
  <1>0. Shapes /\ HttpOK /\ HasControl(http[h])
    BY DEF Types, CurlSideOK, HttpOK, Shapes
  <1>1. UNCHANGED <<info, starting, dtor, answers, aborting, raced, early>>
    BY DEF NetworkOnly, ghosts, FreeHandle
  <1>2. PICK q : q = [http[h] EXCEPT !.handle = "none", !.mState = "FINISHED"]
    OBVIOUS
  <1>3. /\ http' = [http EXCEPT ![h] = q] /\ http[h].handle = "added"
        /\ curl' = [pc |-> "freed", h |-> {h}, success |-> http[h].server = "ok"]
    BY <1>2 DEF FreeHandle, Over, Performing
  <1>4. /\ HasControl(q) /\ q.mState = "FINISHED" /\ q.handle = "none"
        /\ q.callback = http[h].callback
    BY <1>0, <1>2 DEF HasControl
  <1>5. /\ Shapes' /\ http'[h] = q
        /\ \A g \in Requests \ {h} : http'[g] = http[g]
    BY <1>0, <1>3, <1>4, OneChanges
  <1>6. HttpOK'
    <2>1. ASSUME NEW g \in Requests PROVE http'[g].mState \in Control /\ http'[g].handle \in Handles
      BY <1>0, <1>4, <1>5 DEF HttpOK, Control, Handles
    <2> QED
      BY <1>5, <2>1 DEF HttpOK
  <1>7. curl'.pc = "freed" /\ curl'.h = {h} /\ curl'.success \in BOOLEAN
    BY <1>3
  <1>8. CurlOK'
    BY <1>3, <1>7 DEF CurlOK
  <1>9. Types'
    BY <1>1, <1>6, <1>8 DEF Types, LayerOK, CurlSideOK, InfoOK, StartingOK, DtorOK,
       AnswersOK, RacedOK, AbortingOK
  <1>10. ASSUME NEW i \in Infos, NEW k \in Services, RequestFor[i, k] # h
         PROVE  Quiet(RequestFor[i, k])
    <2>1. PICK r \in Requests : r = RequestFor[i, k]
      BY RequestIsKnown
    <2>2. SameControl(http'[r], http[r])
      BY <1>0, <1>5, <1>10, <2>1 DEF Shapes, SameControl
    <2>3. QuietRequest(r)
      BY <2>2, ControlIsQuiet
    <2>4. QuietThreads(r)
      BY <1>1, <1>7, <1>10, <2>1 DEF QuietThreads
    <2>5. QuietLists(r)
      BY <1>1, ListsAreQuiet
    <2> QED
      BY <2>1, <2>3, <2>4, <2>5 DEF Quiet
  <1>11. ASSUME NEW i \in Infos, NEW k \in Services, RequestFor[i, k] = h
         PROVE  SlotInv(i, k)'
    <2> SUFFICES ASSUME NotRaced(i)'
                 PROVE  /\ RequestInv(h)'
                        /\ Pending(h)' => IsCurrent(i, k)'
                        /\ IsFresh(i, k)' => Untouched(h)'
      BY <1>11 DEF SlotInv
    <2>1. /\ RequestInv(h)
          /\ Pending(h) => IsCurrent(i, k)
          /\ IsFresh(i, k) => Untouched(h)
      BY <1>1, <1>11, SlotFacts
    <2>2. ~Idle(h) /\ Idle(h)'
      BY <1>3, <1>4, <1>5 DEF Idle
    <2>3. ~AbortAtWork(h)' /\ ~AbortHas(h)' /\ ~AbortHas(h)
      BY <1>1, <2>1, <2>2 DEF RequestInv, AbortAtWork, AbortHas
    <2>4. ~CurlHas(h)' /\ curl'.pc # "copied"
      BY <1>7 DEF CurlHas
    <2>5. RequestInv(h)'
      BY <2>2, <2>3, <2>4 DEF RequestInv
    <2>6. http'[h].callback <=> http[h].callback
      BY <1>4, <1>5, Zenon
    <2>7. (IsFresh(i, k)' <=> IsFresh(i, k)) /\ (IsCurrent(i, k)' <=> IsCurrent(i, k))
      BY <1>1, SameEntry
    <2>8. Pending(h)' => IsCurrent(i, k)'
      BY <2>1, <2>3, <2>4, <2>6, <2>7, Zenon DEF Pending
    <2>9. ~IsFresh(i, k)
      BY <1>3, <2>1 DEF Untouched
    <2> QED
      BY <2>5, <2>7, <2>8, <2>9
  <1> QED
    BY <1>1, <1>9, <1>10, <1>11, OneRequestStep

(* curlLoop copies the callback that is there. *)
LEMMA CopyCallbackStep ==
  ASSUME Types, Slots, NEW h \in Requests, CopyCallback(h), NetworkOnly
  PROVE  Types' /\ Slots'
  <1>0. Shapes /\ CurlOK
    BY DEF Types, CurlSideOK, HttpOK
  <1>1. UNCHANGED <<http, info, starting, dtor, answers, aborting, raced, early>>
    BY DEF NetworkOnly, ghosts, CopyCallback
  <1>2. curl.pc = "freed" /\ h \in curl.h
    BY DEF CopyCallback
  <1>3. \/ http[h].callback /\ curl' = [curl EXCEPT !.pc = "copied"]
        \/ ~http[h].callback /\ curl' = [curl EXCEPT !.pc = "loop"]
    BY Zenon DEF CopyCallback
  <1>4. CurlOK' /\ curl'.h = curl.h /\ curl'.pc \in {"copied", "loop"}
    BY <1>0, <1>3 DEF CurlOK
  <1>5. curl'.pc = "copied" => http[h].callback
    <2>1. [curl EXCEPT !.pc = "loop"].pc # "copied"
      BY <1>0 DEF CurlOK
    <2> QED
      BY <1>3, <2>1, Zenon
  <1>6. Types'
    BY <1>1, <1>4 DEF Types, LayerOK, CurlSideOK, HttpOK, Shapes, InfoOK, StartingOK, DtorOK,
       AnswersOK, RacedOK, AbortingOK
  <1>7. ASSUME NEW i \in Infos, NEW k \in Services, RequestFor[i, k] # h
         PROVE  Quiet(RequestFor[i, k])
    <2>1. PICK r \in Requests : r = RequestFor[i, k]
      BY RequestIsKnown
    <2>2. QuietRequest(r)
      BY <1>0, <1>1, SameHttp, ControlIsQuiet
    <2>3. r \notin curl'.h
      BY <1>0, <1>2, <1>4, <1>7, <2>1 DEF CurlOK
    <2>4. QuietThreads(r)
      BY <1>1, <2>3 DEF QuietThreads
    <2>5. QuietLists(r)
      BY <1>1, ListsAreQuiet
    <2> QED
      BY <2>1, <2>2, <2>4, <2>5 DEF Quiet
  <1>8. ASSUME NEW i \in Infos, NEW k \in Services, RequestFor[i, k] = h
         PROVE  SlotInv(i, k)'
    <2> SUFFICES ASSUME NotRaced(i)'
                 PROVE  /\ RequestInv(h)'
                        /\ Pending(h)' => IsCurrent(i, k)'
                        /\ IsFresh(i, k)' => Untouched(h)'
      BY <1>8 DEF SlotInv
    <2>1. /\ RequestInv(h)
          /\ Pending(h) => IsCurrent(i, k)
          /\ IsFresh(i, k) => Untouched(h)
      BY <1>1, <1>8, SlotFacts
    <2>2. Idle(h) /\ (AbortAtWork(h) => ~http[h].callback)
      BY <1>2, <2>1, Zenon DEF RequestInv, CurlFinishes
    <2>3. /\ Idle(h)' /\ (AbortAtWork(h)' <=> AbortAtWork(h))
          /\ (AbortHas(h)' <=> AbortHas(h)) /\ ~CurlHas(h)'
      BY <1>1, <1>4, <2>2 DEF Idle, AbortAtWork, AbortHas, CurlHas
    <2>4. http'[h].callback <=> http[h].callback
      BY <1>1, Zenon
    <2>5. RequestInv(h)'
      BY <1>5, <2>1, <2>2, <2>3, <2>4, Zenon DEF RequestInv
    <2>6. (IsFresh(i, k)' <=> IsFresh(i, k)) /\ (IsCurrent(i, k)' <=> IsCurrent(i, k))
      BY <1>1, SameEntry
    <2>7. Pending(h)' => IsCurrent(i, k)'
      BY <2>1, <2>3, <2>4, <2>6, Zenon DEF Pending
    <2>8. ~IsFresh(i, k)
      BY <1>2, <2>1 DEF Untouched
    <2> QED
      BY <2>5, <2>6, <2>7, <2>8
  <1> QED
    BY <1>1, <1>6, <1>7, <1>8, OneRequestStep

(* A callback that is replaced by nullCallback. *)
LEMMA CallbackTaken ==
  ASSUME HttpOK, NEW h \in Requests, http' = [http EXCEPT ![h].callback = FALSE]
  PROVE  /\ HttpOK' /\ ~http'[h].callback /\ http'[h].mState = http[h].mState
         /\ http'[h].handle = http[h].handle
         /\ \A g \in Requests \ {h} : http'[g] = http[g]
  <1>0. Shapes /\ HasControl(http[h])
    BY DEF HttpOK, Shapes
  <1>1. PICK q : q = [http[h] EXCEPT !.callback = FALSE]
    OBVIOUS
  <1>2. http' = [http EXCEPT ![h] = q]
    BY <1>0, <1>1 DEF Shapes
  <1>3. /\ HasControl(q) /\ q.mState = http[h].mState /\ q.handle = http[h].handle
        /\ q.callback = FALSE
    BY <1>0, <1>1 DEF HasControl
  <1>4. /\ Shapes' /\ http'[h] = q
        /\ \A g \in Requests \ {h} : http'[g] = http[g]
    BY <1>0, <1>2, <1>3, OneChanges
  <1>5. ASSUME NEW g \in Requests PROVE http'[g].mState \in Control /\ http'[g].handle \in Handles
    BY <1>3, <1>4 DEF HttpOK
  <1>6. ~http'[h].callback
    BY <1>3, <1>4, Zenon
  <1> QED
    BY <1>3, <1>4, <1>5, <1>6 DEF HttpOK

(* The callback goes from the request to curlLoop. *)
LEMMA ResetCallbackStep ==
  ASSUME Types, Slots, NEW h \in Requests, ResetCallback(h), NetworkOnly
  PROVE  Types' /\ Slots'
  <1>0. Shapes /\ CurlOK /\ HttpOK
    BY DEF Types, CurlSideOK, HttpOK
  <1>1. UNCHANGED <<info, starting, dtor, answers, aborting, raced, early>>
    BY DEF NetworkOnly, ghosts, ResetCallback
  <1>2. /\ curl.pc = "copied" /\ h \in curl.h /\ curl' = [curl EXCEPT !.pc = "callback"]
        /\ http' = [http EXCEPT ![h].callback = FALSE]
    BY DEF ResetCallback
  <1>3. /\ HttpOK' /\ ~http'[h].callback /\ http'[h].mState = http[h].mState
        /\ http'[h].handle = http[h].handle
        /\ \A g \in Requests \ {h} : http'[g] = http[g]
    BY <1>0, <1>2, CallbackTaken
  <1>4. CurlOK' /\ curl'.h = curl.h /\ curl'.pc = "callback"
    BY <1>0, <1>2 DEF CurlOK
  <1>5. Types'
    BY <1>1, <1>3, <1>4 DEF Types, LayerOK, CurlSideOK, InfoOK, StartingOK, DtorOK,
       AnswersOK, RacedOK, AbortingOK
  <1>6. ASSUME NEW i \in Infos, NEW k \in Services, RequestFor[i, k] # h
         PROVE  Quiet(RequestFor[i, k])
    <2>1. PICK r \in Requests : r = RequestFor[i, k]
      BY RequestIsKnown
    <2>2. SameControl(http'[r], http[r])
      BY <1>0, <1>3, <1>6, <2>1 DEF Shapes, SameControl
    <2>3. QuietRequest(r)
      BY <2>2, ControlIsQuiet
    <2>4. r \notin curl'.h
      BY <1>0, <1>2, <1>4, <1>6, <2>1 DEF CurlOK
    <2>5. QuietThreads(r)
      BY <1>1, <2>4 DEF QuietThreads
    <2>6. QuietLists(r)
      BY <1>1, ListsAreQuiet
    <2> QED
      BY <2>1, <2>3, <2>5, <2>6 DEF Quiet
  <1>7. ASSUME NEW i \in Infos, NEW k \in Services, RequestFor[i, k] = h
         PROVE  SlotInv(i, k)'
    <2> SUFFICES ASSUME NotRaced(i)'
                 PROVE  /\ RequestInv(h)'
                        /\ Pending(h)' => IsCurrent(i, k)'
                        /\ IsFresh(i, k)' => Untouched(h)'
      BY <1>7 DEF SlotInv
    <2>1. /\ RequestInv(h)
          /\ Pending(h) => IsCurrent(i, k)
          /\ IsFresh(i, k) => Untouched(h)
      BY <1>1, <1>7, SlotFacts
    <2>3. http[h].callback
      BY <1>2, <2>1, Zenon DEF RequestInv
    <2>2. ~AbortAtWork(h)
      BY <1>2, <2>1, <2>3, Zenon DEF RequestInv, CurlFinishes
    <2>4. ~AbortAtWork(h)' /\ ~AbortHas(h)' /\ ~CurlFinishes(h)' /\ curl'.pc # "copied"
      BY <1>1, <1>4, <2>2 DEF AbortAtWork, AbortHas, CurlFinishes
    <2>5. RequestInv(h)'
      BY <1>3, <2>4, Zenon DEF RequestInv
    <2>6. (IsFresh(i, k)' <=> IsFresh(i, k)) /\ (IsCurrent(i, k)' <=> IsCurrent(i, k))
      BY <1>1, SameEntry
    <2>7. IsCurrent(i, k)
      BY <2>1, <2>3, Zenon DEF Pending
    <2>8. ~IsFresh(i, k)
      BY <1>2, <2>1 DEF Untouched
    <2> QED
      BY <2>5, <2>6, <2>7, <2>8
  <1> QED
    BY <1>1, <1>5, <1>6, <1>7, OneRequestStep

-----------------------------------------------------------------------------
(* abort() *)

(* Either abort() finds curlLoop with the request in its hands, and the two *)
(* race, or nobody will touch the request again.                            *)
LEMMA DestroyAbortStep ==
  ASSUME Types, Slots, NEW h \in Requests, DestroyAbort(h)
  PROVE  Types' /\ Slots'
  <1>0. Shapes /\ HttpOK /\ HasControl(http[h]) /\ AbortingOK /\ DtorOK /\ RacedOK
    BY DEF Types, LayerOK, CurlSideOK, HttpOK, Shapes
  <1>1. UNCHANGED <<info, starting, answers, curl>>
    BY DEF DestroyAbort, Abort, ghosts
  <1>2. PICK q : q = [http[h] EXCEPT !.mState = "FINISHED", !.handle = "none", !.server = "none"]
    OBVIOUS
  <1>3. /\ http' = [http EXCEPT ![h] = q] /\ aborting.pc = "idle"
        /\ raced' = IF CurlLocked /\ h \in curl.h /\ http[h].callback
                    THEN raced \cup {h} ELSE raced
        /\ early' = early /\ aborting' = [pc |-> "copy", h |-> {h}]
        /\ h \in dtor.pendingDelete
        /\ dtor' = [dtor EXCEPT !.pendingDelete = @ \ {h}]
    BY <1>2 DEF DestroyAbort, Abort, ghosts
  <1>4. /\ HasControl(q) /\ q.mState = "FINISHED" /\ q.handle = "none"
        /\ q.callback = http[h].callback
    BY <1>0, <1>2 DEF HasControl
  <1>5. /\ Shapes' /\ http'[h] = q
        /\ \A g \in Requests \ {h} : http'[g] = http[g]
    BY <1>0, <1>3, <1>4, OneChanges
  <1>6. HttpOK'
    <2>1. ASSUME NEW g \in Requests PROVE http'[g].mState \in Control /\ http'[g].handle \in Handles
      BY <1>0, <1>4, <1>5 DEF HttpOK, Control, Handles
    <2> QED
      BY <1>5, <2>1 DEF HttpOK
  <1>7. AbortingOK' /\ aborting'.pc = "copy" /\ aborting'.h = {h}
    BY <1>3 DEF AbortingOK
  <1>8. DtorOK' /\ dtor'.pendingDelete \subseteq dtor.pendingDelete
    BY <1>0, <1>3 DEF DtorOK
  <1>9. RacedOK' /\ raced \subseteq raced' /\ early \subseteq early'
    BY <1>0, <1>3 DEF RacedOK
  <1>10. Types'
    BY <1>1, <1>6, <1>7, <1>8, <1>9 DEF Types, LayerOK, CurlSideOK, InfoOK, StartingOK,
       AnswersOK, CurlOK
  <1>11. ASSUME NEW i \in Infos, NEW k \in Services, RequestFor[i, k] # h
         PROVE  Quiet(RequestFor[i, k])
    <2>1. PICK r \in Requests : r = RequestFor[i, k]
      BY RequestIsKnown
    <2>2. SameControl(http'[r], http[r])
      BY <1>0, <1>5, <1>11, <2>1 DEF Shapes, SameControl
    <2>3. QuietRequest(r)
      BY <2>2, ControlIsQuiet
    <2>4. QuietThreads(r)
      BY <1>1, <1>7, <1>11, <2>1 DEF QuietThreads
    <2>5. QuietLists(r)
      BY <1>1, <1>8, ListsAreQuiet
    <2> QED
      BY <2>1, <2>3, <2>4, <2>5 DEF Quiet
  <1>12. ASSUME NEW i \in Infos, NEW k \in Services, RequestFor[i, k] = h
         PROVE  SlotInv(i, k)'
    <2> SUFFICES ASSUME NotRaced(i)'
                 PROVE  /\ RequestInv(h)'
                        /\ Pending(h)' => IsCurrent(i, k)'
                        /\ IsFresh(i, k)' => Untouched(h)'
      BY <1>12 DEF SlotInv
    <2>1. /\ RequestInv(h)
          /\ Pending(h) => IsCurrent(i, k)
          /\ IsFresh(i, k) => Untouched(h)
      BY <1>9, <1>12, SlotFacts
    <2>2. h \notin raced'
      BY <1>12 DEF NotRaced
    <2>3. CurlFinishes(h) => ~http[h].callback
      BY <1>3, <2>2, Zenon DEF CurlFinishes, CurlLocked
    <2>4. /\ (CurlFinishes(h)' <=> CurlFinishes(h)) /\ ~AbortHas(h)' /\ Idle(h)'
          /\ (CurlHas(h)' <=> CurlHas(h)) /\ curl' = curl
      BY <1>1, <1>4, <1>5, <1>7 DEF CurlFinishes, AbortHas, Idle, CurlHas
    <2>5. http'[h].callback <=> http[h].callback
      BY <1>4, <1>5, Zenon
    <2>6. RequestInv(h)'
      BY <2>1, <2>3, <2>4, <2>5, Zenon DEF RequestInv
    <2>7. (IsFresh(i, k)' <=> IsFresh(i, k)) /\ (IsCurrent(i, k)' <=> IsCurrent(i, k))
      BY <1>1, SameEntry
    <2>8. Pending(h)' => IsCurrent(i, k)'
      BY <2>1, <2>4, <2>5, <2>7, Zenon DEF Pending
    <2>9. ~IsFresh(i, k)
      BY <1>3, <2>1 DEF Untouched
    <2> QED
      BY <2>6, <2>7, <2>8, <2>9
  <1> QED
    BY <1>1, <1>9, <1>10, <1>11, <1>12, OneRequestStep

(* The callback goes from the request to abort(), if curlLoop has not got it. *)
LEMMA AbortTakesCallbackStep ==
  ASSUME Types, Slots, NEW h \in Requests, AbortTakesCallback(h), NetworkOnly
  PROVE  Types' /\ Slots'
  <1>0. Shapes /\ HttpOK /\ AbortingOK
    BY DEF Types, CurlSideOK, HttpOK
  <1>1. UNCHANGED <<info, starting, dtor, answers, curl, raced, early>>
    BY DEF NetworkOnly, ghosts, AbortTakesCallback
  <1>2. /\ aborting.pc = "copy" /\ h \in aborting.h
        /\ http' = [http EXCEPT ![h].callback = FALSE]
    BY DEF AbortTakesCallback
  <1>3. \/ http[h].callback /\ aborting' = [aborting EXCEPT !.pc = "callback"]
        \/ ~http[h].callback /\ aborting' = [pc |-> "idle", h |-> {}]
    BY Zenon DEF AbortTakesCallback
  <1>4. /\ HttpOK' /\ ~http'[h].callback /\ http'[h].mState = http[h].mState
        /\ http'[h].handle = http[h].handle
        /\ \A g \in Requests \ {h} : http'[g] = http[g]
    BY <1>0, <1>2, CallbackTaken
  <1>5. AbortingOK' /\ aborting'.h \subseteq aborting.h /\ aborting'.pc \in {"callback", "idle"}
    BY <1>0, <1>3 DEF AbortingOK
  <1>6. aborting'.pc = "callback" => http[h].callback
    <2>1. [pc |-> "idle", h |-> {}].pc # "callback"
      OBVIOUS
    <2> QED
      BY <1>3, <2>1, Zenon
  <1>7. Types'
    BY <1>1, <1>4, <1>5 DEF Types, LayerOK, CurlSideOK, InfoOK, StartingOK, DtorOK,
       AnswersOK, RacedOK, CurlOK
  <1>8. ASSUME NEW i \in Infos, NEW k \in Services, RequestFor[i, k] # h
        PROVE  Quiet(RequestFor[i, k])
    <2>1. PICK r \in Requests : r = RequestFor[i, k]
      BY RequestIsKnown
    <2>2. SameControl(http'[r], http[r])
      BY <1>0, <1>4, <1>8, <2>1 DEF Shapes, SameControl
    <2>3. QuietRequest(r)
      BY <2>2, ControlIsQuiet
    <2>4. r \notin aborting'.h
      BY <1>0, <1>2, <1>5, <1>8, <2>1 DEF AbortingOK
    <2>5. QuietThreads(r)
      BY <1>1, <2>4 DEF QuietThreads
    <2>6. QuietLists(r)
      BY <1>1, ListsAreQuiet
    <2> QED
      BY <2>1, <2>3, <2>5, <2>6 DEF Quiet
  <1>9. ASSUME NEW i \in Infos, NEW k \in Services, RequestFor[i, k] = h
        PROVE  SlotInv(i, k)'
    <2> SUFFICES ASSUME NotRaced(i)'
                 PROVE  /\ RequestInv(h)'
                        /\ Pending(h)' => IsCurrent(i, k)'
                        /\ IsFresh(i, k)' => Untouched(h)'
      BY <1>9 DEF SlotInv
    <2>1. /\ RequestInv(h)
          /\ Pending(h) => IsCurrent(i, k)
          /\ IsFresh(i, k) => Untouched(h)
      BY <1>1, <1>9, SlotFacts
    <2>2. AbortAtWork(h)
      BY <1>2 DEF AbortAtWork
    <2>3. Idle(h) /\ ~(curl.pc = "copied" /\ h \in curl.h)
      BY <2>1, <2>2, Zenon DEF RequestInv, CurlFinishes
    <2>4. /\ Idle(h)' /\ ~(curl'.pc = "copied" /\ h \in curl'.h)
          /\ CurlHas(h)' <=> CurlHas(h)
      BY <1>1, <1>4, <2>3 DEF Idle, CurlHas
    <2>5. AbortHas(h)' => http[h].callback
      BY <1>6, Zenon DEF AbortHas
    <2>6. CurlHas(h) => ~http[h].callback
      BY <2>1, Zenon DEF RequestInv
    <2>7. RequestInv(h)'
      BY <1>4, <2>4, <2>5, <2>6, Zenon DEF RequestInv
    <2>8. (IsFresh(i, k)' <=> IsFresh(i, k)) /\ (IsCurrent(i, k)' <=> IsCurrent(i, k))
      BY <1>1, SameEntry
    <2>9. Pending(h)' => Pending(h)
      BY <1>4, <2>4, <2>5, Zenon DEF Pending
    <2>10. ~IsFresh(i, k)
      BY <1>2, <2>1 DEF Untouched
    <2> QED
      BY <2>1, <2>7, <2>8, <2>9, <2>10
  <1> QED
    BY <1>1, <1>7, <1>8, <1>9, OneRequestStep

-----------------------------------------------------------------------------
(* A call for a waiting entry is the first one. *)
LEMMA CountAfterCall ==
  ASSUME AnswersOK, NEW i \in Infos, CountInv(i), NotRaced(i)' <=> NotRaced(i),
         NotRaced(i) => info[i].st = "waiting",
         NotRaced(i) => \/ info'[i].st = "erased" /\ (answers[i] = 0 => answers'[i] = 1)
                        \/ info'[i].st = "fetch" /\ answers'[i] = answers[i]
  PROVE  CountInv(i)'
  <1>1. answers[i] \in Nat
    BY DEF AnswersOK
  <1>2. NotRaced(i) => answers[i] = 0
    BY <1>1 DEF CountInv
  <1>3. NotRaced(i) => answers'[i] <= IF info'[i].st = "erased" THEN 1 ELSE 0
    BY <1>2
  <1> QED
    BY <1>3 DEF CountInv

(***************************************************************************)
(* httpCallback: the thread that calls it is the only one that has the     *)
(* callback of the current request, so the entry is still waiting, and     *)
(* after the call no callback of this getData is left.                     *)
(***************************************************************************)
LEMMA CallStep ==
  ASSUME Types, Slots, NEW i \in Infos, NEW k \in Services, NEW by \in {"curl", "abort"},
         NEW success \in BOOLEAN, httpCallback(i, k, by, success),
         by = "curl" => curl.pc = "callback" /\ curl.h = {RequestFor[i, k]},
         by = "abort" => aborting.pc = "callback" /\ aborting.h = {RequestFor[i, k]},
         http' = [http EXCEPT ![RequestFor[i, k]] = Dropped(http[RequestFor[i, k]])],
         UNCHANGED <<raced, early, starting>>
  PROVE  Types' /\ Slots'
  <1>0. /\ LayerOK /\ HttpOK /\ Shapes /\ CurlOK /\ AbortingOK /\ RacedOK /\ StartingOK
        /\ AnswersOK /\ by \in Threads
    BY DEF Types, LayerOK, CurlSideOK, HttpOK, Threads
  <1>1. PICK h \in Requests : h = RequestFor[i, k]
    BY RequestIsKnown
  <1>2. /\ InfoOK' /\ DtorOK' /\ AnswersOK' /\ CurlOK' /\ AbortingOK' /\ Leaves(by)
        /\ dtor'.pendingDelete = dtor.pendingDelete
        /\ info'[i].httpreq \subseteq info[i].httpreq
        /\ \A j \in Infos \ {i} : info'[j] = info[j] /\ answers'[j] = answers[j]
        /\ info[i].st \notin {"erased", "fetch", "create"} =>
              \/ info'[i].st = "erased" /\ (answers[i] = 0 => answers'[i] = 1)
              \/ info'[i].st = "fetch" /\ info'[i].which = k + 1 /\ answers'[i] = answers[i]
    BY <1>0, CallbackEffect
  <1>3. SameControl(Dropped(http[h]), http[h])
    BY <1>0, DroppedKeepsControl DEF Shapes
  <1>4. /\ Shapes' /\ http'[h] = Dropped(http[h])
        /\ \A g \in Requests \ {h} : http'[g] = http[g]
    <2>1. PICK q : q = Dropped(http[h])
      OBVIOUS
    <2>2. http' = [http EXCEPT ![h] = q] /\ HasControl(q)
      BY <1>1, <1>3, <2>1 DEF SameControl
    <2> QED
      BY <1>0, <2>1, <2>2, OneChanges
  <1>5. \A g \in Requests : SameControl(http'[g], http[g])
    BY <1>0, <1>3, <1>4 DEF SameControl, Shapes
  <1>6. HttpOK'
    BY <1>0, <1>4, <1>5, SameTypes
  <1>7. Types'
    BY <1>0, <1>2, <1>6 DEF Types, LayerOK, CurlSideOK, StartingOK, RacedOK
  <1>8. \A j \in Infos : info'[j].httpreq \subseteq info[j].httpreq
    BY <1>2
  <1>9. ASSUME NEW r \in Requests PROVE Quiet(r)
    <2>1. QuietRequest(r)
      BY <1>5, ControlIsQuiet
    <2>2. QuietThreads(r)
      BY <1>0, <1>2, LeavesIsQuiet
    <2>3. QuietLists(r)
      BY <1>2, <1>8, ListsAreQuiet
    <2> QED
      BY <2>1, <2>2, <2>3 DEF Quiet
  <1>10. ASSUME NotRaced(i)
         PROVE  IsCurrent(i, k) /\ ~Pending(h)'
    <2>1. RequestInv(h) /\ (Pending(h) => IsCurrent(i, k))
      BY <1>1, <1>10 DEF Slots, SlotInv
    <2>2. CASE by = "curl"
      <3>1. CurlHas(h)
        BY <1>1, <2>2 DEF CurlHas
      <3>2. ~http[h].callback /\ ~AbortHas(h)
        BY <2>1, <3>1, Zenon DEF RequestInv
      <3>3. ~CurlHas(h)' /\ ~AbortHas(h)'
        BY <1>2, <2>2, <3>2 DEF Leaves, CurlHas, AbortHas
      <3>4. ~http'[h].callback
        BY <1>5, <3>2, Zenon DEF SameControl
      <3> QED
        BY <2>1, <3>1, <3>3, <3>4, Zenon DEF Pending
    <2>3. CASE by = "abort"
      <3>1. AbortHas(h)
        BY <1>1, <2>3 DEF AbortHas
      <3>2. ~http[h].callback /\ ~CurlHas(h)
        BY <2>1, <3>1, Zenon DEF RequestInv
      <3>3. ~CurlHas(h)' /\ ~AbortHas(h)'
        BY <1>2, <2>3, <3>2 DEF Leaves, CurlHas, AbortHas
      <3>4. ~http'[h].callback
        BY <1>5, <3>2, Zenon DEF SameControl
      <3> QED
        BY <2>1, <3>1, <3>3, <3>4, Zenon DEF Pending
    <2> QED
      BY <2>2, <2>3
  <1>11. \A j \in Infos : NotRaced(j)' <=> NotRaced(j)
    BY DEF NotRaced
  <1>12. ASSUME NEW j \in Infos PROVE CountInv(j)'
    <2>1. CASE j = i
      <3>1. NotRaced(i) => info[i].st = "waiting"
        BY <1>10 DEF IsCurrent
      <3>2. CountInv(i)
        BY DEF Slots
      <3>3. NotRaced(i) => \/ info'[i].st = "erased" /\ (answers[i] = 0 => answers'[i] = 1)
                           \/ info'[i].st = "fetch" /\ answers'[i] = answers[i]
        BY <1>2, <3>1
      <3> QED
        BY <1>0, <1>11, <2>1, <3>1, <3>2, <3>3, CountAfterCall
    <2>2. CASE j # i
      <3>1. info'[j] = info[j] /\ answers'[j] = answers[j]
        BY <1>2, <2>2
      <3> QED
        BY <3>1, SameCount DEF Slots
    <2> QED
      BY <2>1, <2>2
  <1>13. ASSUME NEW j \in Infos, NEW l \in Services PROVE SlotInv(j, l)'
    <2>0. Quiet(RequestFor[j, l]) /\ SlotInv(j, l)
      BY <1>9, RequestIsKnown DEF Slots
    <2>1. CASE j # i
      <3>1. info'[j] = info[j]
        BY <1>2, <2>1
      <3>2. (IsFresh(j, l)' => IsFresh(j, l)) /\ (IsCurrent(j, l) => IsCurrent(j, l)')
        BY <3>1, SameEntry
      <3> QED
        BY <2>0, <3>2, QuietKeepsSlot
    <2>2. CASE j = i /\ ~NotRaced(i)
      BY <1>11, <2>2 DEF SlotInv
    <2>3. CASE j = i /\ NotRaced(i)
      <3>1. info[i].st = "waiting" /\ info[i].which = k
        BY <1>10, <2>3 DEF IsCurrent
      <3>3. (l >= k + 1 => l > k) /\ ~(k > k)
        BY ServiceOrder
      <3>4. IsFresh(i, l)' => IsFresh(i, l)
        BY <1>2, <3>1, <3>3 DEF IsFresh
      <3>5. CASE l = k
        <4>1. SlotInv(i, k) /\ Quiet(h)
          BY <1>1, <2>0, <2>3, <3>5
        <4>2. RequestInv(h) /\ (IsFresh(i, k) => Untouched(h))
          BY <1>1, <2>3, <4>1 DEF SlotInv
        <4>3. ~IsFresh(i, k)
          BY <3>1, <3>3 DEF IsFresh
        <4>4. ~IsFresh(i, k)'
          BY <3>4, <3>5, <4>3
        <4>5. ~Pending(h)'
          BY <1>10, <2>3
        <4>6. RequestInv(h)'
          BY <4>1, <4>2, QuietKeepsRequest
        <4> QED
          BY <1>1, <2>3, <3>5, <4>4, <4>5, <4>6 DEF SlotInv
      <3>6. CASE l # k
        <4>1. ~IsCurrent(i, l)
          BY <3>1, <3>6 DEF IsCurrent
        <4>2. IsCurrent(i, l) => IsCurrent(i, l)'
          BY <4>1
        <4> QED
          BY <2>0, <2>3, <3>4, <4>2, QuietKeepsSlot
      <3> QED
        BY <3>5, <3>6
    <2> QED
      BY <2>1, <2>2, <2>3
  <1> QED
    BY <1>7, <1>12, <1>13 DEF Slots

(* curlLoop calls the callback. *)
LEMMA CurlCallsStep ==
  ASSUME Types, Slots, NEW i \in Infos, NEW k \in Services, CurlCalls(i, k)
  PROVE  Types' /\ Slots'
  <1>1. /\ curl.pc = "callback" /\ curl.h = {RequestFor[i, k]}
        /\ httpCallback(i, k, "curl", curl.success)
        /\ http' = [http EXCEPT ![RequestFor[i, k]] = Dropped(http[RequestFor[i, k]])]
        /\ UNCHANGED <<raced, early, starting>>
    BY DEF CurlCalls
  <1>2. curl.success \in BOOLEAN
    BY DEF Types, CurlSideOK, CurlOK
  <1> QED
    BY <1>1, <1>2, CallStep

(* abort() calls the callback. *)
LEMMA AbortCallsStep ==
  ASSUME Types, Slots, NEW i \in Infos, NEW k \in Services, AbortCalls(i, k)
  PROVE  Types' /\ Slots'
  <1>1. /\ aborting.pc = "callback" /\ aborting.h = {RequestFor[i, k]}
        /\ httpCallback(i, k, "abort", FALSE)
        /\ http' = [http EXCEPT ![RequestFor[i, k]] = Dropped(http[RequestFor[i, k]])]
        /\ UNCHANGED <<raced, early, starting>>
    BY DEF AbortCalls
  <1> QED
    BY <1>1, CallStep

-----------------------------------------------------------------------------
(* The theorem *)

(***************************************************************************)
(* The inductive invariant: the types, and for every getData that is not   *)
(* raced the count of its answers and what can be said of its requests.    *)
(***************************************************************************)
IInv == Types /\ Slots

(* The types hold at the start. *)
LEMMA InitTypes == Init => Types
  <1> SUFFICES ASSUME Init PROVE Types
    OBVIOUS
  <1>1. HasControl(NoRequest) /\ NoRequest.mState = "NEW" /\ NoRequest.handle = "none"
    BY DEF NoRequest, HasControl
  <1>2. http = [h \in Requests |-> NoRequest]
    BY DEF Init, HTTPInit
  <1>3. HttpOK
    BY <1>1, <1>2 DEF HttpOK, Shapes, Control, Handles
  <1>4. CurlOK /\ AbortingOK /\ RacedOK
    BY DEF Init, HTTPInit, CurlOK, AbortingOK, RacedOK
  <1>5. NoInfo \in InfoRecords
    BY DEF NoInfo, InfoRecords, Threads
  <1>6. InfoOK
    <2>1. info = [i \in Infos |-> NoInfo] /\ NoInfo.st # "create"
      BY DEF Init, NoInfo
    <2> QED
      BY <1>5, <2>1 DEF InfoOK
  <1>7. StartingOK /\ DtorOK /\ AnswersOK
    BY DEF Init, StartingOK, DtorOK, AnswersOK
  <1> QED
    BY <1>3, <1>4, <1>6, <1>7 DEF Types, LayerOK, CurlSideOK

(* At the start no request exists. *)
LEMMA InitSlots == Init => Slots
  <1> SUFFICES ASSUME Init, NEW i \in Infos
               PROVE  CountInv(i) /\ \A k \in Services : SlotInv(i, k)
    BY DEF Slots
  <1>1. \A j \in Infos : info[j].st = "none" /\ info[j].httpreq = {}
    BY DEF Init, NoInfo
  <1>2. CountInv(i)
    BY <1>1 DEF Init, CountInv
  <1>3. ASSUME NEW k \in Services PROVE SlotInv(i, k)
    <2>1. PICK r \in Requests : r = RequestFor[i, k]
      BY RequestIsKnown
    <2>2. http[r] = NoRequest
      BY DEF Init, HTTPInit
    <2>3. NoRequest.callback = FALSE /\ NoRequest.handle = "none"
      BY DEF NoRequest
    <2>4. ~http[r].callback /\ http[r].handle = "none"
      BY <2>2, <2>3, Zenon
    <2>5. /\ curl.h = {} /\ aborting.h = {} /\ starting = {} /\ dtor.pendingDelete = {}
          /\ curl.pc = "select" /\ aborting.pc = "idle"
      BY DEF Init, HTTPInit
    <2>6. ~CurlHas(r) /\ ~AbortHas(r) /\ ~CurlFinishes(r) /\ ~AbortAtWork(r)
      BY <2>5 DEF CurlHas, AbortHas, CurlFinishes, AbortAtWork
    <2>7. RequestInv(r)
      BY <2>5, <2>6 DEF RequestInv
    <2>8. ~Pending(r)
      BY <2>4, <2>6, Zenon DEF Pending
    <2>9. Untouched(r)
      BY <1>1, <2>4, <2>5 DEF Untouched
    <2> QED
      BY <2>1, <2>7, <2>8, <2>9 DEF SlotInv
  <1> QED
    BY <1>2, <1>3

(* Every step keeps the invariant: one step per action. *)
LEMMA NextKeepsIInv == IInv /\ [Next]_vars => IInv'
  <1> SUFFICES ASSUME Types, Slots, [Next]_vars
               PROVE  Types' /\ Slots'
    BY DEF IInv
  <1>1. ASSUME NEW i \in Infos, NEW r \in Ranges, getData(i, r) PROVE Types' /\ Slots'
    BY <1>1, GetDataStep
  <1>2. ASSUME NEW i \in Infos, FetchStep(i) PROVE Types' /\ Slots'
    BY <1>2, GotServicesStep, GiveUpStep, TestCleanupStep, NoHandlerStep, CreateDownloadStep
       DEF FetchStep
  <1>3. ASSUME StartStep PROVE Types' /\ Slots'
    BY <1>3, StartDownloadStep, GoThrowsStep DEF StartStep
  <1>4. ASSUME CurlThread PROVE Types' /\ Slots'
    BY <1>4, SelectStep, CurlCallsStep, UploadCallsStep DEF CurlThread, Services
  <1>5. ASSUME NEW h \in Requests, Serve(h) PROVE Types' /\ Slots'
    BY <1>5, DataStepStep DEF Serve, ServerStep, DataStep
  <1>9. ASSUME NEW h \in Requests, EndTransfer(h) PROVE Types' /\ Slots'
    BY <1>9, RetryStep, RetryCallsBackStep, FreeHandleStep, CopyCallbackStep, ResetCallbackStep
       DEF EndTransfer, CurlStep, Services
  <1>6. ASSUME NEW u \in Uploads, CreateUpload(u) PROVE Types' /\ Slots'
    BY <1>6, CreateUploadStep
  <1>7. ASSUME DestroyBegin \/ Destructor PROVE Types' /\ Slots'
    BY <1>7, DestroyStep, DestroyAbortStep, AbortTakesCallbackStep, AbortCallsStep
       DEF Destructor, Services
  <1>8. ASSUME UNCHANGED vars PROVE Types' /\ Slots'
    <2>0. Shapes
      BY DEF Types, CurlSideOK, HttpOK
    <2>1. UNCHANGED <<http, curl, aborting, raced, early, info, starting, dtor, answers>>
      BY <1>8 DEF vars, httpVars
    <2>2. Types'
      BY <2>1 DEF Types, LayerOK, CurlSideOK, HttpOK, Shapes, InfoOK, StartingOK, DtorOK,
         AnswersOK, RacedOK, CurlOK, AbortingOK
    <2>3. \A i \in Infos, k \in Services :
            QuietRequest(RequestFor[i, k]) /\ QuietThreads(RequestFor[i, k])
      BY <2>0, <2>1, SameHttp, ControlIsQuiet, RequestIsKnown DEF QuietThreads
    <2> QED
      BY <2>1, <2>2, <2>3, CalmStep
  <1> QED
    BY <1>1, <1>2, <1>3, <1>4, <1>5, <1>6, <1>7, <1>8, <1>9 DEF Next, Operate

(* IInv holds in every reachable state of the layer, curlLoop and abort(). *)
THEOREM Invariance == Spec => []IInv
  <1>1. Init => IInv
    BY InitTypes, InitSlots DEF IInv
  <1> QED
    BY <1>1, NextKeepsIInv, PTL DEF Spec

(* The control of requests, threads and entries keeps its types (RequestInfo, *)
(* HTTPRequest), for any requests, services and ranges.                       *)
THEOREM TypeCorrect == Spec => []TypeOK
  <1>1. IInv => TypeOK
    BY TypesAre DEF IInv
  <1> QED
    BY <1>1, Invariance, PTL

(* The callback of getData is called once, whatever the ends of downloads,   *)
(* retries with the next service and the destructor's abort() do to each     *)
(* other, unless abort() and curlLoop copy the same callback or a retry with *)
(* an empty range calls back (httpCallback, doFetch, curlLoop, abort), for   *)
(* any files, services, uploads and ranges.                                  *)
THEOREM CallbackOnce == Spec => []AnsweredOnce
  <1>1. IInv => AnsweredOnce
    BY DEF IInv, Slots, CountInv, NotRaced, AnsweredOnce, Services
  <1> QED
    BY <1>1, Invariance, PTL

-----------------------------------------------------------------------------
(* The bytes of a transfer *)

ByteRanges == [s : Nat, n : Nat, eof : BOOLEAN]

(* The answer to this range is the right one and put into the right place. *)
Plain(r, h) ==
  IF HostOf[h] \in RangeServers /\ ~Empty(r) THEN r.s # 0 \/ r.eof ELSE r.s = 0

(* n bytes of the file from there on. *)
FileBytes(from, n) == [k \in 1..n |-> from + k - 1]

(* The requests have the fields of the data, too. *)
HasData(q) ==
  {"put", "mRequestedRange", "mOffset", "mUploadOffset", "mData", "header", "expect",
   "server", "sent"} \subseteq DOMAIN q

(* A download that initCurlHandle has set up and whose server has not answered. *)
Fresh(q, r) ==
  /\ q.mRequestedRange = r /\ q.mOffset = r.s /\ q.mData = DenseData(r)
  /\ q.header = RangeHeader(r)

(* The bytes of the file in the range are among size bytes from its start. *)
Covers(size, r) ==
  \A b \in 0..(FileLen - 1) :
    b >= r.s /\ (r.eof \/ b < EndByte(r)) => b - r.s + 1 \in 1..size

(* The answer has size bytes, of which done have been written. *)
Arrived(q, r, size, done) ==
  /\ Covers(size, r)
  /\ q.mOffset = r.s + done
  /\ q.sent = FileBytes(r.s + done, size - done)
  /\ size # 0 =>
       /\ "base" \in DOMAIN q.mData /\ "bytes" \in DOMAIN q.mData
       /\ q.mData.base = r.s
       /\ DOMAIN q.mData.bytes = 1..size /\ Len(q.mData.bytes) = size
       /\ \A k \in 1..done : q.mData.bytes[k] = r.s + k - 1
  /\ q.server = "ok" => done = size /\ size # 0

Answered(q, r) == \E size \in Nat : \E done \in 0..size : Arrived(q, r, size, done)

DownloadOK(q, r, h) ==
  /\ q.handle = "new" => ~q.put /\ Fresh(q, r)
  /\ q.handle = "added" =>
       /\ ~q.put /\ ~q.expect /\ q.server \in {"asked", "sending", "ok", "failed", "417"}
       /\ q.server \in {"asked", "417"} => Fresh(q, r)
       /\ q.server \in {"sending", "ok"} /\ Plain(r, h) => Answered(q, r)

(* What an upload has sent is the beginning of the file. *)
UploadOK(q) ==
  /\ q.handle = "new" => q.put /\ q.mUploadOffset = 0
  /\ q.handle = "added" =>
       /\ q.put
       /\ q.server \in {"asked", "sending", "ok"} =>
            /\ q.mUploadOffset \in 0..FileLen
            /\ q.sent = FileBytes(0, q.mUploadOffset)
            /\ q.server = "ok" => q.mUploadOffset = FileLen

(* curlLoop is going to report the success of h. *)
Reports(h) == curl.pc \in {"freed", "copied", "callback"} /\ h \in curl.h /\ curl.success

(* The destructor has taken over: what is reported for i is ignored. *)
TakenOver(i) == cleanup /\ info[i].st \in {"fetch", "erased"}

DownloadInv(i, k) ==
  LET h == RequestFor[i, k]
      r == info[i].range
  IN  /\ DownloadOK(http[h], r, h)
      /\ Reports(h) => (Plain(r, h) => Right(http[h].mData, r)) \/ TakenOver(i)

UploadInv(u) ==
  /\ UploadOK(http[u])
  /\ Reports(u) => http[u].sent = FileBytes(0, FileLen)

(* Only the destructor aborts. *)
CleanupInv ==
  /\ raced # {} \/ aborting.pc # "idle" => cleanup
  /\ cleanup <=> dtor.pc # "up"

(* The states in which requests of a getData are still to be made, and what *)
(* has gone wrong by then: nothing.                                         *)
Ahead == {"none", "lookup", "create"}

OddInv ==
  \A i \in Infos :
    /\ i \in early => info[i].st = "erased"
    /\ info[i].st \in Ahead => \A k \in Services : RequestFor[i, k] \notin raced

(* A thread has come to the end of h and will call its callback. *)
AtEnd(h) ==
  \/ curl.pc \in {"freed", "copied", "callback"} /\ h \in curl.h
  \/ aborting.pc \in {"copy", "callback"} /\ h \in aborting.h

EndInv == \A h \in Requests : AtEnd(h) => Idle(h)

(* What is about to be started has been set up, or was aborted. *)
StartInv == \A d \in starting : http[d.h].mState = "NEW" => http[d.h].handle = "new"

DataShapes == \A h \in Requests : HasData(http[h])

TransferInv ==
  /\ DataShapes /\ CleanupInv /\ EndInv /\ StartInv /\ TransfersTrue
  /\ \A i \in Infos, k \in Services : DownloadInv(i, k)
  /\ \A u \in Uploads : UploadInv(u)

(* A range has its fields. *)
LEMMA RangeFields ==
  ASSUME NEW r \in ByteRanges
  PROVE  /\ r.s \in Nat /\ r.n \in Nat /\ r.eof \in BOOLEAN /\ EndByte(r) = r.s + r.n
         /\ WholeFile \in ByteRanges
  BY DEF ByteRanges, EndByte, WholeFile

(* HTTPRequest(uri, range) sets up a download; setPUTData() makes it an upload. *)
LEMMA NewIsFresh ==
  ASSUME NEW r \in ByteRanges, NEW p, NEW u,
         p = NewRequest(r, FALSE), u = NewRequest(WholeFile, TRUE)
  PROVE  /\ HasData(p) /\ HasControl(p) /\ Fresh(p, r) /\ ~p.put
         /\ p.handle = "new" /\ p.mState = "NEW"
         /\ HasData(u) /\ HasControl(u) /\ u.put /\ u.mUploadOffset = 0
         /\ u.handle = "new" /\ u.mState = "NEW"
  BY DEF NewRequest, initCurlHandle, NoRequest, HasData, HasControl, Fresh

(* Adding a request to curl leaves its data as it was set up. *)
LEMMA AddedIsFresh ==
  ASSUME NEW q, HasData(q), HasControl(q), NEW h, NEW known
  PROVE  /\ HasData(Added(q, h, known))
         /\ Added(q, h, known).server = "asked" /\ Added(q, h, known).sent = <<>>
         /\ Added(q, h, known).handle = "added" /\ Added(q, h, known).mState = "INPROGRESS"
         /\ Added(q, h, known).put = q.put /\ Added(q, h, known).mUploadOffset = q.mUploadOffset
         /\ ~q.put => ~Added(q, h, known).expect
         /\ Added(q, h, known).mData = q.mData
         /\ \A r : Fresh(q, r) => Fresh(Added(q, h, known), r)
  BY DEF Added, HasData, HasControl, Fresh

(* A retry starts from the beginning. *)
LEMMA RestartedData ==
  ASSUME NEW q, HasData(q), HasControl(q)
  PROVE  /\ HasData(initCurlHandle(q)) /\ HasControl(initCurlHandle(q))
         /\ initCurlHandle(q).put = q.put /\ initCurlHandle(q).mUploadOffset = 0
         /\ initCurlHandle(q).handle = "new"
         /\ \A r : Fresh(q, r) => Fresh(initCurlHandle(q), r)
  BY DEF initCurlHandle, HasData, HasControl, Fresh

(***************************************************************************)
(* What a server sends for a range, apart from the exceptions: the         *)
(* bytes from the start of the range on, up to its end or further.         *)
(***************************************************************************)
LEMMA ServedBytes ==
  ASSUME NEW r \in ByteRanges, NEW h, Plain(r, h), NEW q, q.header = RangeHeader(r)
  PROVE  \E size \in Nat : /\ Served(q, h) = FileBytes(r.s, size)
                           /\ Covers(size, r)
  <1>0. /\ r.s \in Nat /\ r.n \in Nat /\ r.eof \in BOOLEAN /\ EndByte(r) = r.s + r.n
        /\ FileLen \in Nat
    BY RangeFields, TransferAssumption
  <1>1. /\ q.header.first = (IF r.s = 0 \/ Empty(r) THEN {} ELSE {r.s})
        /\ q.header.last = (IF r.eof \/ Empty(r) THEN {} ELSE {EndByte(r)})
    BY DEF RangeHeader
  <1>2. CASE HostOf[h] \in RangeServers /\ r.s # 0 /\ ~Empty(r)
    <2>1. q.header.first = {r.s} /\ (CHOOSE b \in q.header.first : TRUE) = r.s
      BY <1>1, <1>2
    <2> DEFINE last == CHOOSE b \in q.header.last : TRUE
               upTo == IF q.header.last # {} /\ last < FileLen - 1 THEN last ELSE FileLen - 1
    <2>2. Served(q, h) = [k \in 1..(upTo - r.s + 1) |-> r.s + k - 1]
      BY <1>2, <2>1 DEF Served
    <2>3. upTo = IF ~r.eof /\ EndByte(r) < FileLen - 1 THEN EndByte(r) ELSE FileLen - 1
      <3>1. CASE r.eof
        <4>1. q.header.last = {}
          BY <1>1, <3>1
        <4> QED
          BY <3>1, <4>1
      <3>2. CASE ~r.eof
        <4>1. q.header.last = {EndByte(r)} /\ last = EndByte(r)
          BY <1>1, <1>2, <3>2
        <4> QED
          BY <3>2, <4>1
      <3> QED
        BY <1>0, <3>1, <3>2
    <2> HIDE DEF upTo, last
    <2>4. PICK u : u = upTo
      OBVIOUS
    <2>5. u \in Int /\ u = IF ~r.eof /\ EndByte(r) < FileLen - 1 THEN EndByte(r) ELSE FileLen - 1
      BY <1>0, <2>3, <2>4
    <2>6. PICK size \in Nat : size = IF u - r.s + 1 < 0 THEN 0 ELSE u - r.s + 1
      BY <1>0, <2>5
    <2>7. 1..(u - r.s + 1) = 1..size
      BY <1>0, <2>5, <2>6
    <2>8. Served(q, h) = [k \in 1..size |-> r.s + k - 1]
      BY <2>2, <2>4, <2>7
    <2>9. Covers(size, r)
      BY <1>0, <2>5, <2>6 DEF Covers
    <2> QED
      BY <2>8, <2>9 DEF FileBytes
  <1>3. CASE r.s = 0 /\ (HostOf[h] \in RangeServers => r.eof \/ Empty(r))
    <2>1. Served(q, h) = [k \in 1..FileLen |-> k - 1]
      <3>1. CASE HostOf[h] \notin RangeServers
        BY <3>1 DEF Served
      <3>2. CASE HostOf[h] \in RangeServers
        <4>1. q.header.first = {} /\ q.header.last = {}
          BY <1>1, <1>3, <3>2
        <4>2. Served(q, h) = [k \in 1..(FileLen - 1 - 0 + 1) |-> 0 + k - 1]
          BY <3>2, <4>1 DEF Served
        <4>3. 1..(FileLen - 1 - 0 + 1) = 1..FileLen /\ \A k \in 1..FileLen : 0 + k - 1 = k - 1
          BY <1>0
        <4> QED
          BY <4>2, <4>3
      <3> QED
        BY <3>1, <3>2
    <2>2. Served(q, h) = [k \in 1..FileLen |-> r.s + k - 1]
      BY <1>0, <1>3, <2>1
    <2>3. Covers(FileLen, r)
      BY <1>0, <1>3 DEF Covers
    <2> QED
      BY <1>0, <2>2, <2>3 DEF FileBytes
  <1> QED
    BY <1>2, <1>3 DEF Plain

(* setLength: the bytes beyond the old end are zero. *)
LEMMA LengthSet ==
  ASSUME NEW d, "base" \in DOMAIN d, "bytes" \in DOMAIN d, "eof" \in DOMAIN d,
         NEW size \in Nat, NEW eof
  PROVE  /\ DOMAIN SetLength(d, size, eof) = DOMAIN d
         /\ SetLength(d, size, eof).base = d.base
         /\ DOMAIN SetLength(d, size, eof).bytes = 1..size
         /\ Len(SetLength(d, size, eof).bytes) = size
  <1>1. PICK f : f = [k \in 1..size |-> IF k \in DOMAIN d.bytes THEN d.bytes[k] ELSE Zero]
    OBVIOUS
  <1>2. DOMAIN f = 1..size /\ Len(f) = size
    BY <1>1
  <1>3. SetLength(d, size, eof) = [d EXCEPT !.bytes = f, !.eof = eof]
    BY <1>1 DEF SetLength
  <1> QED
    BY <1>2, <1>3

(* The record of a request whose server has answered. *)
AnswerOf(q, h) ==
  LET body == Served(q, h)
      status == IF Ranged(q) /\ HostOf[h] \in RangeServers THEN 206 ELSE 200
  IN  [gotHeader(q, status, Len(body)) EXCEPT !.server = "sending", !.sent = body]

(***************************************************************************)
(* gotHeader of the answer to a plain range: the length of the data is the *)
(* length of the answer, and nothing is written yet.                       *)
(***************************************************************************)
LEMMA AnswerArrives ==
  ASSUME NEW r \in ByteRanges, NEW h, Plain(r, h),
         NEW q, HasData(q), HasControl(q), Fresh(q, r), NEW p, p = AnswerOf(q, h)
  PROVE  Answered(p, r)
  <1>a. PICK body : body = Served(q, h)
    OBVIOUS
  <1>b. PICK status : status = IF Ranged(q) /\ HostOf[h] \in RangeServers THEN 206 ELSE 200
    OBVIOUS
  <1>c. p = [gotHeader(q, status, Len(body)) EXCEPT !.server = "sending", !.sent = body]
    BY <1>a, <1>b, Zenon DEF AnswerOf
  <1>0. /\ r.s \in Nat /\ r.n \in Nat /\ r.eof \in BOOLEAN
        /\ q.mRequestedRange = r /\ q.mOffset = r.s /\ q.header = RangeHeader(r)
        /\ q.mData = DenseData(r)
    BY RangeFields DEF Fresh
  <1>1. PICK size \in Nat : body = FileBytes(r.s, size) /\ Covers(size, r)
    BY <1>0, <1>a, ServedBytes
  <1>2. Len(body) = size
    BY <1>1 DEF FileBytes
  <1> DEFINE whole == status = 200 /\ (~r.eof \/ r.s # 0)
             d0 == DenseData(r)
             d1 == IF whole THEN SetLength([d0 EXCEPT !.base = 0], 0, TRUE) ELSE d0
             range == IF whole THEN WholeFile ELSE r
             d2 == IF size = 0 THEN d1 ELSE SetLength(d1, size, range.eof)
  <1>3. whole => r.s = 0
    <2>1. CASE HostOf[h] \in RangeServers
      <3>1. whole => ~Ranged(q)
        BY <1>b, <2>1
      <3>2. r.s # 0 /\ ~Empty(r) => Ranged(q)
        BY <1>0 DEF Ranged, RangeHeader
      <3> QED
        BY <2>1, <3>1, <3>2 DEF Plain
    <2>2. CASE HostOf[h] \notin RangeServers
      BY <2>2 DEF Plain
    <2> QED
      BY <2>1, <2>2
  <1>4. /\ p.mOffset = q.mOffset /\ p.sent = body /\ p.server = "sending" /\ p.mData = d2
    BY <1>0, <1>2, <1>c DEF gotHeader, HasData
  <1>5. DOMAIN d1 = {"base", "bytes", "eof"} /\ d1.base = r.s
    <2>1. DOMAIN d0 = {"base", "bytes", "eof"} /\ d0.base = r.s
      BY DEF DenseData
    <2>2. PICK e : e = [d0 EXCEPT !.base = 0]
      OBVIOUS
    <2>3. DOMAIN e = {"base", "bytes", "eof"} /\ e.base = 0
      BY <2>1, <2>2
    <2>4. DOMAIN SetLength(e, 0, TRUE) = {"base", "bytes", "eof"} /\ SetLength(e, 0, TRUE).base = 0
      <3>1. "base" \in DOMAIN e /\ "bytes" \in DOMAIN e /\ "eof" \in DOMAIN e /\ 0 \in Nat
        BY <2>3
      <3>2. DOMAIN SetLength(e, 0, TRUE) = DOMAIN e /\ SetLength(e, 0, TRUE).base = e.base
        BY <3>1, LengthSet, Zenon
      <3> QED
        BY <2>3, <3>2, Zenon
    <2>5. CASE whole
      <3>1. d1 = SetLength(e, 0, TRUE)
        BY <2>2, <2>5
      <3> QED
        BY <1>3, <2>4, <2>5, <3>1
    <2>6. CASE ~whole
      BY <2>1, <2>6
    <2> QED
      BY <2>5, <2>6
  <1> HIDE DEF d1, range, whole
  <1>6. size # 0 =>
          /\ "base" \in DOMAIN d2 /\ "bytes" \in DOMAIN d2 /\ d2.base = r.s
          /\ DOMAIN d2.bytes = 1..size /\ Len(d2.bytes) = size
    BY <1>5, LengthSet
  <1> HIDE DEF d2
  <1>7. Arrived(p, r, size, 0)
    <2>1. p.mOffset = r.s + 0
      BY <1>0, <1>4
    <2>2. p.sent = FileBytes(r.s + 0, size - 0)
      <3>1. r.s + 0 = r.s /\ size - 0 = size
        BY <1>0
      <3> QED
        BY <1>1, <1>4, <3>1, Zenon
    <2> QED
      BY <1>1, <1>4, <1>6, <2>1, <2>2 DEF Arrived
  <1>8. 0 \in 0..size
    OBVIOUS
  <1> QED
    BY <1>1, <1>7, <1>8, Zenon DEF Answered

(* Some of these bytes, and the rest. *)
Begins(chunk, a, n) ==
  Len(chunk) = n /\ DOMAIN chunk = 1..n /\ \A k \in 1..n : chunk[k] = a + k - 1

Continues(rest, a, left, n) ==
  rest = FileBytes(a + n, left - n) /\ (rest = <<>> <=> left = n)

(* The first n of some consecutive bytes, and the rest of them. *)
LEMMA Consecutive ==
  ASSUME NEW a \in Nat, NEW left \in Nat, NEW n \in 1..left
  PROVE  /\ Begins(SubSeq(FileBytes(a, left), 1, n), a, n)
         /\ Continues(SubSeq(FileBytes(a, left), n + 1, left), a, left, n)
  <1>0. PICK sent : sent = [k \in 1..left |-> a + k - 1]
    OBVIOUS
  <1>1. sent \in [1..left -> Int]
    BY <1>0
  <1>2. sent \in Seq(Int) /\ Len(sent) = left
    BY <1>1
  <1>3. \A k \in 1..left : sent[k] \in Int /\ sent[k] = a + k - 1
    BY <1>0
  <1>4. PICK from \in Int : from = n + 1
    OBVIOUS
  <1>5. PICK rest : rest = SubSeq(sent, from, left)
    OBVIOUS
  <1>6. /\ rest \in Seq(Int)
        /\ Len(rest) = IF from <= left THEN left - from + 1 ELSE 0
        /\ \A k \in 1..(left - from + 1) : rest[k] = sent[from + k - 1]
    <2>1. \A k \in from..left : sent[k] \in Int
      BY <1>3, <1>4
    <2>2. left \in Int
      OBVIOUS
    <2>3. /\ SubSeq(sent, from, left) \in Seq(Int)
          /\ Len(SubSeq(sent, from, left)) = IF from <= left THEN left - from + 1 ELSE 0
          /\ \A k \in 1..(left - from + 1) : SubSeq(sent, from, left)[k] = sent[from + k - 1]
      BY <2>1, <2>2, SubSeqProperties
    <2> QED
      BY <1>5, <2>3
  <1>7. PICK m \in Nat : m = left - n
    OBVIOUS
  <1>8. /\ \A k \in 1..m : rest[k] = a + n + k - 1
        /\ Len(rest) = m
    <2>1. Len(rest) = m
      BY <1>4, <1>6, <1>7
    <2>2. ASSUME NEW k \in 1..m PROVE rest[k] = a + n + k - 1
      <3>1. k \in 1..(left - from + 1) /\ from + k - 1 \in 1..left /\ from + k - 1 = n + k
        BY <1>4, <1>7
      <3>2. rest[k] = sent[from + k - 1] /\ sent[from + k - 1] = a + (from + k - 1) - 1
        BY <1>3, <1>6, <3>1
      <3> QED
        BY <3>1, <3>2
    <2> QED
      BY <2>1, <2>2
  <1>9. rest = [k \in 1..m |-> a + n + k - 1] /\ (rest = <<>> <=> m = 0)
    <2>1. rest \in [1..m -> Int]
      BY <1>6, <1>8
    <2> QED
      BY <1>6, <1>8, <2>1
  <1>10. PICK chunk : chunk = SubSeq(sent, 1, n)
    OBVIOUS
  <1>11. /\ chunk \in Seq(Int) /\ Len(chunk) = n
         /\ \A k \in 1..n : chunk[k] = sent[k]
    BY <1>2, <1>10
  <1>12. DOMAIN chunk = 1..n /\ \A k \in 1..n : chunk[k] = a + k - 1
    <2>1. DOMAIN chunk = 1..n
      BY <1>11
    <2>2. ASSUME NEW k \in 1..n PROVE chunk[k] = a + k - 1
      <3>1. k \in 1..left
        OBVIOUS
      <3> QED
        BY <1>3, <1>11, <3>1
    <2> QED
      BY <2>1, <2>2
  <1>13. sent = FileBytes(a, left) /\ SubSeq(sent, n + 1, left) = rest
    BY <1>0, <1>4, <1>5 DEF FileBytes
  <1>14. (m = 0 <=> left = n) /\ rest = FileBytes(a + n, left - n)
    BY <1>7, <1>9 DEF FileBytes
  <1> QED
    BY <1>9, <1>10, <1>11, <1>12, <1>13, <1>14, Zenon DEF Begins, Continues

(* As many bytes as there should be. *)
LEMMA BytesLength ==
  ASSUME NEW a \in Nat, NEW n \in Nat
  PROVE  FileBytes(a, n) \in Seq(Int) /\ Len(FileBytes(a, n)) = n
  <1>1. FileBytes(a, n) \in [1..n -> Int]
    BY DEF FileBytes
  <1> QED
    BY <1>1

(* A piece of the answer, and what is left of it. *)
LEMMA PieceOf ==
  ASSUME NEW a \in Nat, NEW left \in Nat, NEW sent, sent = FileBytes(a, left),
         NEW n \in 1..Len(sent)
  PROVE  /\ n \in 1..left
         /\ Begins(SubSeq(sent, 1, n), a, n)
         /\ Continues(SubSeq(sent, n + 1, Len(sent)), a, left, n)
  <1>1. Len(sent) = left /\ n \in 1..left
    BY BytesLength
  <1>2. /\ Begins(SubSeq(FileBytes(a, left), 1, n), a, n)
        /\ Continues(SubSeq(FileBytes(a, left), n + 1, left), a, left, n)
    BY <1>1, Consecutive
  <1> QED
    BY <1>1, <1>2, Zenon

(***************************************************************************)
(* write: the bytes that arrive go behind the ones that have been written, *)
(* and the data is long enough.                                            *)
(***************************************************************************)
LEMMA ChunkArrives ==
  ASSUME NEW r \in ByteRanges, NEW q, HasData(q), HasControl(q), Answered(q, r),
         NEW n \in 1..Len(q.sent),
         NEW rest, rest = SubSeq(q.sent, n + 1, Len(q.sent)),
         NEW p, p = [write(q, SubSeq(q.sent, 1, n)) EXCEPT
                       !.sent = rest, !.server = IF rest = <<>> THEN "ok" ELSE "sending"]
  PROVE  Answered(p, r)
  <1>0. r.s \in Nat
    BY RangeFields
  <1>1. PICK size \in Nat : \E done \in 0..size : Arrived(q, r, size, done)
    BY DEF Answered
  <1>2. PICK done \in 0..size : Arrived(q, r, size, done)
    BY <1>1
  <1>3. PICK left \in Nat : left = size - done
    BY <1>2
  <1>4a. PICK from \in Nat : from = r.s + done
    BY <1>0
  <1>4. q.sent = FileBytes(from, left)
    BY <1>2, <1>3, <1>4a DEF Arrived
  <1>5. Len(q.sent) = left
    BY <1>4, BytesLength
  <1>6. n \in 1..left /\ n \in Nat /\ size # 0
    BY <1>3, <1>5
  <1>7. PICK chunk : chunk = SubSeq(q.sent, 1, n)
    OBVIOUS
  <1>7a. Begins(SubSeq(q.sent, 1, n), from, n) /\ Continues(rest, from, left, n)
    BY <1>3, <1>4a, <1>4, PieceOf
  <1>8. /\ Len(chunk) = n /\ DOMAIN chunk = 1..n
        /\ \A k \in 1..n : chunk[k] = from + k - 1
    BY <1>7a, <1>7, Zenon DEF Begins
  <1>9. rest = FileBytes(from + n, left - n) /\ (rest = <<>> <=> left = n)
    BY <1>7a, Zenon DEF Continues
  <1>10. PICK d, bytes : d = q.mData /\ bytes = d.bytes
    OBVIOUS
  <1>11. /\ "base" \in DOMAIN d /\ "bytes" \in DOMAIN d /\ d.base = r.s
         /\ DOMAIN bytes = 1..size /\ Len(bytes) = size
         /\ \A k \in 1..done : bytes[k] = r.s + k - 1
    BY <1>2, <1>6, <1>10 DEF Arrived
  <1>12. q.mOffset = r.s + done /\ q.mOffset - d.base = done
    BY <1>0, <1>2, <1>11 DEF Arrived
  <1>13. ~(Len(bytes) < done + n)
    BY <1>3, <1>6, <1>11
  <1>14. PICK new : new = [k \in 1..size |-> IF k - done \in DOMAIN chunk THEN chunk[k - done]
                                            ELSE bytes[k]]
    OBVIOUS
  <1>15. p.mData = [d EXCEPT !.bytes = new] /\ p.mOffset = r.s + done + n
    <2>1. write(q, chunk) = [q EXCEPT !.mData = [d EXCEPT !.bytes = new],
                                      !.mOffset = @ + Len(chunk)]
      BY <1>8, <1>10, <1>11, <1>12, <1>13, <1>14 DEF write
    <2> QED
      BY <1>4, <1>7, <1>8, <1>12, <2>1 DEF HasData
  <1>16. p.sent = rest /\ p.server = IF rest = <<>> THEN "ok" ELSE "sending"
    BY DEF write, HasData
  <1>17. \A k \in 1..(done + n) : new[k] = r.s + k - 1
    <2> SUFFICES ASSUME NEW k \in 1..(done + n) PROVE new[k] = r.s + k - 1
      OBVIOUS
    <2>0. k \in 1..size
      BY <1>3, <1>6
    <2>1. CASE k <= done
      <3>1. k - done \notin 1..n /\ k \in 1..done
        BY <2>1
      <3> QED
        BY <1>8, <1>11, <1>14, <2>0, <3>1
    <2>2. CASE ~(k <= done)
      <3>1. k - done \in 1..n
        BY <2>2
      <3>2. new[k] = chunk[k - done]
        BY <1>8, <1>14, <2>0, <3>1
      <3> QED
        BY <1>0, <1>4a, <1>8, <3>1, <3>2
    <2> QED
      BY <2>1, <2>2
  <1>18. Arrived(p, r, size, done + n)
    <2>1. DOMAIN new = 1..size /\ Len(new) = size
      BY <1>14
    <2>2. p.sent = FileBytes(r.s + (done + n), size - (done + n))
      <3>1. left - n = size - (done + n) /\ from + n = r.s + (done + n)
        BY <1>0, <1>3, <1>4a
      <3> QED
        BY <1>9, <1>16, <3>1, Zenon
    <2>3. p.server = "ok" => done + n = size
      BY <1>3, <1>9, <1>16
    <2>4. /\ "base" \in DOMAIN p.mData /\ "bytes" \in DOMAIN p.mData /\ p.mData.base = r.s
          /\ p.mData.bytes = new
      BY <1>11, <1>15
    <2>5. p.mOffset = r.s + (done + n)
      BY <1>0, <1>15
    <2> QED
      BY <1>2, <1>6, <1>17, <2>1, <2>2, <2>3, <2>4, <2>5 DEF Arrived
  <1>19. done + n \in 0..size
    BY <1>3, <1>6
  <1> QED
    BY <1>18, <1>19 DEF Answered

(* A transfer that has come to its end has the right data. *)
LEMMA OkIsRight ==
  ASSUME NEW r \in ByteRanges, NEW q, Answered(q, r), q.server = "ok"
  PROVE  Right(q.mData, r)
  <1>0. r.s \in Nat /\ r.n \in Nat /\ FileLen \in Nat
    BY RangeFields, TransferAssumption
  <1>1. PICK size \in Nat : \E done \in 0..size : Arrived(q, r, size, done)
    BY DEF Answered
  <1>2. PICK done \in 0..size : Arrived(q, r, size, done)
    BY <1>1
  <1>3. PICK d : d = q.mData
    OBVIOUS
  <1>4. /\ done = size /\ d.base = r.s /\ DOMAIN d.bytes = 1..size
        /\ \A k \in 1..size : d.bytes[k] = r.s + k - 1
    BY <1>2, <1>3 DEF Arrived
  <1>5. Covers(size, r)
    BY <1>2 DEF Arrived
  <1>6. ASSUME NEW b \in 0..(FileLen - 1), NEW k, k = b - d.base + 1
        PROVE  /\ k \in DOMAIN d.bytes => d.bytes[k] = b
               /\ b >= r.s /\ (r.eof \/ b < EndByte(r)) => k \in DOMAIN d.bytes
    <2>1. k = b - r.s + 1 /\ k \in Int
      BY <1>0, <1>4, <1>6
    <2>2. k \in 1..size => d.bytes[k] = b
      BY <1>0, <1>4, <2>1
    <2>3. b >= r.s /\ (r.eof \/ b < EndByte(r)) => k \in 1..size
      BY <1>5, <2>1 DEF Covers
    <2> QED
      BY <1>4, <2>2, <2>3
  <1> QED
    BY <1>3, <1>6 DEF Right

-----------------------------------------------------------------------------
(* What a step may do without touching the transfers *)

Steady(h) == http'[h] = http[h] /\ (Reports(h)' => Reports(h))

EntryKept(i) == info'[i].range = info[i].range /\ (TakenOver(i) => TakenOver(i)')

EndKept(h) == AtEnd(h)' => Idle(h)' \/ (AtEnd(h) /\ (Idle(h) => Idle(h)'))

StartKept(h) ==
  http'[h].mState = "NEW" =>
    \/ http'[h].handle = "new"
    \/ http[h].mState = "NEW" /\ http'[h].handle = http[h].handle

(* A download that nobody touches. *)
LEMMA SteadyDownload ==
  ASSUME NEW i \in Infos, NEW k \in Services, DownloadInv(i, k),
         Steady(RequestFor[i, k]), EntryKept(i)
  PROVE  DownloadInv(i, k)'
  <1>1. PICK h, q, r : h = RequestFor[i, k] /\ q = http[h] /\ r = info[i].range
    OBVIOUS
  <1>2. http'[h] = q /\ info'[i].range = r /\ (Reports(h)' => Reports(h))
    BY <1>1 DEF Steady, EntryKept
  <1>3. DownloadOK(q, r, h) /\ (Reports(h) => (Plain(r, h) => Right(q.mData, r)) \/ TakenOver(i))
    BY <1>1, Zenon DEF DownloadInv
  <1>4. TakenOver(i) => TakenOver(i)'
    BY DEF EntryKept
  <1>5. /\ DownloadOK(http'[h], info'[i].range, h)
        /\ Reports(h)' => (Plain(info'[i].range, h) => Right(http'[h].mData, info'[i].range))
                          \/ TakenOver(i)'
    BY <1>2, <1>3, <1>4, Zenon
  <1> QED
    BY <1>1, <1>5, Zenon DEF DownloadInv

(* An upload that nobody touches. *)
LEMMA SteadyUpload ==
  ASSUME NEW u \in Uploads, UploadInv(u), Steady(u)
  PROVE  UploadInv(u)'
  BY DEF UploadInv, Steady

(* One request changes. *)
LEMMA OneTransfer ==
  ASSUME TransferInv, NEW h \in Requests, HasData(http'[h]),
         \A g \in Requests \ {h} : Steady(g), \A i \in Infos : EntryKept(i),
         CleanupInv', EndInv', StartInv', TransfersTrue',
         \A i \in Infos, k \in Services : RequestFor[i, k] = h => DownloadInv(i, k)',
         h \in Uploads => UploadInv(h)'
  PROVE  TransferInv'
  <1>1. DataShapes'
    <2> SUFFICES ASSUME NEW g \in Requests PROVE HasData(http'[g])
      BY DEF DataShapes
    <2>1. HasData(http[g])
      BY DEF TransferInv, DataShapes
    <2> QED
      BY <2>1 DEF Steady
  <1>2. ASSUME NEW i \in Infos, NEW k \in Services PROVE DownloadInv(i, k)'
    <2>1. CASE RequestFor[i, k] = h
      BY <2>1
    <2>2. CASE RequestFor[i, k] # h
      <3>1. Steady(RequestFor[i, k])
        BY <2>2, RequestIsKnown
      <3>2. DownloadInv(i, k)
        BY DEF TransferInv
      <3> QED
        BY <3>1, <3>2, SteadyDownload
    <2> QED
      BY <2>1, <2>2
  <1>3. ASSUME NEW u \in Uploads PROVE UploadInv(u)'
    <2>1. CASE u = h
      BY <2>1
    <2>2. CASE u # h
      <3>1. Steady(u)
        BY <2>2, NetworkAssumption
      <3>2. UploadInv(u)
        BY DEF TransferInv
      <3> QED
        BY <3>1, <3>2, SteadyUpload
    <2> QED
      BY <2>1, <2>2
  <1> QED
    BY <1>1, <1>2, <1>3 DEF TransferInv

(* No request changes. *)
LEMMA NoTransfer ==
  ASSUME TransferInv, \A g \in Requests : Steady(g), \A i \in Infos : EntryKept(i),
         CleanupInv', EndInv', StartInv', TransfersTrue'
  PROVE  TransferInv'
  <1>1. DataShapes'
    <2> SUFFICES ASSUME NEW g \in Requests PROVE HasData(http'[g])
      BY DEF DataShapes
    <2>1. HasData(http[g])
      BY DEF TransferInv, DataShapes
    <2> QED
      BY <2>1 DEF Steady
  <1>2. ASSUME NEW i \in Infos, NEW k \in Services PROVE DownloadInv(i, k)'
    <2>1. Steady(RequestFor[i, k]) /\ DownloadInv(i, k)
      BY RequestIsKnown DEF TransferInv
    <2> QED
      BY <2>1, SteadyDownload
  <1>3. ASSUME NEW u \in Uploads PROVE UploadInv(u)'
    <2>1. Steady(u) /\ UploadInv(u)
      BY NetworkAssumption DEF TransferInv
    <2> QED
      BY <2>1, SteadyUpload
  <1> QED
    BY <1>1, <1>2, <1>3 DEF TransferInv

(* What is being started and what comes to its end stay so. *)
LEMMA ControlStays ==
  ASSUME TransferInv, StartingOK, \A g \in Requests : EndKept(g) /\ StartKept(g),
         \A d \in starting' : d \in starting \/ http'[d.h].handle = "new"
  PROVE  EndInv' /\ StartInv'
  <1>1. ASSUME NEW g \in Requests, AtEnd(g)' PROVE Idle(g)'
    BY <1>1 DEF EndKept, TransferInv, EndInv
  <1>2. ASSUME NEW d \in starting', http'[d.h].mState = "NEW" PROVE http'[d.h].handle = "new"
    <2>1. CASE http'[d.h].handle = "new"
      BY <2>1
    <2>2. CASE d \in starting
      <3>1. d.h \in Requests
        BY <2>2 DEF StartingOK
      <3>2. StartKept(d.h)
        BY <3>1
      <3>3. http[d.h].mState = "NEW" => http[d.h].handle = "new"
        BY <2>2 DEF TransferInv, StartInv
      <3> QED
        BY <1>2, <3>2, <3>3, Zenon DEF StartKept
    <2> QED
      BY <2>1, <2>2
  <1>3. EndInv'
    BY <1>1 DEF EndInv
  <1>4. StartInv'
    BY <1>2 DEF StartInv
  <1> QED
    BY <1>3, <1>4

(* A request whose control stays. *)
LEMMA ControlIsKept ==
  ASSUME NEW g, SameControl(http'[g], http[g]), AtEnd(g)' => AtEnd(g)
  PROVE  EndKept(g) /\ StartKept(g)
  <1>1. Idle(g) => Idle(g)'
    BY DEF SameControl, Idle
  <1> QED
    BY <1>1 DEF SameControl, EndKept, StartKept

(* A thread that ends its callback reports nothing more. *)
LEMMA QuietReports ==
  ASSUME NEW g, QuietThreads(g)
  PROVE  (Reports(g)' => Reports(g)) /\ (AtEnd(g)' => AtEnd(g))
  BY DEF QuietThreads, Reports, AtEnd

(* Only the destructor lets somebody abort. *)
LEMMA CleanupStays ==
  ASSUME TransferInv, cleanup' = cleanup, raced' = raced,
         aborting'.pc # "idle" => aborting.pc # "idle", dtor'.pc = "up" <=> dtor.pc = "up"
  PROVE  CleanupInv'
  BY DEF TransferInv, CleanupInv

(* What is wrong stays explained. *)
LEMMA WrongStays ==
  ASSUME TransferInv, wrong' = wrong
  PROVE  TransfersTrue'
  BY DEF TransferInv, TransfersTrue

(* An entry that stays. *)
LEMMA EntryStays ==
  ASSUME NEW i \in Infos, info'[i] = info[i], cleanup' = cleanup
  PROVE  EntryKept(i)
  BY DEF EntryKept, TakenOver

(* A step that leaves all requests alone. *)
LEMMA CalmTransfer ==
  ASSUME Types, TransferInv, http' = http, starting' \subseteq starting, wrong' = wrong,
         \A g \in Requests : (Reports(g)' => Reports(g)) /\ (AtEnd(g)' => AtEnd(g)),
         \A i \in Infos : EntryKept(i), CleanupInv'
  PROVE  TransferInv'
  <1>1. Shapes /\ StartingOK
    BY DEF Types, LayerOK, CurlSideOK, HttpOK
  <1>2. \A g \in Requests : SameControl(http'[g], http[g])
    BY <1>1, SameHttp
  <1>3. \A g \in Requests : Steady(g) /\ EndKept(g) /\ StartKept(g)
    BY <1>2, ControlIsKept DEF Steady
  <1>4. EndInv' /\ StartInv'
    BY <1>1, <1>3, ControlStays
  <1>5. TransfersTrue'
    BY WrongStays
  <1> QED
    BY <1>3, <1>4, <1>5, NoTransfer

(* A thread that returns reports nothing more, and starts no abort(). *)
LEMMA ReturnsCalm ==
  ASSUME Types, NEW by \in Threads, Returns(by)
  PROVE  /\ \A g \in Requests : (Reports(g)' => Reports(g)) /\ (AtEnd(g)' => AtEnd(g))
         /\ aborting'.pc # "idle" => aborting.pc # "idle"
  <1>1. CurlOK /\ AbortingOK
    BY DEF Types, CurlSideOK
  <1>2. Leaves(by)
    BY <1>1, ReturnsLeaves
  <1>3. \A g \in Requests : QuietThreads(g)
    BY <1>2, LeavesIsQuiet
  <1>4. aborting'.pc # "idle" => aborting.pc # "idle"
    BY DEF Returns
  <1> QED
    BY <1>3, <1>4, QuietReports

(* Erasing an entry does not begin the destructor, nor take anything back. *)
LEMMA EraseKeeps ==
  ASSUME Types, NEW i \in Infos, Erase(i), cleanup' = cleanup
  PROVE  /\ dtor'.pc = "up" <=> dtor.pc = "up"
         /\ \A j \in Infos : EntryKept(j)
  <1>1. InfoOK /\ DtorOK
    BY DEF Types, LayerOK
  <1>2. dtor'.pc = "up" <=> dtor.pc = "up"
    BY <1>1 DEF DtorOK, Erase
  <1>3. info'[i].st = "erased" /\ info'[i].range = info[i].range
    BY <1>1 DEF Erase, InfoOK, InfoRecords
  <1>4. EntryKept(i)
    BY <1>3 DEF EntryKept, TakenOver
  <1>5. \A j \in Infos \ {i} : info'[j] = info[j]
    BY <1>1, EraseInfo
  <1> QED
    BY <1>2, <1>4, <1>5, EntryStays

(* A step of doFetch before the request is made. *)
LEMMA FetchTransfer ==
  ASSUME Types, TransferInv, NEW i \in Infos, gotServices(i) \/ TestCleanup(i) \/ NoHandler(i)
  PROVE  TransferInv'
  <1>0. InfoOK
    BY DEF Types, LayerOK
  <1>1. UNCHANGED <<http, curl, aborting, raced, starting, cleanup, dtor, wrong>>
    BY DEF gotServices, TestCleanup, NoHandler, httpVars, ghosts
  <1>2. EntryKept(i)
    <2>1. CASE gotServices(i)
      BY <1>0, <2>1 DEF gotServices, EntryKept, TakenOver, InfoOK, InfoRecords
    <2>2. CASE NoHandler(i)
      BY <1>0, <2>2 DEF NoHandler, EntryKept, TakenOver, InfoOK, InfoRecords
    <2>3. CASE TestCleanup(i)
      BY <1>0, <2>3 DEF TestCleanup, EntryKept, TakenOver, InfoOK, InfoRecords
    <2> QED
      BY <2>1, <2>2, <2>3
  <1>3. \A j \in Infos \ {i} : info'[j] = info[j]
    BY <1>0, GotServicesInfo, TestCleanupInfo, NoHandlerInfo
  <1>4. \A j \in Infos : EntryKept(j)
    BY <1>1, <1>2, <1>3, EntryStays
  <1>5. \A g \in Requests : (Reports(g)' => Reports(g)) /\ (AtEnd(g)' => AtEnd(g))
    BY <1>1 DEF Reports, AtEnd
  <1>6. CleanupInv'
    BY <1>1, CleanupStays
  <1> QED
    BY <1>1, <1>4, <1>5, <1>6, CalmTransfer

(* doFetch gives up. *)
LEMMA GiveUpTransfer ==
  ASSUME Types, TransferInv, NEW i \in Infos, GiveUp(i)
  PROVE  TransferInv'
  <1>1. /\ Erase(i) /\ Returns(info[i].by)
        /\ UNCHANGED <<http, raced, starting, cleanup, wrong>>
    BY DEF GiveUp
  <1>2. info[i].by \in Threads
    BY DEF Types, LayerOK, InfoOK, InfoRecords
  <1>3. /\ \A g \in Requests : (Reports(g)' => Reports(g)) /\ (AtEnd(g)' => AtEnd(g))
        /\ aborting'.pc # "idle" => aborting.pc # "idle"
    BY <1>1, <1>2, ReturnsCalm
  <1>4. (dtor'.pc = "up" <=> dtor.pc = "up") /\ \A j \in Infos : EntryKept(j)
    BY <1>1, EraseKeeps
  <1>5. CleanupInv'
    BY <1>1, <1>3, <1>4, CleanupStays
  <1> QED
    BY <1>1, <1>3, <1>4, <1>5, CalmTransfer

(* go() throws. *)
LEMMA GoThrowsTransfer ==
  ASSUME Types, TransferInv, NEW d \in starting, GoThrows(d)
  PROVE  TransferInv'
  <1>1. /\ starting' \subseteq starting
        /\ curl' = curl \/ curl' = [curl EXCEPT !.pc = "terminated"]
        /\ UNCHANGED <<http, aborting, raced, info, cleanup, dtor, wrong>>
    BY DEF GoThrows, ghosts
  <1>2. curl' = curl \/ (curl'.h = curl.h /\ curl'.pc = "terminated")
    BY <1>1 DEF Types, CurlSideOK, CurlOK
  <1>3. /\ \A g \in Requests : (Reports(g)' => Reports(g)) /\ (AtEnd(g)' => AtEnd(g))
        /\ aborting'.pc # "idle" => aborting.pc # "idle"
    BY <1>1, <1>2 DEF Reports, AtEnd
  <1>4. \A j \in Infos : EntryKept(j)
    BY <1>1, EntryStays
  <1>5. CleanupInv'
    BY <1>1, <1>3, CleanupStays
  <1> QED
    BY <1>1, <1>3, <1>4, <1>5, CalmTransfer

(* select() and the copying of the callback. *)
LEMMA LoopTransfer ==
  ASSUME Types, TransferInv, NetworkOnly,
         Select \/ SelectReturns \/ \E h \in Requests : CopyCallback(h)
  PROVE  TransferInv'
  <1>1. UNCHANGED <<http, aborting, raced, info, starting, cleanup, dtor, wrong>>
    BY DEF Select, SelectReturns, CopyCallback, NetworkOnly, ghosts
  <1>2. \A g \in Requests : (Reports(g)' => Reports(g)) /\ (AtEnd(g)' => AtEnd(g))
    <2>0. CurlOK
      BY DEF Types, CurlSideOK
    <2>1. CASE Select \/ SelectReturns
      <3>1. curl'.pc \in {"select", "loop"}
        BY <2>0, <2>1 DEF Select, SelectReturns, CurlOK
      <3> QED
        BY <1>1, <3>1 DEF Reports, AtEnd
    <2>2. CASE \E h \in Requests : CopyCallback(h)
      <3>1. curl.pc = "freed" /\ curl'.h = curl.h /\ curl'.success = curl.success
        BY <2>0, <2>2 DEF CopyCallback, CurlOK
      <3> QED
        BY <1>1, <3>1 DEF Reports, AtEnd
    <2> QED
      BY <2>1, <2>2
  <1>3. \A j \in Infos : EntryKept(j)
    BY <1>1, EntryStays
  <1>4. CleanupInv'
    BY <1>1, CleanupStays
  <1> QED
    BY <1>1, <1>2, <1>3, <1>4, CalmTransfer

(* The destructor begins, collects and waits. *)
LEMMA DestroyTransfer ==
  ASSUME Types, TransferInv, DestroyBegin \/ DestroyCollect \/ DestroyWait
  PROVE  TransferInv'
  <1>0. DtorOK /\ CleanupInv
    BY DEF Types, LayerOK, TransferInv
  <1>1. UNCHANGED <<http, curl, aborting, raced, info, starting, wrong>>
    BY DEF DestroyBegin, DestroyCollect, DestroyWait, httpVars, ghosts
  <1>2. \A g \in Requests : (Reports(g)' => Reports(g)) /\ (AtEnd(g)' => AtEnd(g))
    BY <1>1 DEF Reports, AtEnd
  <1>3. cleanup' /\ dtor'.pc # "up"
    <2>1. CASE DestroyBegin
      BY <1>0, <2>1 DEF DestroyBegin, DtorOK
    <2>2. CASE DestroyCollect
      BY <1>0, <2>2 DEF DestroyCollect, CleanupInv
    <2>3. CASE DestroyWait
      <3>1. cleanup /\ cleanup' = cleanup
        BY <1>0, <2>3 DEF DestroyWait, CleanupInv
      <3>2. dtor'.pc # "up"
        BY <1>0, <2>3 DEF DestroyWait, DtorOK
      <3> QED
        BY <3>1, <3>2
    <2> QED
      BY <2>1, <2>2, <2>3
  <1>4. \A j \in Infos : EntryKept(j)
    BY <1>1, <1>3 DEF EntryKept, TakenOver
  <1>5. CleanupInv'
    BY <1>3 DEF CleanupInv
  <1> QED
    BY <1>1, <1>2, <1>4, <1>5, CalmTransfer

(* Nothing is said of a request that does not exist. *)
LEMMA UntouchedTransfer ==
  ASSUME Slots, OddInv, NEW i \in Infos, NEW k \in Services, IsFresh(i, k),
         info[i].st \in Ahead, NEW h, h = RequestFor[i, k]
  PROVE  http[h].handle = "none" /\ ~AtEnd(h) /\ ~Reports(h)
  <1>2. NotRaced(i)
    BY DEF OddInv, Ahead, NotRaced
  <1>3. Untouched(h)
    BY <1>2 DEF Slots, SlotInv
  <1> QED
    BY <1>3 DEF Untouched, AtEnd, Reports

(* getData: the range of an entry is set before there are requests for it. *)
LEMMA GetDataTransfer ==
  ASSUME Types, Slots, OddInv, TransferInv, NEW i \in Infos, NEW r \in Ranges, getData(i, r)
  PROVE  TransferInv'
  <1>0. InfoOK /\ Shapes /\ StartingOK
    BY DEF Types, LayerOK, CurlSideOK, HttpOK
  <1>1. UNCHANGED <<http, curl, aborting, raced, starting, cleanup, dtor, wrong>>
    BY DEF getData, httpVars, ghosts
  <1>2. info[i].st = "none" /\ \A j \in Infos \ {i} : info'[j] = info[j]
    BY <1>0, GetDataInfo
  <1>4. \A g \in Requests : /\ SameControl(http'[g], http[g]) /\ (AtEnd(g)' => AtEnd(g))
                            /\ (Reports(g)' => Reports(g))
    BY <1>0, <1>1, SameHttp DEF AtEnd, Reports
  <1>5. EndInv' /\ StartInv'
    BY <1>0, <1>1, <1>4, ControlIsKept, ControlStays
  <1>6. CleanupInv' /\ TransfersTrue'
    BY <1>1, CleanupStays, WrongStays
  <1>7. ASSUME NEW j \in Infos, NEW k \in Services PROVE DownloadInv(j, k)'
    <2>1. CASE j = i
      <3>1. PICK h : h = RequestFor[i, k]
        OBVIOUS
      <3>2. http[h].handle = "none" /\ ~Reports(h)
        BY <1>2, <3>1, UntouchedTransfer DEF IsFresh, Ahead
      <3>3. http'[h].handle = "none" /\ ~Reports(h)'
        BY <1>1, <3>2 DEF Reports
      <3> QED
        BY <2>1, <3>1, <3>3 DEF DownloadInv, DownloadOK
    <2>2. CASE j # i
      <3>1. EntryKept(j) /\ Steady(RequestFor[j, k]) /\ DownloadInv(j, k)
        BY <1>1, <1>2, <1>4, <2>2, EntryStays, RequestIsKnown DEF Steady, TransferInv
      <3> QED
        BY <3>1, SteadyDownload
    <2> QED
      BY <2>1, <2>2
  <1>8. ASSUME NEW u \in Uploads PROVE UploadInv(u)'
    <2>1. Steady(u) /\ UploadInv(u)
      BY <1>1, <1>4, NetworkAssumption DEF Steady, TransferInv
    <2> QED
      BY <2>1, SteadyUpload
  <1>9. DataShapes'
    BY <1>1 DEF TransferInv, DataShapes
  <1> QED
    BY <1>5, <1>6, <1>7, <1>8, <1>9 DEF TransferInv

(* The control of one request changes. *)
LEMMA OneControl ==
  ASSUME Types, NEW h \in Requests, \A g \in Requests \ {h} : http'[g] = http[g],
         \A g \in Requests \ {h} : AtEnd(g)' => AtEnd(g), TransferInv,
         EndKept(h), StartKept(h),
         \A d \in starting' : d \in starting \/ http'[d.h].handle = "new"
  PROVE  EndInv' /\ StartInv'
  <1>1. StartingOK /\ \A g \in Requests : HasControl(http[g])
    BY DEF Types, LayerOK, CurlSideOK, HttpOK, Shapes
  <1>2. \A g \in Requests \ {h} : SameControl(http'[g], http[g])
    BY <1>1 DEF SameControl
  <1>3. \A g \in Requests : EndKept(g) /\ StartKept(g)
    BY <1>2, ControlIsKept
  <1> QED
    BY <1>1, <1>3, ControlStays

(* download: the request for the current service is made. *)
LEMMA CreateDownloadTransfer ==
  ASSUME Types, Slots, OddInv, TransferInv, NEW i \in Infos, CreateDownload(i)
  PROVE  TransferInv'
  <1>0. InfoOK /\ Shapes
    BY DEF Types, LayerOK, CurlSideOK, HttpOK
  <1>1. /\ info[i].which \in Services /\ Current(i) \in Requests
        /\ info[i].st = "create" /\ \A j \in Infos \ {i} : info'[j] = info[j]
    BY <1>0, CreateInfo
  <1>2. PICK k \in Services : k = info[i].which
    BY <1>1
  <1>2a. PICK h \in Requests : h = RequestFor[i, k]
    BY <1>1, <1>2 DEF Current
  <1>3. PICK r : r = info[i].range
    OBVIOUS
  <1>4. r \in ByteRanges
    <2>1. r \in Ranges \cup {WholeFile}
      BY <1>0, <1>3 DEF InfoOK, InfoRecords
    <2>2. Ranges \subseteq ByteRanges
      BY TransferAssumption, Zenon DEF ByteRanges
    <2>3. WholeFile \in ByteRanges
      BY DEF ByteRanges, WholeFile
    <2> QED
      BY <2>1, <2>2, <2>3, Zenon
  <1>5. PICK q : q = NewRequest(r, FALSE)
    OBVIOUS
  <1>6. /\ HasData(q) /\ Fresh(q, r) /\ ~q.put /\ q.handle = "new" /\ q.mState = "NEW"
        /\ HasControl(q)
    BY <1>4, <1>5, NewIsFresh, Zenon
  <1>7. /\ http' = [http EXCEPT ![h] = q]
        /\ starting' = starting \cup {[h |-> h, by |-> info[i].by]}
        /\ UNCHANGED <<curl, aborting, raced, cleanup, dtor, wrong>>
    BY <1>2, <1>2a, <1>3, <1>5 DEF CreateDownload, Current, ghosts
  <1>8. http'[h] = q /\ \A g \in Requests \ {h} : http'[g] = http[g]
    BY <1>0, <1>6, <1>7, OneChanges
  <1>9. ~AtEnd(h) /\ ~Reports(h)
    <2>1. IsFresh(i, k)
      BY <1>1, <1>2, ServiceOrder, Zenon DEF IsFresh
    <2> QED
      BY <1>1, <1>2a, <2>1, UntouchedTransfer DEF Ahead
  <1>10. \A g \in Requests : (AtEnd(g)' <=> AtEnd(g)) /\ (Reports(g)' <=> Reports(g))
    BY <1>7 DEF AtEnd, Reports
  <1>11. info'[i].range = r
    BY <1>0, <1>3 DEF CreateDownload, InfoOK, InfoRecords
  <1>12. \A j \in Infos : EntryKept(j)
    <2>1. EntryKept(i)
      BY <1>1, <1>3, <1>7, <1>11 DEF EntryKept, TakenOver
    <2> QED
      BY <1>1, <1>7, <2>1, EntryStays
  <1>13. CleanupInv' /\ TransfersTrue'
    BY <1>7, CleanupStays, WrongStays
  <1>14. EndInv' /\ StartInv'
    <2>1. EndKept(h) /\ StartKept(h)
      BY <1>6, <1>8, <1>9, <1>10 DEF EndKept, StartKept
    <2>2. \A d \in starting' : d \in starting \/ http'[d.h].handle = "new"
      BY <1>6, <1>7, <1>8
    <2> QED
      BY <1>8, <1>10, <2>1, <2>2, OneControl
  <1>15. ASSUME NEW j \in Infos, NEW l \in Services, RequestFor[j, l] = h
         PROVE  DownloadInv(j, l)'
    <2>1. j = i
      BY <1>2a, <1>15, RequestsDiffer
    <2>2. DownloadOK(q, r, h)
      BY <1>6 DEF DownloadOK
    <2>3. ~Reports(h)'
      BY <1>9, <1>10
    <2> QED
      BY <1>8, <1>11, <1>15, <2>1, <2>2, <2>3, Zenon DEF DownloadInv
  <1>16. h \notin Uploads
    BY <1>2a, RequestIsKnown
  <1>17. \A g \in Requests \ {h} : Steady(g)
    BY <1>8, <1>10 DEF Steady
  <1> QED
    BY <1>6, <1>8, <1>12, <1>13, <1>14, <1>15, <1>16, <1>17, OneTransfer

(* Adding a download to curl. *)
LEMMA AddedDownload ==
  ASSUME NEW q, HasData(q), HasControl(q), NEW h, NEW g, NEW known, NEW r,
         DownloadOK(q, r, g), q.handle = "new"
  PROVE  DownloadOK(Added(q, h, known), r, g)
  <1>1. ~q.put /\ Fresh(q, r)
    BY DEF DownloadOK
  <1>2. PICK p : p = Added(q, h, known)
    OBVIOUS
  <1>3. p.server = "asked" /\ p.handle = "added" /\ ~p.put /\ ~p.expect /\ Fresh(p, r)
    <2>1. p.server = "asked" /\ p.handle = "added" /\ ~p.expect /\ Fresh(p, r)
      BY <1>1, <1>2, AddedIsFresh
    <2>2. p.put = q.put
      BY <1>2, AddedIsFresh
    <2> QED
      BY <1>1, <2>1, <2>2, Zenon
  <1> QED
    BY <1>2, <1>3 DEF DownloadOK

(* Nothing has been sent of an upload that is added. *)
LEMMA AddedUpload ==
  ASSUME NEW q, HasData(q), HasControl(q), NEW h, NEW known, q.put, q.mUploadOffset = 0
  PROVE  UploadOK(Added(q, h, known))
  <1>1. PICK p : p = Added(q, h, known)
    OBVIOUS
  <1>2. /\ p.server = "asked" /\ p.handle = "added" /\ p.mUploadOffset = q.mUploadOffset
        /\ p.sent = <<>>
    BY <1>1, AddedIsFresh
  <1>3. FileBytes(0, 0) = <<>> /\ 0 \in 0..FileLen
    BY TransferAssumption DEF FileBytes
  <1>4. p.put
    BY <1>1 DEF Added, HasData
  <1>5. p.sent = FileBytes(0, p.mUploadOffset) /\ p.mUploadOffset \in 0..FileLen
    BY <1>2, <1>3
  <1> QED
    BY <1>1, <1>2, <1>4, <1>5 DEF UploadOK

(* go() adds a request that was set up and is at no end. *)
LEMMA StartDownloadTransfer ==
  ASSUME Types, TransferInv, NEW d \in starting, StartDownload(d)
  PROVE  TransferInv'
  <1>0. Shapes /\ StartingOK
    BY DEF Types, LayerOK, CurlSideOK, HttpOK
  <1>1. PICK h \in Requests : h = d.h
    BY <1>0 DEF StartingOK
  <1>2. PICK q : q = http[h]
    OBVIOUS
  <1>3. HasData(q) /\ HasControl(q)
    BY <1>0, <1>2 DEF TransferInv, DataShapes, Shapes
  <1>4. PICK p : p = Added(q, h, properties)
    OBVIOUS
  <1>5. /\ http' = [http EXCEPT ![h] = p] /\ q.mState = "NEW"
        /\ starting' \subseteq starting /\ Returns(d.by)
        /\ UNCHANGED <<raced, info, cleanup, dtor, wrong>>
    BY <1>1, <1>2, <1>4 DEF StartDownload, go, CanGo, ghosts
  <1>6. HasControl(p) /\ HasData(p) /\ p.mState = "INPROGRESS"
    BY <1>3, <1>4, AddedControl, AddedIsFresh
  <1>7. http'[h] = p /\ \A g \in Requests \ {h} : http'[g] = http[g]
    BY <1>0, <1>5, <1>6, OneChanges
  <1>8. q.handle = "new"
    BY <1>1, <1>2, <1>5 DEF TransferInv, StartInv
  <1>9. ~AtEnd(h)
    BY <1>2, <1>5 DEF TransferInv, EndInv, Idle
  <1>10. d.by \in Threads
    BY <1>0 DEF StartingOK
  <1>11. /\ \A g \in Requests : (Reports(g)' => Reports(g)) /\ (AtEnd(g)' => AtEnd(g))
         /\ aborting'.pc # "idle" => aborting.pc # "idle"
    BY <1>5, <1>10, ReturnsCalm
  <1>12. ~Reports(h)'
    BY <1>9, <1>11 DEF AtEnd, Reports
  <1>13. \A j \in Infos : EntryKept(j)
    BY <1>5, EntryStays
  <1>14. CleanupInv' /\ TransfersTrue'
    BY <1>5, <1>11, CleanupStays, WrongStays
  <1>15. EndInv' /\ StartInv'
    <2>1. EndKept(h) /\ StartKept(h)
      BY <1>6, <1>7, <1>9, <1>11 DEF EndKept, StartKept
    <2>2. \A c \in starting' : c \in starting
      BY <1>5
    <2> QED
      BY <1>7, <1>11, <2>1, <2>2, OneControl
  <1>16. ASSUME NEW j \in Infos, NEW l \in Services, RequestFor[j, l] = h
         PROVE  DownloadInv(j, l)'
    <2>1. PICK r : r = info[j].range
      OBVIOUS
    <2>2. DownloadOK(q, r, h)
      BY <1>2, <1>16, <2>1, Zenon DEF TransferInv, DownloadInv
    <2>3. DownloadOK(p, r, h)
      BY <1>3, <1>4, <1>8, <2>2, AddedDownload
    <2>4. info'[j].range = r
      BY <1>5, <2>1
    <2> QED
      BY <1>7, <1>12, <1>16, <2>3, <2>4, Zenon DEF DownloadInv
  <1>17. ASSUME h \in Uploads PROVE UploadInv(h)'
    <2>1. UploadOK(q)
      BY <1>2, <1>17 DEF TransferInv, UploadInv
    <2>2. q.put /\ q.mUploadOffset = 0
      BY <1>8, <2>1 DEF UploadOK
    <2>3. UploadOK(p)
      BY <1>3, <1>4, <2>2, AddedUpload
    <2> QED
      BY <1>7, <1>12, <2>3 DEF UploadInv
  <1>18. \A g \in Requests \ {h} : Steady(g)
    BY <1>7, <1>11 DEF Steady
  <1> QED
    BY <1>6, <1>7, <1>13, <1>14, <1>15, <1>16, <1>17, <1>18, OneTransfer

(* An upload is made of a request that does not exist. *)
LEMMA CreateUploadTransfer ==
  ASSUME Types, TransferInv, NEW u \in Uploads, CreateUpload(u)
  PROVE  TransferInv'
  <1>0. Shapes /\ u \in Requests
    BY NetworkAssumption DEF Types, CurlSideOK, HttpOK
  <1>1. PICK q : q = NewRequest(WholeFile, TRUE)
    OBVIOUS
  <1>2. /\ HasData(q) /\ HasControl(q) /\ q.put /\ q.mUploadOffset = 0
        /\ q.handle = "new" /\ q.mState = "NEW"
    <2>1. WholeFile \in ByteRanges
      BY DEF ByteRanges, WholeFile
    <2> QED
      BY <1>1, <2>1, NewIsFresh, Zenon
  <1>3. /\ http[u] = NoRequest /\ http' = [http EXCEPT ![u] = q]
        /\ starting' = starting \cup {[h |-> u, by |-> "client"]}
        /\ UNCHANGED <<curl, aborting, raced, info, cleanup, dtor, wrong>>
    BY <1>1 DEF CreateUpload, ghosts
  <1>4. http'[u] = q /\ \A g \in Requests \ {u} : http'[g] = http[g]
    BY <1>0, <1>2, <1>3, OneChanges
  <1>5. ~Idle(u)
    BY <1>3 DEF Idle, NoRequest
  <1>6. ~AtEnd(u)
    BY <1>0, <1>5 DEF TransferInv, EndInv
  <1>7. \A g \in Requests : (AtEnd(g)' <=> AtEnd(g)) /\ (Reports(g)' <=> Reports(g))
    BY <1>3 DEF AtEnd, Reports
  <1>8. ~Reports(u)'
    BY <1>0, <1>6, <1>7 DEF AtEnd, Reports
  <1>9. \A j \in Infos : EntryKept(j)
    BY <1>3, EntryStays
  <1>10. CleanupInv' /\ TransfersTrue'
    BY <1>3, CleanupStays, WrongStays
  <1>11. EndInv' /\ StartInv'
    <2>1. EndKept(u) /\ StartKept(u)
      BY <1>0, <1>2, <1>4, <1>6, <1>7 DEF EndKept, StartKept
    <2>2. \A d \in starting' : d \in starting \/ http'[d.h].handle = "new"
      BY <1>2, <1>3, <1>4
    <2> QED
      BY <1>0, <1>4, <1>7, <2>1, <2>2, OneControl
  <1>12. \A j \in Infos, l \in Services : RequestFor[j, l] # u
    BY RequestIsKnown
  <1>13. UploadInv(u)'
    <2>1. UploadOK(q)
      BY <1>2 DEF UploadOK
    <2> QED
      BY <1>4, <1>8, <2>1 DEF UploadInv
  <1>14. \A g \in Requests \ {u} : Steady(g)
    BY <1>4, <1>7 DEF Steady
  <1> QED
    BY <1>0, <1>2, <1>4, <1>9, <1>10, <1>11, <1>12, <1>13, <1>14, OneTransfer

(* One request gets another record. *)
LEMMA OneUpdate ==
  ASSUME Types, TransferInv, NEW h \in Requests, NEW p, HasData(p), HasControl(p),
         http' = [http EXCEPT ![h] = p],
         \A g \in Requests \ {h} : (Reports(g)' => Reports(g)) /\ (AtEnd(g)' => AtEnd(g)),
         AtEnd(h)' => p.mState = "FINISHED" /\ p.handle = "none",
         p.mState = "NEW" => http[h].mState = "NEW" /\ p.handle = http[h].handle,
         starting' \subseteq starting, UNCHANGED <<info, cleanup, wrong>>, CleanupInv',
         \A i \in Infos, k \in Services : RequestFor[i, k] = h =>
           /\ DownloadOK(p, info[i].range, h)
           /\ Reports(h)' =>
                (Plain(info[i].range, h) => Right(p.mData, info[i].range)) \/ TakenOver(i),
         h \in Uploads => UploadOK(p) /\ (Reports(h)' => p.sent = FileBytes(0, FileLen))
  PROVE  TransferInv'
  <1>0. Shapes
    BY DEF Types, CurlSideOK, HttpOK
  <1>1. http'[h] = p /\ \A g \in Requests \ {h} : http'[g] = http[g]
    BY <1>0, OneChanges
  <1>2. \A j \in Infos : EntryKept(j)
    BY EntryStays
  <1>3. TransfersTrue'
    BY WrongStays
  <1>4. EndInv' /\ StartInv'
    <2>1. EndKept(h)
      BY <1>1 DEF EndKept, Idle
    <2>2. StartKept(h)
      BY <1>1 DEF StartKept
    <2>3. \A d \in starting' : d \in starting
      OBVIOUS
    <2> QED
      BY <1>1, <2>1, <2>2, <2>3, OneControl
  <1>5. ASSUME NEW i \in Infos, NEW k \in Services, RequestFor[i, k] = h
        PROVE  DownloadInv(i, k)'
    <2>1. PICK r : r = info[i].range
      OBVIOUS
    <2>2. info'[i].range = r /\ (TakenOver(i)' <=> TakenOver(i))
      BY <2>1 DEF TakenOver
    <2>3. /\ DownloadOK(p, r, h)
          /\ Reports(h)' => (Plain(r, h) => Right(p.mData, r)) \/ TakenOver(i)
      BY <1>5, <2>1, Zenon
    <2> QED
      BY <1>1, <1>5, <2>2, <2>3, Zenon DEF DownloadInv
  <1>6. ASSUME h \in Uploads PROVE UploadInv(h)'
    BY <1>1, <1>6 DEF UploadInv
  <1>7. \A g \in Requests \ {h} : Steady(g)
    BY <1>1 DEF Steady
  <1> QED
    BY <1>1, <1>2, <1>3, <1>4, <1>5, <1>6, <1>7, OneTransfer

(* The callback is not part of the transfer. *)
LEMMA CallbackIsControl ==
  ASSUME NEW q, HasData(q), HasControl(q), NEW p, p = [q EXCEPT !.callback = FALSE]
  PROVE  /\ HasData(p) /\ HasControl(p) /\ p.mState = q.mState /\ p.handle = q.handle
         /\ p.mData = q.mData /\ p.sent = q.sent
         /\ \A r, h : DownloadOK(q, r, h) => DownloadOK(p, r, h)
         /\ UploadOK(q) => UploadOK(p)
  <1>1. /\ HasData(p) /\ HasControl(p) /\ p.mState = q.mState /\ p.handle = q.handle
        /\ p.mData = q.mData /\ p.sent = q.sent /\ p.put = q.put
        /\ p.mRequestedRange = q.mRequestedRange /\ p.mOffset = q.mOffset
        /\ p.header = q.header /\ p.expect = q.expect /\ p.server = q.server
        /\ p.mUploadOffset = q.mUploadOffset
    BY DEF HasData, HasControl
  <1>2. ASSUME NEW r PROVE (Fresh(q, r) => Fresh(p, r)) /\ (Answered(q, r) => Answered(p, r))
    <2>1. Fresh(q, r) => Fresh(p, r)
      BY <1>1, Zenon DEF Fresh
    <2>2. \A size, done : Arrived(q, r, size, done) => Arrived(p, r, size, done)
      BY <1>1, Zenon DEF Arrived
    <2> QED
      BY <2>1, <2>2, Zenon DEF Answered
  <1>3. ASSUME NEW r, NEW h PROVE DownloadOK(q, r, h) => DownloadOK(p, r, h)
    BY <1>1, <1>2, Zenon DEF DownloadOK
  <1>4. UploadOK(q) => UploadOK(p)
    BY <1>1, Zenon DEF UploadOK
  <1> QED
    BY <1>1, <1>3, <1>4

(* What is known of the record of a request. *)
LEMMA RecordFacts ==
  ASSUME Types, TransferInv, NEW h \in Requests, NEW q, q = http[h]
  PROVE  /\ HasData(q) /\ HasControl(q)
         /\ AtEnd(h) => q.mState = "FINISHED" /\ q.handle = "none"
         /\ \A i \in Infos, k \in Services : RequestFor[i, k] = h =>
              /\ DownloadOK(q, info[i].range, h)
              /\ Reports(h) =>
                   (Plain(info[i].range, h) => Right(q.mData, info[i].range)) \/ TakenOver(i)
         /\ h \in Uploads => UploadOK(q) /\ (Reports(h) => q.sent = FileBytes(0, FileLen))
  <1>1. HasData(q) /\ HasControl(q)
    BY DEF Types, CurlSideOK, HttpOK, Shapes, TransferInv, DataShapes
  <1>2. AtEnd(h) => q.mState = "FINISHED" /\ q.handle = "none"
    BY DEF TransferInv, EndInv, Idle
  <1>3. ASSUME NEW i \in Infos, NEW k \in Services, RequestFor[i, k] = h
        PROVE  /\ DownloadOK(q, info[i].range, h)
               /\ Reports(h) =>
                    (Plain(info[i].range, h) => Right(q.mData, info[i].range)) \/ TakenOver(i)
    BY <1>3, Zenon DEF TransferInv, DownloadInv
  <1>4. h \in Uploads => UploadOK(q) /\ (Reports(h) => q.sent = FileBytes(0, FileLen))
    BY DEF TransferInv, UploadInv
  <1> QED
    BY <1>1, <1>2, <1>3, <1>4

(* curlLoop or abort() takes the callback of a request. *)
LEMMA TakenTransfer ==
  ASSUME Types, TransferInv, NEW h \in Requests, http' = [http EXCEPT ![h].callback = FALSE],
         \A g \in Requests : (Reports(g)' => Reports(g)) /\ (AtEnd(g)' => AtEnd(g)),
         starting' \subseteq starting, UNCHANGED <<info, cleanup, wrong>>, CleanupInv'
  PROVE  TransferInv'
  <1>1. PICK q : q = http[h]
    OBVIOUS
  <1>2. PICK p : p = [q EXCEPT !.callback = FALSE]
    OBVIOUS
  <1>3. /\ HasData(q) /\ HasControl(q)
        /\ AtEnd(h) => q.mState = "FINISHED" /\ q.handle = "none"
        /\ \A i \in Infos, k \in Services : RequestFor[i, k] = h =>
              /\ DownloadOK(q, info[i].range, h)
              /\ Reports(h) =>
                   (Plain(info[i].range, h) => Right(q.mData, info[i].range)) \/ TakenOver(i)
        /\ h \in Uploads => UploadOK(q) /\ (Reports(h) => q.sent = FileBytes(0, FileLen))
    BY <1>1, RecordFacts
  <1>4. /\ HasData(p) /\ HasControl(p) /\ p.mState = q.mState /\ p.handle = q.handle
        /\ p.mData = q.mData /\ p.sent = q.sent
        /\ \A r, g : DownloadOK(q, r, g) => DownloadOK(p, r, g)
        /\ UploadOK(q) => UploadOK(p)
    BY <1>2, <1>3, CallbackIsControl
  <1>5. http' = [http EXCEPT ![h] = p]
    <2>1. DOMAIN http = Requests
      BY DEF Types, CurlSideOK, HttpOK, Shapes
    <2> QED
      BY <1>1, <1>2, <2>1
  <1>6. AtEnd(h)' => p.mState = "FINISHED" /\ p.handle = "none"
    BY <1>3, <1>4, Zenon
  <1>7. p.mState = "NEW" => http[h].mState = "NEW" /\ p.handle = http[h].handle
    BY <1>1, <1>4, Zenon
  <1>8. ASSUME NEW i \in Infos, NEW k \in Services, RequestFor[i, k] = h
        PROVE  /\ DownloadOK(p, info[i].range, h)
               /\ Reports(h)' =>
                    (Plain(info[i].range, h) => Right(p.mData, info[i].range)) \/ TakenOver(i)
    BY <1>3, <1>4, <1>8, Zenon
  <1>9. h \in Uploads => UploadOK(p) /\ (Reports(h)' => p.sent = FileBytes(0, FileLen))
    BY <1>3, <1>4, Zenon
  <1> QED
    BY <1>4, <1>5, <1>6, <1>7, <1>8, <1>9, OneUpdate

(* curlLoop takes the callback. *)
LEMMA ResetTransfer ==
  ASSUME Types, TransferInv, NEW h \in Requests, ResetCallback(h), NetworkOnly
  PROVE  TransferInv'
  <1>1. /\ http' = [http EXCEPT ![h].callback = FALSE] /\ curl.pc = "copied"
        /\ UNCHANGED <<aborting, raced, starting, info, cleanup, dtor, wrong>>
    BY DEF ResetCallback, NetworkOnly, ghosts
  <1>2. curl'.h = curl.h /\ curl'.success = curl.success
    BY DEF ResetCallback, Types, CurlSideOK, CurlOK
  <1>3. \A g \in Requests : (Reports(g)' => Reports(g)) /\ (AtEnd(g)' => AtEnd(g))
    BY <1>1, <1>2 DEF Reports, AtEnd
  <1>4. CleanupInv'
    BY <1>1, CleanupStays
  <1> QED
    BY <1>1, <1>3, <1>4, TakenTransfer

(* abort() takes the callback. *)
LEMMA AbortTakesTransfer ==
  ASSUME Types, TransferInv, NEW h \in Requests, AbortTakesCallback(h), NetworkOnly
  PROVE  TransferInv'
  <1>1. /\ http' = [http EXCEPT ![h].callback = FALSE] /\ aborting.pc = "copy"
        /\ UNCHANGED <<curl, raced, starting, info, cleanup, dtor, wrong>>
    BY DEF AbortTakesCallback, NetworkOnly, ghosts
  <1>2. aborting'.h \subseteq aborting.h
    BY DEF AbortTakesCallback, Types, CurlSideOK, AbortingOK
  <1>3. \A g \in Requests : (Reports(g)' => Reports(g)) /\ (AtEnd(g)' => AtEnd(g))
    BY <1>1, <1>2 DEF Reports, AtEnd
  <1>4. CleanupInv'
    BY <1>1, CleanupStays
  <1> QED
    BY <1>1, <1>3, <1>4, TakenTransfer

(* abort() stops a transfer; what curlLoop reports about it stays true. *)
LEMMA AbortTransfer ==
  ASSUME Types, TransferInv, NEW h \in Requests, DestroyAbort(h)
  PROVE  TransferInv'
  <1>1. PICK q : q = http[h]
    OBVIOUS
  <1>2. PICK p : p = [q EXCEPT !.mState = "FINISHED", !.handle = "none", !.server = "none"]
    OBVIOUS
  <1>3. /\ HasData(q) /\ HasControl(q)
        /\ \A i \in Infos, k \in Services : RequestFor[i, k] = h /\ Reports(h) =>
              (Plain(info[i].range, h) => Right(q.mData, info[i].range)) \/ TakenOver(i)
        /\ h \in Uploads => (Reports(h) => q.sent = FileBytes(0, FileLen))
    BY <1>1, RecordFacts, Zenon
  <1>4. /\ HasData(p) /\ HasControl(p) /\ p.mState = "FINISHED" /\ p.handle = "none"
        /\ p.mData = q.mData /\ p.sent = q.sent
    BY <1>2, <1>3 DEF HasData, HasControl
  <1>5. /\ http' = [http EXCEPT ![h] = p]
        /\ dtor.pc = "abort" /\ aborting' = [pc |-> "copy", h |-> {h}]
        /\ dtor' = [dtor EXCEPT !.pendingDelete = @ \ {h}]
        /\ UNCHANGED <<curl, info, starting, cleanup, wrong>>
    <2>1. DOMAIN http = Requests
      BY DEF Types, CurlSideOK, HttpOK, Shapes
    <2> QED
      BY <1>1, <1>2, <2>1 DEF DestroyAbort, Abort, ghosts
  <1>6. CleanupInv'
    <2>1. dtor'.pc = "abort"
      BY <1>5 DEF Types, LayerOK, DtorOK
    <2>2. cleanup'
      BY <1>5 DEF TransferInv, CleanupInv
    <2> QED
      BY <2>1, <2>2 DEF CleanupInv
  <1>7. /\ \A g \in Requests : Reports(g)' => Reports(g)
        /\ \A g \in Requests \ {h} : AtEnd(g)' => AtEnd(g)
    BY <1>5 DEF Reports, AtEnd
  <1>8. ASSUME NEW i \in Infos, NEW k \in Services, RequestFor[i, k] = h
        PROVE  /\ DownloadOK(p, info[i].range, h)
               /\ Reports(h)' =>
                    (Plain(info[i].range, h) => Right(p.mData, info[i].range)) \/ TakenOver(i)
    <2>1. DownloadOK(p, info[i].range, h)
      BY <1>4 DEF DownloadOK
    <2> QED
      BY <1>3, <1>4, <1>7, <1>8, <2>1, Zenon
  <1>9. h \in Uploads => UploadOK(p) /\ (Reports(h)' => p.sent = FileBytes(0, FileLen))
    <2>1. UploadOK(p)
      BY <1>4 DEF UploadOK
    <2> QED
      BY <1>3, <1>4, <1>7, <2>1, Zenon
  <1> QED
    BY <1>4, <1>5, <1>6, <1>7, <1>8, <1>9, OneUpdate

(* curl_multi_perform works on a request; nothing is reported meanwhile. *)
LEMMA PerformTransfer ==
  ASSUME Types, TransferInv, NetworkOnly, NEW h \in Requests, Performing(h),
         UNCHANGED <<curl, aborting, raced>>,
         NEW p, HasData(p), HasControl(p), http' = [http EXCEPT ![h] = p],
         p.mState = "NEW" => http[h].mState = "NEW" /\ p.handle = http[h].handle,
         \A i \in Infos, k \in Services : RequestFor[i, k] = h => DownloadOK(p, info[i].range, h),
         h \in Uploads => UploadOK(p)
  PROVE  TransferInv'
  <1>1. curl.pc = "loop" /\ http[h].handle = "added"
    BY DEF Performing
  <1>2. UNCHANGED <<info, starting, cleanup, dtor, wrong>>
    BY DEF NetworkOnly, ghosts
  <1>3. \A g \in Requests : ~Reports(g)' /\ (AtEnd(g)' => AtEnd(g))
    BY <1>1 DEF Reports, AtEnd
  <1>4. ~AtEnd(h)
    BY <1>1 DEF TransferInv, EndInv, Idle
  <1>5. CleanupInv'
    BY <1>2, CleanupStays
  <1> QED
    BY <1>2, <1>3, <1>4, <1>5, OneUpdate

(* The same, when only data moves. *)
LEMMA MovedTransfer ==
  ASSUME Types, TransferInv, NetworkOnly, NEW h \in Requests, Performing(h),
         UNCHANGED <<curl, aborting, raced>>,
         NEW p, HasData(p), SameControl(p, http[h]), http' = [http EXCEPT ![h] = p],
         \A i \in Infos, k \in Services : RequestFor[i, k] = h => DownloadOK(p, info[i].range, h),
         h \in Uploads => UploadOK(p)
  PROVE  TransferInv'
  <1>1. HasControl(p) /\ (p.mState = "NEW" => http[h].mState = "NEW" /\ p.handle = http[h].handle)
    BY DEF SameControl
  <1> QED
    BY <1>1, PerformTransfer

(* The range of an entry. *)
LEMMA EntryRange ==
  ASSUME Types, NEW i \in Infos
  PROVE  info[i].range \in ByteRanges
  <1>1. info[i].range \in Ranges \cup {WholeFile}
    BY DEF Types, LayerOK, InfoOK, InfoRecords
  <1>2. Ranges \subseteq ByteRanges
    BY TransferAssumption, Zenon DEF ByteRanges
  <1>3. WholeFile \in ByteRanges
    BY DEF ByteRanges, WholeFile
  <1> QED
    BY <1>1, <1>2, <1>3, Zenon

(* The server of a download answers. *)
LEMMA AnswersTransfer ==
  ASSUME Types, TransferInv, NEW h \in Requests, ServerAnswers(h), NetworkOnly
  PROVE  TransferInv'
  <1>1. PICK q : q = http[h]
    OBVIOUS
  <1>2. PICK body, status : /\ body = Served(q, h)
                            /\ status = IF Ranged(q) /\ HostOf[h] \in RangeServers THEN 206 ELSE 200
    OBVIOUS
  <1>3. PICK p : p = [gotHeader(q, status, Len(body)) EXCEPT !.server = "sending", !.sent = body]
    OBVIOUS
  <1>3a. p = AnswerOf(q, h)
    BY <1>2, <1>3, Zenon DEF AnswerOf
  <1>4. /\ http' = [http EXCEPT ![h] = p] /\ Performing(h)
        /\ q.handle = "added" /\ q.server = "asked" /\ ~q.put
        /\ UNCHANGED <<curl, aborting, raced>>
    BY <1>1, <1>2, <1>3, Zenon DEF ServerAnswers, Performing
  <1>5. /\ HasData(q) /\ HasControl(q)
        /\ \A i \in Infos, k \in Services : RequestFor[i, k] = h => DownloadOK(q, info[i].range, h)
        /\ h \in Uploads => UploadOK(q)
    BY <1>1, RecordFacts, Zenon
  <1>6. SameControl(p, http[h])
    BY <1>1, <1>3, <1>5, AnswerKeepsControl
  <1>7. HasData(p) /\ p.put = q.put /\ p.expect = q.expect /\ p.server = "sending"
    BY <1>3, <1>5 DEF gotHeader, HasData
  <1>8. p.handle = "added"
    BY <1>1, <1>4, <1>6 DEF SameControl
  <1>9. ASSUME NEW i \in Infos, NEW k \in Services, RequestFor[i, k] = h
        PROVE  DownloadOK(p, info[i].range, h)
    <2>1. PICK r : r = info[i].range
      OBVIOUS
    <2>2. r \in ByteRanges
      BY <2>1, EntryRange
    <2>3. DownloadOK(q, r, h)
      BY <1>5, <1>9, <2>1, Zenon
    <2>4. ~q.expect /\ Fresh(q, r)
      BY <1>4, <2>3 DEF DownloadOK
    <2>5. Plain(r, h) => Answered(p, r)
      BY <1>3a, <1>5, <2>2, <2>4, AnswerArrives
    <2>6. ~p.put /\ ~p.expect
      BY <1>4, <1>7, <2>4, Zenon
    <2> QED
      BY <1>7, <1>8, <2>1, <2>5, <2>6 DEF DownloadOK
  <1>10. h \notin Uploads
    BY <1>4, <1>5 DEF UploadOK
  <1> QED
    BY <1>4, <1>6, <1>7, <1>9, <1>10, MovedTransfer

(* Some of the answer arrives. *)
LEMMA BodyTransfer ==
  ASSUME Types, TransferInv, NEW h \in Requests, BodyArrives(h), NetworkOnly
  PROVE  TransferInv'
  <1>1. PICK q : q = http[h]
    OBVIOUS
  <1>2. PICK n \in 1..Len(q.sent) :
          LET rest == SubSeq(q.sent, n + 1, Len(q.sent))
          IN  http' = [http EXCEPT ![h] =
                [write(q, SubSeq(q.sent, 1, n)) EXCEPT
                   !.sent = rest, !.server = IF rest = <<>> THEN "ok" ELSE "sending"]]
    BY <1>1, Zenon DEF BodyArrives
  <1>3. PICK rest : rest = SubSeq(q.sent, n + 1, Len(q.sent))
    OBVIOUS
  <1>4. PICK server : server = IF rest = <<>> THEN "ok" ELSE "sending"
    OBVIOUS
  <1>5. PICK p : p = [write(q, SubSeq(q.sent, 1, n)) EXCEPT !.sent = rest, !.server = server]
    OBVIOUS
  <1>6. /\ http' = [http EXCEPT ![h] = p] /\ Performing(h)
        /\ q.handle = "added" /\ q.server = "sending" /\ ~q.put
        /\ UNCHANGED <<curl, aborting, raced>>
    BY <1>1, <1>2, <1>3, <1>4, <1>5, Zenon DEF BodyArrives, Performing
  <1>7. /\ HasData(q) /\ HasControl(q)
        /\ \A i \in Infos, k \in Services : RequestFor[i, k] = h => DownloadOK(q, info[i].range, h)
        /\ h \in Uploads => UploadOK(q)
    BY <1>1, RecordFacts, Zenon
  <1>8. SameControl(p, http[h])
    BY <1>1, <1>5, <1>7, WriteKeepsControl
  <1>9. HasData(p) /\ p.put = q.put /\ p.expect = q.expect /\ p.server = server
    BY <1>5, <1>7 DEF write, HasData
  <1>10. p.handle = "added" /\ p.server \in {"sending", "ok"}
    BY <1>1, <1>4, <1>6, <1>8, <1>9 DEF SameControl
  <1>11. ASSUME NEW i \in Infos, NEW k \in Services, RequestFor[i, k] = h
         PROVE  DownloadOK(p, info[i].range, h)
    <2>1. PICK r : r = info[i].range
      OBVIOUS
    <2>2. r \in ByteRanges
      BY <2>1, EntryRange
    <2>3. DownloadOK(q, r, h)
      BY <1>7, <1>11, <2>1, Zenon
    <2>4. ~q.expect /\ (Plain(r, h) => Answered(q, r))
      BY <1>6, <2>3 DEF DownloadOK
    <2>5. Plain(r, h) => Answered(p, r)
      <3>1. p = [write(q, SubSeq(q.sent, 1, n)) EXCEPT
                   !.sent = rest, !.server = IF rest = <<>> THEN "ok" ELSE "sending"]
        BY <1>4, <1>5, Zenon
      <3> QED
        BY <1>2, <1>3, <1>7, <2>2, <2>4, <3>1, ChunkArrives
    <2>6. ~p.put /\ ~p.expect
      BY <1>6, <1>9, <2>4, Zenon
    <2> QED
      BY <1>10, <2>1, <2>5, <2>6 DEF DownloadOK
  <1>12. h \notin Uploads
    BY <1>6, <1>7 DEF UploadOK
  <1> QED
    BY <1>6, <1>8, <1>9, <1>11, <1>12, MovedTransfer

(* Bytes behind bytes. *)
LEMMA MoreBytes ==
  ASSUME NEW a \in Nat, NEW n \in Nat
  PROVE  FileBytes(0, a) \o FileBytes(a, n) = FileBytes(0, a + n)
  <1>1. PICK s, t : s = FileBytes(0, a) /\ t = FileBytes(a, n)
    OBVIOUS
  <1>2. s \in Seq(Int) /\ Len(s) = a /\ t \in Seq(Int) /\ Len(t) = n
    BY <1>1, BytesLength
  <1>3. /\ \A k \in 1..a : s[k] = k - 1
        /\ \A k \in 1..n : t[k] = a + k - 1
    BY <1>1 DEF FileBytes
  <1>4. PICK u : u = s \o t
    OBVIOUS
  <1>5. u \in Seq(Int) /\ Len(u) = a + n /\ DOMAIN u = 1..(a + n)
    BY <1>2, <1>4
  <1>6. ASSUME NEW k \in 1..(a + n) PROVE u[k] = 0 + k - 1
    <2>1. u[k] = IF k <= a THEN s[k] ELSE t[k - a]
      BY <1>2, <1>4
    <2>2. CASE k <= a
      BY <1>3, <2>1, <2>2
    <2>3. CASE ~(k <= a)
      <3>1. k - a \in 1..n
        BY <2>3
      <3>2. t[k - a] = a + (k - a) - 1
        BY <1>3, <3>1
      <3> QED
        BY <2>1, <2>3, <3>2
    <2> QED
      BY <2>2, <2>3
  <1>7. u = [k \in 1..(a + n) |-> 0 + k - 1]
    <2>1. u \in [1..(a + n) -> Int]
      BY <1>5
    <2> QED
      BY <1>6, <2>1
  <1> QED
    BY <1>1, <1>4, <1>7 DEF FileBytes

(* curl takes some of the data of an upload. *)
LEMMA ReadTransfer ==
  ASSUME Types, TransferInv, NEW h \in Requests, read(h), NetworkOnly
  PROVE  TransferInv'
  <1>1. PICK q : q = http[h]
    OBVIOUS
  <1>2. PICK off : off = q.mUploadOffset
    OBVIOUS
  <1>3. PICK n \in 1..(FileLen - off) :
          http' = [http EXCEPT ![h].mUploadOffset = @ + n, ![h].server = "sending",
                     ![h].sent = @ \o [k \in 1..n |-> http[h].mUploadOffset + k - 1]]
    BY <1>1, <1>2 DEF read
  <1>4. PICK p : p = [q EXCEPT !.mUploadOffset = off + n, !.server = "sending",
                        !.sent = q.sent \o FileBytes(off, n)]
    OBVIOUS
  <1>5. http' = [http EXCEPT ![h] = p]
    <2>1. DOMAIN http = Requests
      BY DEF Types, CurlSideOK, HttpOK, Shapes
    <2> QED
      BY <1>1, <1>2, <1>3, <1>4, <2>1 DEF FileBytes
  <1>6. /\ Performing(h) /\ q.handle = "added" /\ q.server \in {"asked", "sending"} /\ q.put
        /\ UNCHANGED <<curl, aborting, raced>>
    BY <1>1 DEF read, Performing
  <1>7. /\ HasData(q) /\ HasControl(q)
        /\ \A i \in Infos, k \in Services : RequestFor[i, k] = h => DownloadOK(q, info[i].range, h)
        /\ h \in Uploads => UploadOK(q)
    BY <1>1, RecordFacts, Zenon
  <1>8. /\ HasData(p) /\ SameControl(p, q) /\ p.put = q.put /\ p.mUploadOffset = off + n
        /\ p.server = "sending" /\ p.sent = q.sent \o FileBytes(off, n)
    BY <1>4, <1>7 DEF HasData, HasControl, SameControl
  <1>9. ASSUME NEW i \in Infos, NEW k \in Services PROVE RequestFor[i, k] # h
    BY <1>6, <1>7 DEF DownloadOK
  <1>10. ASSUME h \in Uploads PROVE UploadOK(p)
    <2>1. off \in 0..FileLen /\ q.sent = FileBytes(0, off)
      BY <1>2, <1>6, <1>7, <1>10 DEF UploadOK
    <2>2. off \in Nat /\ n \in Nat /\ off + n \in 0..FileLen
      BY <1>3, <2>1, TransferAssumption
    <2>3. p.sent = FileBytes(0, off + n)
      BY <1>8, <2>1, <2>2, MoreBytes
    <2>4. p.put
      BY <1>6, <1>8, Zenon
    <2>5. p.handle = "added"
      BY <1>6, <1>8 DEF SameControl
    <2> QED
      BY <1>8, <2>2, <2>3, <2>4, <2>5 DEF UploadOK
  <1> QED
    BY <1>1, <1>5, <1>6, <1>8, <1>9, <1>10, MovedTransfer

(* The server has what it wanted, or does not want more, or is gone. *)
LEMMA EndsTransfer ==
  ASSUME Types, TransferInv, NEW h \in Requests, NetworkOnly,
         UploadAccepted(h) \/ ExpectationFails(h) \/ TransferBreaks(h)
  PROVE  TransferInv'
  <1>1. PICK q : q = http[h]
    OBVIOUS
  <1>2. PICK server \in {"ok", "417", "failed"} :
          /\ http' = [http EXCEPT ![h].server = server]
          /\ server = "ok" => q.put /\ q.mUploadOffset = FileLen
          /\ server = "417" => q.server = "asked" \/ q.put
    BY <1>1 DEF UploadAccepted, ExpectationFails, TransferBreaks
  <1>3. PICK p : p = [q EXCEPT !.server = server]
    OBVIOUS
  <1>4. http' = [http EXCEPT ![h] = p]
    <2>1. DOMAIN http = Requests
      BY DEF Types, CurlSideOK, HttpOK, Shapes
    <2> QED
      BY <1>1, <1>2, <1>3, <2>1
  <1>5. /\ Performing(h) /\ q.handle = "added" /\ q.server \in {"asked", "sending"}
        /\ UNCHANGED <<curl, aborting, raced>>
    BY <1>1 DEF UploadAccepted, ExpectationFails, TransferBreaks, Performing
  <1>6. /\ HasData(q) /\ HasControl(q)
        /\ \A i \in Infos, k \in Services : RequestFor[i, k] = h => DownloadOK(q, info[i].range, h)
        /\ h \in Uploads => UploadOK(q)
    BY <1>1, RecordFacts, Zenon
  <1>7. /\ HasData(p) /\ SameControl(p, q) /\ p.put = q.put /\ p.expect = q.expect
        /\ p.mUploadOffset = q.mUploadOffset /\ p.server = server /\ p.sent = q.sent
    BY <1>3, <1>6 DEF HasData, HasControl, SameControl
  <1>8. p.handle = "added"
    BY <1>5, <1>7 DEF SameControl
  <1>9. ASSUME NEW i \in Infos, NEW k \in Services, RequestFor[i, k] = h
        PROVE  DownloadOK(p, info[i].range, h)
    <2>1. ~q.put /\ ~q.expect /\ (q.server = "asked" => Fresh(q, info[i].range))
      BY <1>5, <1>6, <1>9 DEF DownloadOK
    <2>2. server = "failed" \/ (server = "417" /\ Fresh(q, info[i].range))
      BY <1>2, <2>1
    <2>3. ~p.put /\ ~p.expect
      BY <1>7, <2>1, Zenon
    <2>4. Fresh(q, info[i].range) => Fresh(p, info[i].range)
      BY <1>3, <1>6 DEF Fresh, HasData
    <2> QED
      BY <1>7, <1>8, <2>2, <2>3, <2>4 DEF DownloadOK
  <1>10. ASSUME h \in Uploads PROVE UploadOK(p)
    <2>1. q.put /\ q.mUploadOffset \in 0..FileLen /\ q.sent = FileBytes(0, q.mUploadOffset)
      BY <1>5, <1>6, <1>10 DEF UploadOK
    <2>2. p.put
      BY <1>7, <2>1, Zenon
    <2> QED
      BY <1>2, <1>7, <1>8, <2>1, <2>2 DEF UploadOK
  <1> QED
    BY <1>1, <1>4, <1>5, <1>7, <1>9, <1>10, MovedTransfer

(* A transfer that is tried again starts from the beginning, whatever is    *)
(* told of it.                                                              *)
LEMMA RestartTransfer ==
  ASSUME Types, TransferInv, NEW h \in Requests, Restart(h), UNCHANGED <<starting, cleanup, wrong>>,
         \A i \in Infos : EntryKept(i), dtor'.pc = "up" <=> dtor.pc = "up"
  PROVE  TransferInv'
  <1>1. PICK q : q = http[h]
    OBVIOUS
  <1>2. PICK c : c = initCurlHandle(q)
    OBVIOUS
  <1>3. PICK known : known = properties \cup {HostOf[h]}
    OBVIOUS
  <1>4. PICK p : p = Added(c, h, known)
    OBVIOUS
  <1>5. /\ http' = [http EXCEPT ![h] = p] /\ curl.pc = "loop"
        /\ q.handle = "added" /\ q.server = "417" /\ UNCHANGED <<curl, aborting, raced>>
    BY <1>1, <1>2, <1>3, <1>4 DEF Restart, Over, Performing
  <1>6. /\ HasData(q) /\ HasControl(q) /\ ~AtEnd(h)
        /\ \A i \in Infos, k \in Services : RequestFor[i, k] = h => DownloadOK(q, info[i].range, h)
        /\ h \in Uploads => UploadOK(q)
    BY <1>1, <1>5, RecordFacts
  <1>7. /\ HasData(c) /\ HasControl(c) /\ c.put = q.put /\ c.mUploadOffset = 0
        /\ c.handle = "new" /\ \A r : Fresh(q, r) => Fresh(c, r)
    BY <1>2, <1>6, RestartedData
  <1>8. HasData(p) /\ HasControl(p) /\ p.mState = "INPROGRESS"
    BY <1>4, <1>7, AddedControl, AddedIsFresh
  <1>9. ASSUME NEW i \in Infos, NEW k \in Services, RequestFor[i, k] = h
        PROVE  DownloadOK(p, info[i].range, h)
    <2>1. ~q.put /\ Fresh(q, info[i].range)
      BY <1>5, <1>6, <1>9 DEF DownloadOK
    <2>2. ~c.put /\ Fresh(c, info[i].range)
      BY <1>7, <2>1, Zenon
    <2>3. DownloadOK(c, info[i].range, h)
      BY <1>7, <2>2 DEF DownloadOK
    <2> QED
      BY <1>4, <1>7, <2>3, AddedDownload
  <1>10. ASSUME h \in Uploads PROVE UploadOK(p)
    <2>1. q.put
      BY <1>5, <1>6, <1>10 DEF UploadOK
    <2>2. c.put
      BY <1>7, <2>1, Zenon
    <2> QED
      BY <1>4, <1>7, <2>2, AddedUpload
  <1>11. http'[h] = p /\ \A g \in Requests \ {h} : http'[g] = http[g]
    BY <1>5, <1>8, OneChanges DEF Types, CurlSideOK, HttpOK
  <1>12. \A g \in Requests : ~Reports(g)' /\ (AtEnd(g)' <=> AtEnd(g))
    BY <1>5 DEF Reports, AtEnd
  <1>13. CleanupInv' /\ TransfersTrue'
    BY <1>5, CleanupStays, WrongStays
  <1>14. EndInv' /\ StartInv'
    <2>1. EndKept(h) /\ StartKept(h)
      BY <1>6, <1>8, <1>11, <1>12 DEF EndKept, StartKept
    <2>2. \A d \in starting' : d \in starting \/ http'[d.h].handle = "new"
      OBVIOUS
    <2> QED
      BY <1>11, <1>12, <2>1, <2>2, OneControl
  <1>15. ASSUME NEW i \in Infos, NEW k \in Services, RequestFor[i, k] = h
         PROVE  DownloadInv(i, k)'
    <2>1. info'[i].range = info[i].range
      BY DEF EntryKept
    <2> QED
      BY <1>9, <1>11, <1>12, <1>15, <2>1, Zenon DEF DownloadInv
  <1>16. h \in Uploads => UploadInv(h)'
    BY <1>10, <1>11, <1>12 DEF UploadInv
  <1>17. \A g \in Requests \ {h} : Steady(g)
    BY <1>11, <1>12 DEF Steady
  <1> QED
    BY <1>8, <1>11, <1>13, <1>14, <1>15, <1>16, <1>17, OneTransfer

(* A retry that calls nobody. *)
LEMMA RetryTransfer ==
  ASSUME Types, TransferInv, NEW h \in Requests, Retry(h), NetworkOnly
  PROVE  TransferInv'
  <1>1. Restart(h) /\ UNCHANGED <<info, starting, cleanup, dtor, wrong>>
    BY DEF Retry, NetworkOnly, ghosts
  <1>2. \A i \in Infos : EntryKept(i)
    BY <1>1, EntryStays
  <1> QED
    BY <1>1, <1>2, RestartTransfer

(* A retry that calls back: the data it passes is empty, as was asked for. *)
LEMMA RetryCallsBackTransfer ==
  ASSUME Types, TransferInv, NEW i \in Infos, NEW k \in Services, RetryCallsBack(i, k)
  PROVE  TransferInv'
  <1>1. /\ Restart(RequestFor[i, k]) /\ RequestFor[i, k] \in Requests
        /\ Erase(i) /\ UNCHANGED <<starting, cleanup, wrong>>
    BY RequestIsKnown DEF RetryCallsBack
  <1>2. (dtor'.pc = "up" <=> dtor.pc = "up") /\ \A j \in Infos : EntryKept(j)
    BY <1>1, EraseKeeps
  <1> QED
    BY <1>1, <1>2, RestartTransfer

(* The transfer is over: what curlLoop will report is true. *)
LEMMA FreeTransfer ==
  ASSUME Types, TransferInv, NEW h \in Requests, FreeHandle(h), NetworkOnly
  PROVE  TransferInv'
  <1>1. PICK q : q = http[h]
    OBVIOUS
  <1>2. PICK p : p = [q EXCEPT !.handle = "none", !.mState = "FINISHED"]
    OBVIOUS
  <1>3. /\ http' = [http EXCEPT ![h] = p]
        /\ q.handle = "added" /\ UNCHANGED <<aborting, raced>>
    <2>1. DOMAIN http = Requests
      BY DEF Types, CurlSideOK, HttpOK, Shapes
    <2> QED
      BY <1>1, <1>2, <2>1 DEF FreeHandle, Over, Performing
  <1>4. /\ HasData(q) /\ HasControl(q)
        /\ \A i \in Infos, k \in Services : RequestFor[i, k] = h => DownloadOK(q, info[i].range, h)
        /\ h \in Uploads => UploadOK(q)
    BY <1>1, RecordFacts, Zenon
  <1>5. /\ HasData(p) /\ HasControl(p) /\ p.mState = "FINISHED" /\ p.handle = "none"
        /\ p.mData = q.mData /\ p.sent = q.sent
    BY <1>2, <1>4 DEF HasData, HasControl
  <1>6. UNCHANGED <<info, starting, cleanup, dtor, wrong>>
    BY DEF NetworkOnly, ghosts
  <1>7. /\ \A g \in Requests \ {h} : ~Reports(g)' /\ (AtEnd(g)' => AtEnd(g))
        /\ Reports(h)' => q.server = "ok"
    BY <1>1, <1>3 DEF FreeHandle, Reports, AtEnd
  <1>8. CleanupInv'
    BY <1>3, <1>6, CleanupStays
  <1>9. ASSUME NEW i \in Infos, NEW k \in Services, RequestFor[i, k] = h
        PROVE  /\ DownloadOK(p, info[i].range, h)
               /\ Reports(h)' =>
                    (Plain(info[i].range, h) => Right(p.mData, info[i].range)) \/ TakenOver(i)
    <2>1. DownloadOK(p, info[i].range, h)
      BY <1>5 DEF DownloadOK
    <2>2. ASSUME Reports(h)', Plain(info[i].range, h) PROVE Right(p.mData, info[i].range)
      <3>1. PICK r : r = info[i].range
        OBVIOUS
      <3>2. DownloadOK(q, r, h)
        BY <1>4, <1>9, <3>1, Zenon
      <3>3. Answered(q, r) /\ q.server = "ok"
        BY <1>3, <1>7, <2>2, <3>1, <3>2 DEF DownloadOK
      <3>4. r \in ByteRanges
        BY <3>1, EntryRange
      <3>5. Right(q.mData, r)
        BY <3>3, <3>4, OkIsRight
      <3> QED
        BY <1>5, <3>1, <3>5, Zenon
    <2> QED
      BY <2>1, <2>2
  <1>10. ASSUME h \in Uploads
         PROVE  UploadOK(p) /\ (Reports(h)' => p.sent = FileBytes(0, FileLen))
    <2>1. UploadOK(p)
      BY <1>5 DEF UploadOK
    <2>2. Reports(h)' => q.sent = FileBytes(0, FileLen)
      BY <1>3, <1>4, <1>7, <1>10 DEF UploadOK
    <2> QED
      BY <1>5, <2>1, <2>2, Zenon
  <1> QED
    BY <1>3, <1>5, <1>6, <1>7, <1>8, <1>9, <1>10, OneUpdate

(* Nothing is said of a request whose callback has been called. *)
LEMMA DroppedTransfer ==
  ASSUME NEW q, HasControl(q), q.handle = "none", NEW p, p = Dropped(q)
  PROVE  /\ HasData(p) /\ HasControl(p) /\ p.mState = q.mState /\ p.handle = "none"
         /\ UploadOK(p) /\ \A r, h : DownloadOK(p, r, h)
  <1>1. HasData(p) /\ HasControl(p) /\ p.mState = q.mState /\ p.handle = "none"
    BY DEF Dropped, NoRequest, HasData, HasControl
  <1>2. UploadOK(p) /\ \A r, h : DownloadOK(p, r, h)
    BY <1>1 DEF UploadOK, DownloadOK
  <1> QED
    BY <1>1, <1>2

(* The callback of an upload: what is reported as sent has been sent. *)
LEMMA UploadCallsTransfer ==
  ASSUME Types, TransferInv, NEW u \in Uploads, UploadCalls(u)
  PROVE  TransferInv'
  <1>0. u \in Requests /\ "curl" \in Threads
    BY NetworkAssumption DEF Threads
  <1>1. PICK q : q = http[u]
    OBVIOUS
  <1>2. PICK p : p = Dropped(q)
    OBVIOUS
  <1>3. /\ curl.pc = "callback" /\ curl.h = {u} /\ Returns("curl")
        /\ http' = [http EXCEPT ![u] = p]
        /\ UNCHANGED <<raced, info, starting, cleanup, dtor>>
    BY <1>1, <1>2 DEF UploadCalls
  <1>4. AtEnd(u) /\ (curl.success => Reports(u))
    BY <1>3 DEF AtEnd, Reports
  <1>5. /\ HasData(q) /\ HasControl(q) /\ q.mState = "FINISHED" /\ q.handle = "none"
        /\ Reports(u) => q.sent = FileBytes(0, FileLen)
    BY <1>0, <1>1, <1>4, RecordFacts
  <1>6. /\ HasData(p) /\ HasControl(p) /\ p.mState = q.mState /\ p.handle = "none"
        /\ UploadOK(p)
    BY <1>2, <1>5, DroppedTransfer
  <1>7. wrong' = wrong
    <2>1. FileBytes(0, FileLen) = [k \in 1..FileLen |-> k - 1]
      BY TransferAssumption DEF FileBytes
    <2>2. curl.success => q.sent = [k \in 1..FileLen |-> k - 1]
      BY <1>4, <1>5, <2>1
    <2> QED
      BY <1>1, <2>2 DEF UploadCalls
  <1>8. /\ \A g \in Requests : (Reports(g)' => Reports(g)) /\ (AtEnd(g)' => AtEnd(g))
        /\ aborting'.pc # "idle" => aborting.pc # "idle"
    BY <1>0, <1>3, ReturnsCalm
  <1>9. ~Reports(u)'
    BY <1>3 DEF Returns, Reports, Types, CurlSideOK, CurlOK
  <1>10. CleanupInv'
    BY <1>3, <1>8, CleanupStays
  <1>11. \A i \in Infos, k \in Services : RequestFor[i, k] # u
    BY RequestIsKnown
  <1>12. p.mState = "FINISHED"
    BY <1>5, <1>6
  <1>13. \A g \in Requests \ {u} : (Reports(g)' => Reports(g)) /\ (AtEnd(g)' => AtEnd(g))
    BY <1>8
  <1>14. starting' \subseteq starting /\ UNCHANGED <<info, cleanup, wrong>>
    BY <1>3, <1>7
  <1> QED
    BY <1>0, <1>3, <1>6, <1>9, <1>10, <1>11, <1>12, <1>13, <1>14, OneUpdate

(* httpCallback keeps the range of an entry, and the destructor's entries. *)
LEMMA CallbackKeeps ==
  ASSUME Types, NEW i \in Infos, NEW k \in Services, NEW by \in {"curl", "abort"},
         NEW success \in BOOLEAN, httpCallback(i, k, by, success), cleanup' = cleanup
  PROVE  /\ \A j \in Infos : EntryKept(j)
         /\ info'[i].st \in {"fetch", "create", "erased"}
         /\ dtor'.pc = "up" <=> dtor.pc = "up"
         /\ info[i].st \in {"erased", "fetch", "create"} \/ ~success => wrong' = wrong
         /\ info[i].st \notin {"erased", "fetch", "create"} /\ success =>
              wrong' = IF Right(http[RequestFor[i, k]].mData, info[i].range) THEN wrong
                       ELSE wrong \cup {[range |-> info[i].range,
                                         host |-> HostOf[RequestFor[i, k]]]}
         /\ \A g \in Requests : QuietThreads(g)
         /\ aborting'.pc # "idle" => aborting.pc # "idle" \/ by = "abort"
  <1>0. LayerOK /\ InfoOK /\ CurlOK /\ AbortingOK /\ by \in Threads
    BY DEF Types, LayerOK, CurlSideOK, Threads
  <1>1. /\ Leaves(by) /\ \A j \in Infos \ {i} : info'[j] = info[j]
    BY <1>0, CallbackEffect
  <1>2. \A g \in Requests : QuietThreads(g)
    BY <1>0, <1>1, LeavesIsQuiet
  <1>3. aborting'.pc # "idle" => aborting.pc # "idle" \/ by = "abort"
    BY <1>1 DEF Leaves
  <1>4. CASE info[i].st \in {"erased", "fetch", "create"}
    <2>1. UNCHANGED <<info, dtor, wrong>>
      BY <1>4 DEF httpCallback
    <2>2. \A j \in Infos : EntryKept(j)
      BY <2>1, EntryStays
    <2> QED
      BY <1>2, <1>3, <1>4, <2>1, <2>2
  <1>5. CASE info[i].st \notin {"erased", "fetch", "create"} /\ success
    <2>1. Erase(i) /\ wrong' = IF Right(http[RequestFor[i, k]].mData, info[i].range) THEN wrong
             ELSE wrong \cup {[range |-> info[i].range, host |-> HostOf[RequestFor[i, k]]]}
      BY <1>5, Zenon DEF httpCallback
    <2>2. (dtor'.pc = "up" <=> dtor.pc = "up") /\ \A j \in Infos : EntryKept(j)
      BY <2>1, EraseKeeps
    <2>3. info'[i].st = "erased"
      BY <1>0, <2>1 DEF Erase, InfoOK, InfoRecords
    <2> QED
      BY <1>2, <1>3, <1>5, <2>1, <2>2, <2>3
  <1>6. CASE info[i].st \notin {"erased", "fetch", "create"} /\ ~success
    <2>1. /\ info' = [info EXCEPT ![i].st = "fetch", ![i].by = by, ![i].which = k + 1]
          /\ UNCHANGED <<dtor, wrong>>
      BY <1>6 DEF httpCallback
    <2>2. info'[i].st = "fetch" /\ info'[i].range = info[i].range
      BY <1>0, <2>1 DEF InfoOK, InfoRecords
    <2>3. EntryKept(i)
      BY <2>2 DEF EntryKept, TakenOver
    <2>4. \A j \in Infos : EntryKept(j)
      BY <1>1, <2>3, EntryStays
    <2> QED
      BY <1>2, <1>3, <1>6, <2>1, <2>2, <2>4
  <1> QED
    BY <1>4, <1>5, <1>6

(* A download that ends: the transfers stay as they are known. *)
LEMMA DroppedDownload ==
  ASSUME Types, TransferInv, NEW i \in Infos, NEW k \in Services, NEW h \in Requests,
         h = RequestFor[i, k], AtEnd(h), http' = [http EXCEPT ![h] = Dropped(http[h])],
         \A g \in Requests : QuietThreads(g), starting' = starting,
         \A j \in Infos : EntryKept(j), CleanupInv', TransfersTrue',
         Reports(h)' => TakenOver(i)'
  PROVE  TransferInv'
  <1>0. Shapes
    BY DEF Types, CurlSideOK, HttpOK
  <1>1. PICK q, p : q = http[h] /\ p = Dropped(q)
    OBVIOUS
  <1>2. HasControl(q) /\ q.mState = "FINISHED" /\ q.handle = "none"
    BY <1>1, RecordFacts
  <1>3. /\ HasData(p) /\ HasControl(p) /\ p.mState = q.mState /\ p.handle = "none"
        /\ \A r, g : DownloadOK(p, r, g)
    BY <1>1, <1>2, DroppedTransfer
  <1>4. http'[h] = p /\ \A g \in Requests \ {h} : http'[g] = http[g]
    BY <1>0, <1>1, <1>3, OneChanges
  <1>5. \A g \in Requests : (Reports(g)' => Reports(g)) /\ (AtEnd(g)' => AtEnd(g))
    BY QuietReports
  <1>6. EndInv' /\ StartInv'
    <2>1. EndKept(h) /\ StartKept(h)
      BY <1>2, <1>3, <1>4 DEF EndKept, StartKept, Idle
    <2> QED
      BY <1>4, <1>5, <2>1, OneControl
  <1>7. ASSUME NEW j \in Infos, NEW l \in Services, RequestFor[j, l] = h
        PROVE  DownloadInv(j, l)'
    <2>1. j = i
      BY <1>7, RequestsDiffer
    <2>2. DownloadOK(p, info'[j].range, h)
      BY <1>3
    <2>3. Reports(h)' => TakenOver(j)'
      BY <2>1
    <2> QED
      BY <1>4, <1>7, <2>2, <2>3, Zenon DEF DownloadInv
  <1>8. h \notin Uploads
    BY RequestIsKnown
  <1>9. \A g \in Requests \ {h} : Steady(g)
    BY <1>4, <1>5 DEF Steady
  <1> QED
    BY <1>3, <1>4, <1>6, <1>7, <1>8, <1>9, OneTransfer

(***************************************************************************)
(* curlLoop calls the callback of a download: if the data is not right,    *)
(* the range is one of the two exceptions.                                 *)
(***************************************************************************)
LEMMA CurlCallsTransfer ==
  ASSUME Types, TransferInv, NEW i \in Infos, NEW k \in Services, CurlCalls(i, k)
  PROVE  TransferInv'
  <1>1. PICK h \in Requests : h = RequestFor[i, k]
    BY RequestIsKnown
  <1>2. PICK r : r = info[i].range
    OBVIOUS
  <1>3. PICK success \in BOOLEAN : success = curl.success
    BY DEF Types, CurlSideOK, CurlOK
  <1>4. /\ curl.pc = "callback" /\ curl.h = {h} /\ httpCallback(i, k, "curl", success)
        /\ http' = [http EXCEPT ![h] = Dropped(http[h])]
        /\ UNCHANGED <<raced, starting, cleanup>>
    BY <1>1, <1>3 DEF CurlCalls
  <1>5. /\ \A j \in Infos : EntryKept(j)
        /\ dtor'.pc = "up" <=> dtor.pc = "up"
        /\ info[i].st \in {"erased", "fetch", "create"} \/ ~success => wrong' = wrong
        /\ info[i].st \notin {"erased", "fetch", "create"} /\ success =>
              wrong' = IF Right(http[h].mData, r) THEN wrong
                       ELSE wrong \cup {[range |-> r, host |-> HostOf[h]]}
        /\ \A g \in Requests : QuietThreads(g)
        /\ aborting'.pc # "idle" => aborting.pc # "idle"
    BY <1>1, <1>2, <1>4, CallbackKeeps
  <1>6. AtEnd(h) /\ (success => Reports(h))
    BY <1>3, <1>4 DEF AtEnd, Reports
  <1>7. CleanupInv'
    BY <1>4, <1>5, CleanupStays
  <1>8. TransfersTrue'
    <2>1. CASE wrong' = wrong
      BY <2>1, WrongStays
    <2>2. CASE wrong' # wrong
      <3>1. info[i].st \notin {"erased", "fetch", "create"} /\ success
        BY <1>5, <2>2
      <3>2. ~Right(http[h].mData, r) /\ wrong' = wrong \cup {[range |-> r, host |-> HostOf[h]]}
        BY <1>5, <2>2, <3>1
      <3>3. (Plain(r, h) => Right(http[h].mData, r)) \/ TakenOver(i)
        BY <1>1, <1>2, <1>6, <3>1, RecordFacts
      <3>4. ~Plain(r, h)
        BY <3>1, <3>2, <3>3 DEF TakenOver
      <3>5. PICK w : w = [range |-> r, host |-> HostOf[h]]
        OBVIOUS
      <3>6. /\ "range" \in DOMAIN w
            /\ IF w.host \in RangeServers /\ ~Empty(w.range)
               THEN w.range.s = 0 /\ ~w.range.eof ELSE w.range.s # 0
        BY <3>4, <3>5 DEF Plain
      <3>7. TransfersTrue /\ wrong' = wrong \cup {w}
        BY <3>2, <3>5 DEF TransferInv
      <3> QED
        BY <3>6, <3>7 DEF TransfersTrue
    <2> QED
      BY <2>1, <2>2
  <1>9. ~Reports(h)'
    <2>1. Leaves("curl")
      <3>1. LayerOK /\ CurlOK /\ AbortingOK
        BY DEF Types, CurlSideOK
      <3> QED
        BY <1>4, <3>1, CallbackEffect
    <2> QED
      BY <2>1 DEF Leaves, Reports
  <1> QED
    BY <1>1, <1>4, <1>5, <1>6, <1>7, <1>8, <1>9, DroppedDownload

(* abort() calls the callback: the entry is in the destructor's hands.  It *)
(* is not one that a thread is making a request for, since no request of   *)
(* such an entry has a callback that is still to be called.                *)
LEMMA AbortCallsTransfer ==
  ASSUME Types, Slots, OddInv, TransferInv, NEW i \in Infos, NEW k \in Services, AbortCalls(i, k)
  PROVE  TransferInv'
  <1>1. PICK h \in Requests : h = RequestFor[i, k]
    BY RequestIsKnown
  <1>2. /\ aborting.pc = "callback" /\ aborting.h = {h} /\ httpCallback(i, k, "abort", FALSE)
        /\ http' = [http EXCEPT ![h] = Dropped(http[h])]
        /\ UNCHANGED <<raced, starting, cleanup>>
    BY <1>1 DEF AbortCalls
  <1>3. /\ \A j \in Infos : EntryKept(j)
        /\ info'[i].st \in {"fetch", "create", "erased"}
        /\ dtor'.pc = "up" <=> dtor.pc = "up"
        /\ wrong' = wrong
        /\ \A g \in Requests : QuietThreads(g)
    BY <1>2, CallbackKeeps
  <1>4. AtEnd(h)
    BY <1>2 DEF AtEnd
  <1>5. CleanupInv'
    BY <1>2, <1>3, CleanupStays
  <1>6. TransfersTrue'
    BY <1>3, WrongStays
  <1>7. TakenOver(i)'
    <2>1. info[i].st # "create"
      <3> SUFFICES ASSUME info[i].st = "create" PROVE FALSE
        OBVIOUS
      <3>1. NotRaced(i)
        BY DEF OddInv, Ahead, NotRaced
      <3>2. Pending(h)
        BY <1>2 DEF Pending, AbortHas
      <3>3. IsCurrent(i, k)
        BY <1>1, <3>1, <3>2 DEF Slots, SlotInv
      <3> QED
        BY <3>3 DEF IsCurrent
    <2>2. info'[i].st # "create"
      <3>1. CASE info[i].st \in {"erased", "fetch", "create"}
        BY <1>2, <2>1, <3>1 DEF httpCallback
      <3>2. CASE info[i].st \notin {"erased", "fetch", "create"}
        <4>1. info' = [info EXCEPT ![i].st = "fetch", ![i].by = "abort", ![i].which = k + 1]
          BY <1>2, <3>2 DEF httpCallback
        <4>2. info \in [Infos -> InfoRecords]
          BY DEF Types, LayerOK, InfoOK
        <4> QED
          BY <4>1, <4>2 DEF InfoRecords
      <3> QED
        BY <3>1, <3>2
    <2> QED
      BY <1>2, <1>3, <2>2 DEF TransferInv, CleanupInv, TakenOver
  <1> QED
    BY <1>1, <1>2, <1>3, <1>4, <1>5, <1>6, <1>7, DroppedDownload

-----------------------------------------------------------------------------
(* The theorem about transfers *)

(* At the start there are no transfers. *)
LEMMA InitTransfer == Init => TransferInv
  <1> SUFFICES ASSUME Init PROVE TransferInv
    OBVIOUS
  <1>1. /\ curl.pc = "select" /\ aborting.pc = "idle" /\ raced = {} /\ starting = {}
        /\ wrong = {} /\ cleanup = FALSE /\ dtor.pc = "up"
    BY DEF Init, HTTPInit
  <1>2. HasData(NoRequest) /\ NoRequest.handle = "none"
    BY DEF NoRequest, HasData
  <1>3. \A h \in Requests : HasData(http[h]) /\ http[h].handle = "none"
    BY <1>2 DEF Init, HTTPInit
  <1>4. \A h \in Requests : ~Reports(h) /\ ~AtEnd(h)
    BY <1>1 DEF Reports, AtEnd
  <1>5. DataShapes /\ CleanupInv /\ EndInv /\ StartInv /\ TransfersTrue
    BY <1>1, <1>3, <1>4 DEF DataShapes, CleanupInv, EndInv, StartInv, TransfersTrue
  <1>6. ASSUME NEW i \in Infos, NEW k \in Services PROVE DownloadInv(i, k)
    <2>1. http[RequestFor[i, k]].handle = "none" /\ ~Reports(RequestFor[i, k])
      BY <1>3, <1>4, RequestIsKnown
    <2> QED
      BY <2>1 DEF DownloadInv, DownloadOK
  <1>7. ASSUME NEW u \in Uploads PROVE UploadInv(u)
    <2>1. http[u].handle = "none" /\ ~Reports(u)
      BY <1>3, <1>4, NetworkAssumption
    <2> QED
      BY <2>1 DEF UploadInv, UploadOK
  <1> QED
    BY <1>5, <1>6, <1>7 DEF TransferInv

(* Every step keeps what is known of the transfers: one step per action. *)
LEMMA NextKeepsTransfers == IInv /\ OddInv /\ TransferInv /\ [Next]_vars => TransferInv'
  <1> SUFFICES ASSUME Types, Slots, OddInv, TransferInv, [Next]_vars
               PROVE  TransferInv'
    BY DEF IInv
  <1>1. ASSUME NEW i \in Infos, NEW r \in Ranges, getData(i, r) PROVE TransferInv'
    BY <1>1, GetDataTransfer
  <1>2. ASSUME NEW i \in Infos, FetchStep(i) PROVE TransferInv'
    BY <1>2, FetchTransfer, GiveUpTransfer, CreateDownloadTransfer DEF FetchStep
  <1>3. ASSUME StartStep PROVE TransferInv'
    BY <1>3, StartDownloadTransfer, GoThrowsTransfer DEF StartStep
  <1>4. ASSUME CurlThread PROVE TransferInv'
    BY <1>4, LoopTransfer, CurlCallsTransfer, UploadCallsTransfer DEF CurlThread, Services
  <1>5. ASSUME NEW h \in Requests, Serve(h) PROVE TransferInv'
    BY <1>5, AnswersTransfer, BodyTransfer, ReadTransfer, EndsTransfer DEF Serve, ServerStep
  <1>9. ASSUME NEW h \in Requests, EndTransfer(h) PROVE TransferInv'
    BY <1>9, RetryTransfer, RetryCallsBackTransfer, FreeTransfer, LoopTransfer, ResetTransfer
       DEF EndTransfer, CurlStep, Services
  <1>6. ASSUME NEW u \in Uploads, CreateUpload(u) PROVE TransferInv'
    BY <1>6, CreateUploadTransfer
  <1>7. ASSUME DestroyBegin \/ Destructor PROVE TransferInv'
    BY <1>7, DestroyTransfer, AbortTransfer, AbortTakesTransfer, AbortCallsTransfer
       DEF Destructor, Services
  <1>8. ASSUME UNCHANGED vars PROVE TransferInv'
    <2>1. UNCHANGED <<http, curl, aborting, raced, info, starting, cleanup, dtor, wrong>>
      BY <1>8 DEF vars, httpVars, ghosts
    <2>2. \A g \in Requests : (Reports(g)' => Reports(g)) /\ (AtEnd(g)' => AtEnd(g))
      BY <2>1 DEF Reports, AtEnd
    <2>3. (\A i \in Infos : EntryKept(i)) /\ CleanupInv'
      BY <2>1, EntryStays, CleanupStays
    <2> QED
      BY <2>1, <2>2, <2>3, CalmTransfer
  <1> QED
    BY <1>1, <1>2, <1>3, <1>4, <1>5, <1>6, <1>7, <1>8, <1>9 DEF Next, Operate

(* At the start nothing has gone wrong. *)
LEMMA InitOdd == Init => OddInv
  BY DEF Init, HTTPInit, OddInv

(* No step but TestCleanup goes back to where requests are made. *)
LEMMA OddStays ==
  ASSUME OddInv, raced' = raced, early' = early,
         \A i \in Infos : /\ info'[i].st \in Ahead => info[i].st \in Ahead
                          /\ info[i].st = "erased" => info'[i].st = "erased"
  PROVE  OddInv'
  BY DEF OddInv

(* The steps of a getData that makes its requests. *)
LEMMA FetchOdd ==
  ASSUME Types, OddInv, TransferInv, NEW i \in Infos, FetchStep(i)
  PROVE  OddInv'
  <1>0. InfoOK /\ DtorOK
    BY DEF Types, LayerOK
  <1>1. CASE GiveUp(i)
    <2>1. Erase(i) /\ raced' = raced /\ early' = early
      BY <1>1 DEF GiveUp
    <2> QED
      BY <1>0, <2>1, EraseInfo, OddStays DEF Ahead
  <1>2. CASE gotServices(i)
    BY <1>0, <1>2, GotServicesInfo, OddStays DEF Ahead, gotServices, httpVars, ghosts
  <1>3. CASE NoHandler(i)
    BY <1>0, <1>3, NoHandlerInfo, OddStays DEF Ahead, NoHandler, httpVars, ghosts
  <1>4. CASE CreateDownload(i)
    BY <1>0, <1>4, CreateInfo, OddStays DEF Ahead, CreateDownload
  <1>5. CASE TestCleanup(i)
    <2>1. raced = {} /\ raced' = raced /\ early' = early
      BY <1>5 DEF TestCleanup, TransferInv, CleanupInv, httpVars, ghosts
    <2>2. /\ info[i].st = "fetch" /\ info'[i].st = "create"
          /\ \A j \in Infos \ {i} : info'[j] = info[j]
      BY <1>0, <1>5, TestCleanupInfo
    <2> QED
      BY <2>1, <2>2 DEF OddInv
  <1> QED
    BY <1>1, <1>2, <1>3, <1>4, <1>5 DEF FetchStep

(* What a callback does to the entry. *)
LEMMA CallOdd ==
  ASSUME Types, OddInv, NEW i \in Infos, NEW k \in Services, CurlCalls(i, k) \/ AbortCalls(i, k)
  PROVE  OddInv'
  <1>1. PICK by \in {"curl", "abort"}, success \in BOOLEAN : httpCallback(i, k, by, success)
    BY DEF CurlCalls, AbortCalls, Types, CurlSideOK, CurlOK
  <1>2. InfoOK /\ LayerOK /\ CurlOK /\ AbortingOK
    BY DEF Types, LayerOK, CurlSideOK
  <1>3. /\ \A j \in Infos \ {i} : info'[j] = info[j]
        /\ info[i].st \notin {"erased", "fetch", "create"} => info'[i].st \in {"erased", "fetch"}
    BY <1>1, <1>2, CallbackEffect
  <1>4. info[i].st \in {"erased", "fetch", "create"} => info' = info
    BY <1>1 DEF httpCallback
  <1>5. raced' = raced /\ early' = early
    BY DEF CurlCalls, AbortCalls
  <1> QED
    BY <1>3, <1>4, <1>5, OddStays DEF Ahead

(* abort() races with curlLoop only for the request that is waited for. *)
LEMMA AbortOdd ==
  ASSUME Slots, OddInv, NEW h \in Requests, DestroyAbort(h)
  PROVE  OddInv'
  <1>1. /\ raced' = IF CurlLocked /\ h \in curl.h /\ http[h].callback
                    THEN raced \cup {h} ELSE raced
        /\ UNCHANGED <<info, early>>
    BY DEF DestroyAbort, Abort, ghosts
  <1>2. ASSUME NEW i \in Infos, info[i].st \in Ahead, NEW k \in Services, RequestFor[i, k] \in raced'
        PROVE  FALSE
    <2>1. NotRaced(i)
      BY <1>2 DEF OddInv, NotRaced, Ahead
    <2>2. RequestFor[i, k] = h /\ http[h].callback
      BY <1>1, <1>2, <2>1, Zenon DEF NotRaced
    <2>3. IsCurrent(i, k)
      BY <2>1, <2>2, Zenon DEF Slots, SlotInv, Pending
    <2> QED
      BY <1>2, <2>3 DEF IsCurrent, Ahead
  <1> QED
    BY <1>1, <1>2 DEF OddInv

(* Every step keeps what is known of the entries that make requests. *)
LEMMA NextKeepsOdd == IInv /\ OddInv /\ TransferInv /\ [Next]_vars => OddInv'
  <1> SUFFICES ASSUME Types, Slots, OddInv, TransferInv, [Next]_vars
               PROVE  OddInv'
    BY DEF IInv
  <1>a. InfoOK /\ DtorOK
    BY DEF Types, LayerOK
  <1>1. ASSUME NEW i \in Infos, NEW r \in Ranges, getData(i, r) PROVE OddInv'
    BY <1>a, <1>1, GetDataInfo, OddStays DEF Ahead, getData, httpVars, ghosts
  <1>2. ASSUME NEW i \in Infos, FetchStep(i) PROVE OddInv'
    BY <1>2, FetchOdd
  <1>b. ASSUME UNCHANGED <<info, raced, early>> PROVE OddInv'
    BY <1>b, OddStays
  <1>3. ASSUME StartStep PROVE OddInv'
    BY <1>3, <1>b DEF StartStep, StartDownload, GoThrows, ghosts
  <1>4. ASSUME CurlThread PROVE OddInv'
    <2>1. ASSUME (Select \/ SelectReturns) /\ NetworkOnly PROVE OddInv'
      BY <2>1, <1>b DEF Select, SelectReturns, NetworkOnly, ghosts
    <2>2. ASSUME NEW u \in Uploads, UploadCalls(u) PROVE OddInv'
      BY <2>2, <1>b DEF UploadCalls
    <2> QED
      BY <1>4, <2>1, <2>2, CallOdd DEF CurlThread, Services
  <1>5. ASSUME NEW h \in Requests, Serve(h) PROVE OddInv'
    <2>1. UNCHANGED <<info, early>>
      BY <1>5 DEF Serve, NetworkOnly, ghosts
    <2>2. DataStep(h) /\ Shapes
      BY <1>5 DEF Serve, ServerStep, DataStep, Types, CurlSideOK, HttpOK
    <2>3. raced' = raced
      BY <2>2, DataStepKeepsControl
    <2> QED
      BY <2>1, <2>3, <1>b
  <1>6. ASSUME NEW h \in Requests, EndTransfer(h) PROVE OddInv'
    <2>1. ASSUME CurlStep(h), NetworkOnly PROVE OddInv'
      BY <2>1, <1>b DEF CurlStep, Retry, Restart, FreeHandle, CopyCallback, ResetCallback,
         NetworkOnly, ghosts
    <2>2. ASSUME NEW i \in Infos, NEW k \in Services, RetryCallsBack(i, k) PROVE OddInv'
      <3>1. Erase(i) /\ early' = early \cup {i} /\ raced' = raced
        BY <2>2 DEF RetryCallsBack, Restart
      <3>2. info'[i].st = "erased" /\ \A j \in Infos \ {i} : info'[j] = info[j]
        BY <1>a, <3>1, EraseInfo
      <3> QED
        BY <3>1, <3>2 DEF OddInv, Ahead
    <2> QED
      BY <1>6, <2>1, <2>2 DEF EndTransfer, Services
  <1>7. ASSUME NEW u \in Uploads, CreateUpload(u) PROVE OddInv'
    BY <1>7, <1>b DEF CreateUpload, ghosts
  <1>8. ASSUME DestroyBegin \/ Destructor PROVE OddInv'
    <2>1. ASSUME DestroyBegin \/ DestroyCollect \/ DestroyWait PROVE OddInv'
      BY <2>1, <1>b DEF DestroyBegin, DestroyCollect, DestroyWait, httpVars, ghosts
    <2>2. ASSUME NEW h \in Requests, AbortTakesCallback(h), NetworkOnly PROVE OddInv'
      BY <2>2, <1>b DEF AbortTakesCallback, NetworkOnly, ghosts
    <2> QED
      BY <1>8, <2>1, <2>2, AbortOdd, CallOdd DEF Destructor, Services
  <1>9. ASSUME UNCHANGED vars PROVE OddInv'
    BY <1>9, <1>b DEF vars, httpVars
  <1> QED
    BY <1>1, <1>2, <1>3, <1>4, <1>5, <1>6, <1>7, <1>8, <1>9 DEF Next, Operate

(***************************************************************************)
(* What a successful transfer has moved are the bytes of the file, in any  *)
(* pieces, after any retries and whatever the destructor aborts meanwhile, *)
(* except for the kinds of ranges TransfersTrue names (initCurlHandle,     *)
(* gotHeader, write, read, curlLoop, abort), for files of any length, any  *)
(* ranges, services and servers.                                           *)
(***************************************************************************)
THEOREM TransfersMoveTheFile == Spec => []TransfersTrue
  <1>1. Init => OddInv /\ TransferInv
    BY InitTransfer, InitOdd
  <1>2. IInv /\ OddInv /\ TransferInv /\ [Next]_vars => OddInv' /\ TransferInv'
    BY NextKeepsTransfers, NextKeepsOdd
  <1>3. TransferInv => TransfersTrue
    BY DEF TransferInv
  <1> QED
    BY <1>1, <1>2, <1>3, Invariance, PTL DEF Spec
=============================================================================
