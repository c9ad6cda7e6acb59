---------------------------- MODULE HTTPRequest -----------------------------
(***************************************************************************)
(* HTTPRequest (libcore/src/transfer/HTTPRequest.hpp, .cpp): downloads and *)
(* uploads with curl.  One thread runs curlLoop for all requests; go() and *)
(* abort() are called by others.  http_lock protects curl, but not the     *)
(* fields of a request.  The bytes of a file are numbered from 0; Zero is  *)
(* a byte that was never written.                                          *)
(***************************************************************************)
EXTENDS Range, FiniteSets

CONSTANTS
  Requests,       \* the HTTPRequest objects
  HostOf,         \* the server of each request
  RangeServers,   \* servers that honour a Range header
  PickyServers,   \* servers that answer 417 to an Expect header
  StubbornServers,\* servers that may answer 417 to anything
  SilentServers,  \* servers that may keep a connection open and say nothing
  FileLen         \* the length of the file transferred

VARIABLES
  http,           \* the requests
  curl,           \* curlLoop: [pc, h, success]
  watch,          \* the requests whose sockets select() waits for
  woken,          \* somebody has written into the wake-up pipe
  aborting,       \* abort() in another thread: [pc, h]
  properties,     \* hosts known not to support Expect: 100-continue
  raced           \* ghost: requests whose callback both threads have copied

httpVars == <<http, curl, watch, woken, aborting, properties, raced>>

Zero == -1

-----------------------------------------------------------------------------
(* DenseData *)

SetLength(data, n, eof) ==
  [data EXCEPT !.bytes = [k \in 1..n |-> IF k \in DOMAIN @ THEN @[k] ELSE Zero], !.eof = eof]

DenseData(r) == [base |-> r.s, bytes |-> [k \in 1..r.n |-> Zero], eof |-> r.eof]

-----------------------------------------------------------------------------
(***************************************************************************)
(* initCurlHandle: the state of a transfer is reset, as it is also used    *)
(* for a retry, and the Range header is written.  A header has a first and *)
(* a last byte, both optional.  For an empty range the function returns    *)
(* before it sets the header, and after it has set the offset.             *)
(***************************************************************************)
Empty(r) == ~r.eof /\ r.n = 0

RangeHeader(r) ==
  [first |-> IF r.s = 0 \/ Empty(r) THEN {} ELSE {r.s},
   last |-> IF r.eof \/ Empty(r) THEN {} ELSE {EndByte(r)}]

(* Mutant: an upload that is restarted goes on where it was. *)
initCurlHandleGoesOn(q) ==
  [q EXCEPT !.mState = "NEW", !.handle = "new", !.mOffset = q.mRequestedRange.s,
            !.mData = DenseData(q.mRequestedRange), !.header = RangeHeader(q.mRequestedRange)]

initCurlHandle(q) ==
  [q EXCEPT !.mState = "NEW", !.handle = "new", !.mOffset = q.mRequestedRange.s,
            !.mData = DenseData(q.mRequestedRange), !.mUploadOffset = 0,
            !.header = RangeHeader(q.mRequestedRange)]

(* A request that does not exist yet. *)
NoRequest ==
  [mState |-> "NEW", handle |-> "none", put |-> FALSE, mRequestedRange |-> WholeFile,
   mOffset |-> 0, mUploadOffset |-> 0, mData |-> DenseData(WholeFile), callback |-> FALSE,
   header |-> RangeHeader(WholeFile), expect |-> FALSE, server |-> "none", sent |-> <<>>]

(* Nobody looks at the data again once the callback has been called. *)
Dropped(q) ==
  [NoRequest EXCEPT !.mState = q.mState, !.handle = q.handle, !.callback = q.callback]

(* HTTPRequest(uri, range) and setCallback(); setPUTData() for an upload. *)
NewRequest(range, put) ==
  initCurlHandle([NoRequest EXCEPT !.mRequestedRange = range, !.put = put, !.callback = TRUE])

(* setFinalProperties() and curl_multi_add_handle(): only uploads come with *)
(* an Expect header, unless the host is known not to like it.               *)
Added(q, h, known) ==
  [q EXCEPT !.mState = "INPROGRESS", !.handle = "added", !.server = "asked", !.sent = <<>>,
            !.expect = q.put /\ HostOf[h] \notin known]

(* curlLoop holds http_lock from the end of a transfer to its callback. *)
CurlLocked == curl.pc \in {"freed", "copied"}

(* go(): throws if the request was started or aborted before. *)
CanGo(h) == http[h].mState = "NEW"

(* Mutant: the thread is not woken. *)
goQuietly(h) ==
  /\ CanGo(h)
  /\ ~CurlLocked
  /\ http' = [http EXCEPT ![h] = Added(@, h, properties)]
  /\ woken' = woken

go(h) ==
  /\ CanGo(h)
  /\ ~CurlLocked
  /\ http' = [http EXCEPT ![h] = Added(@, h, properties)]
  /\ woken' = TRUE

-----------------------------------------------------------------------------
(* The server, external, and what curl_multi_perform does with its answers. *)
(* It runs in curlLoop with http_lock held.                                 *)

(* The bytes a server sends: n bytes from the end if there is no first byte. *)
Served(q, h) ==
  LET first == CHOOSE b \in q.header.first : TRUE
      last == CHOOSE b \in q.header.last : TRUE
      from == IF q.header.first # {} THEN first
              ELSE IF q.header.last # {} /\ last < FileLen THEN FileLen - last ELSE 0
      upTo == IF q.header.first # {} /\ q.header.last # {} /\ last < FileLen - 1
              THEN last ELSE FileLen - 1
      honoured == HostOf[h] \in RangeServers
  IN  IF honoured THEN [k \in 1..(upTo - from + 1) |-> from + k - 1]
      ELSE [k \in 1..FileLen |-> k - 1]

Ranged(q) == q.header.first # {} \/ q.header.last # {}

(* gotHeader: a server that answers 200 to a partial request is sending the *)
(* whole file.  Content-Length sets the length of the data.                 *)
gotHeader(q, status, length) ==
  LET whole == status = 200 /\ (~q.mRequestedRange.eof \/ q.mRequestedRange.s # 0)
      range == IF whole THEN WholeFile ELSE q.mRequestedRange
      data == IF whole THEN SetLength([q.mData EXCEPT !.base = 0], 0, TRUE) ELSE q.mData
  IN  [q EXCEPT !.mRequestedRange = range,
                !.mData = IF length = 0 THEN data ELSE SetLength(data, length, range.eof)]

(* write: a chunk of the answer is copied behind the ones before. *)
write(q, chunk) ==
  LET startByte == q.mOffset - q.mData.base
      total == startByte + Len(chunk)
      data == IF Len(q.mData.bytes) < total
              THEN SetLength(q.mData, total, q.mRequestedRange.eof) ELSE q.mData
  IN  [q EXCEPT !.mData = [data EXCEPT !.bytes = [k \in DOMAIN @ |->
                  IF k - startByte \in DOMAIN chunk THEN chunk[k - startByte] ELSE @[k]]],
                !.mOffset = @ + Len(chunk)]

Performing(h) == curl.pc = "loop" /\ http[h].handle = "added"

(* The server of a download answers. *)
ServerAnswers(h) ==
  /\ Performing(h) /\ http[h].server = "asked" /\ ~http[h].put
  /\ LET q == http[h]
         body == Served(q, h)
         status == IF Ranged(q) /\ HostOf[h] \in RangeServers THEN 206 ELSE 200
     IN  http' = [http EXCEPT ![h] =
                    [gotHeader(q, status, Len(body)) EXCEPT !.server = "sending", !.sent = body]]
  /\ UNCHANGED <<curl, watch, woken, aborting, properties, raced>>

(* Some of the body arrives. *)
BodyArrives(h) ==
  /\ Performing(h) /\ http[h].server = "sending" /\ ~http[h].put
  /\ \E n \in 1..Len(http[h].sent) :
       LET q == http[h]
           rest == SubSeq(q.sent, n + 1, Len(q.sent))
       IN  http' = [http EXCEPT ![h] =
                      [write(q, SubSeq(q.sent, 1, n)) EXCEPT
                         !.sent = rest, !.server = IF rest = <<>> THEN "ok" ELSE "sending"]]
  /\ UNCHANGED <<curl, watch, woken, aborting, properties, raced>>

(* read: curl takes some of the data to upload and sends it. *)
read(h) ==
  /\ Performing(h) /\ http[h].put /\ http[h].server \in {"asked", "sending"}
  /\ http[h].mUploadOffset < FileLen
  /\ \E n \in 1..(FileLen - http[h].mUploadOffset) :
       http' = [http EXCEPT ![h].mUploadOffset = @ + n, ![h].server = "sending",
                            ![h].sent = @ \o [k \in 1..n |-> http[h].mUploadOffset + k - 1]]
  /\ UNCHANGED <<curl, watch, woken, aborting, properties, raced>>

(* The server has what it was promised, or what read() gave it. *)
UploadAccepted(h) ==
  /\ Performing(h) /\ http[h].put /\ http[h].mUploadOffset = FileLen
  /\ http[h].server \in {"asked", "sending"}
  /\ ~(http[h].expect /\ HostOf[h] \in PickyServers)
  /\ http' = [http EXCEPT ![h].server = "ok"]
  /\ UNCHANGED <<curl, watch, woken, aborting, properties, raced>>

(* Some servers want no Expect header, perhaps after part of the data; some *)
(* answer 417 whatever they are asked.                                      *)
ExpectationFails(h) ==
  /\ Performing(h)
  /\ http[h].server = "asked" \/ (http[h].put /\ http[h].server = "sending")
  /\ HostOf[h] \in StubbornServers \/ (http[h].expect /\ HostOf[h] \in PickyServers)
  /\ http' = [http EXCEPT ![h].server = "417"]
  /\ UNCHANGED <<curl, watch, woken, aborting, properties, raced>>

(* An error, or the connection breaks. *)
TransferBreaks(h) ==
  /\ Performing(h) /\ http[h].server \in {"asked", "sending"}
  /\ http' = [http EXCEPT ![h].server = "failed"]
  /\ UNCHANGED <<curl, watch, woken, aborting, properties, raced>>

-----------------------------------------------------------------------------
(* curlLoop *)

Over(h) == Performing(h) /\ http[h].server \in {"ok", "failed", "417"}

(* The thread asks curl which sockets to wait for and sleeps in select(). *)
Select ==
  /\ curl.pc = "loop" /\ \A h \in Requests : ~Over(h)
  /\ curl' = [curl EXCEPT !.pc = "select"]
  /\ watch' = {h \in Requests : http[h].handle = "added"}
  /\ UNCHANGED <<http, woken, aborting, properties, raced>>

(* It goes on when a socket is ready or the wake-up pipe is (handleWakeup). *)
SelectReturns ==
  /\ curl.pc = "select" /\ (woken \/ \E h \in watch : http[h].handle = "added")
  /\ curl' = [curl EXCEPT !.pc = "loop"]
  /\ watch' = {} /\ woken' = FALSE
  /\ UNCHANGED <<http, aborting, properties, raced>>

(* Any 417 leads to a retry: the properties of the server are written, but *)
(* nobody looks whether they have changed.                                 *)
Restart(h) ==
  /\ Over(h) /\ http[h].server = "417"
  /\ properties' = properties \cup {HostOf[h]}
  /\ http' = [http EXCEPT ![h] = Added(initCurlHandle(@), h, properties')]
  /\ UNCHANGED <<curl, watch, woken, aborting, raced>>

(* initCurlHandle calls back with success if the range is empty; the first  *)
(* time, in the constructor, there is no callback yet.                      *)
InitCallsBack(h) == Empty(http[h].mRequestedRange) /\ http[h].callback

Retry(h) == Restart(h) /\ ~InitCallsBack(h)

(* The handle is freed, with http_lock held ... *)
FreeHandle(h) ==
  /\ Over(h) /\ http[h].server # "417"
  /\ http' = [http EXCEPT ![h].handle = "none", ![h].mState = "FINISHED"]
  /\ curl' = [pc |-> "freed", h |-> {h}, success |-> http[h].server = "ok"]
  /\ UNCHANGED <<watch, woken, aborting, properties, raced>>

(* ... the callback is copied ... *)
CopyCallback(h) ==
  /\ curl.pc = "freed" /\ h \in curl.h
  /\ curl' = [curl EXCEPT !.pc = IF http[h].callback THEN "copied" ELSE "loop"]
  /\ UNCHANGED <<http, watch, woken, aborting, properties, raced>>

(* Mutant: the callback is left in the request. *)
ResetCallbackNot(h) ==
  /\ curl.pc = "copied" /\ h \in curl.h
  /\ curl' = [curl EXCEPT !.pc = "callback"]
  /\ UNCHANGED <<http, watch, woken, aborting, properties, raced>>

(* ... and replaced by nullCallback; then it is called without the lock. *)
ResetCallback(h) ==
  /\ curl.pc = "copied" /\ h \in curl.h
  /\ http' = [http EXCEPT ![h].callback = FALSE]
  /\ curl' = [curl EXCEPT !.pc = "callback"]
  /\ UNCHANGED <<watch, woken, aborting, properties, raced>>

(***************************************************************************)
(* abort(), in another thread: mCurlRequest is tested before http_lock is  *)
(* taken, and the callback is copied without it.                           *)
(***************************************************************************)
Abort(h) ==
  /\ aborting.pc = "idle"
  /\ http[h].handle # "none" => ~CurlLocked
  /\ http' = [http EXCEPT ![h].mState = "FINISHED", ![h].handle = "none", ![h].server = "none"]
  /\ raced' = IF CurlLocked /\ h \in curl.h /\ http[h].callback
              THEN raced \cup {h} ELSE raced
  /\ aborting' = [pc |-> "copy", h |-> {h}]
  /\ UNCHANGED <<curl, watch, woken, properties>>

AbortTakesCallback(h) ==
  /\ aborting.pc = "copy" /\ h \in aborting.h
  /\ http' = [http EXCEPT ![h].callback = FALSE]
  /\ aborting' = IF http[h].callback THEN [aborting EXCEPT !.pc = "callback"]
                 ELSE [pc |-> "idle", h |-> {}]
  /\ UNCHANGED <<curl, watch, woken, properties, raced>>

HTTPInit ==
  /\ http = [h \in Requests |-> NoRequest]
  /\ curl = [pc |-> "select", h |-> {}, success |-> FALSE]
  /\ watch = {} /\ woken = FALSE
  /\ aborting = [pc |-> "idle", h |-> {}]
  /\ properties = {} /\ raced = {}

(* What the server does, and what curlLoop does at the end of a transfer. *)
ServerStep(h) ==
  \/ ServerAnswers(h) \/ BodyArrives(h) \/ read(h) \/ UploadAccepted(h)
  \/ ExpectationFails(h) \/ TransferBreaks(h)

CurlStep(h) == Retry(h) \/ FreeHandle(h) \/ CopyCallback(h) \/ ResetCallback(h)
=============================================================================
