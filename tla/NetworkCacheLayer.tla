------------------------- MODULE NetworkCacheLayer --------------------------
(***************************************************************************)
(* NetworkCacheLayer (libcore/src/transfer/NetworkCacheLayer.hpp): the     *)
(* last cache layer downloads a file from the services that have it, one   *)
(* after the other, by means of HTTPDownloadHandler and HTTPRequest; its   *)
(* destructor aborts what is running and waits for the rest.  Beside it,   *)
(* files are uploaded by HTTP PUT.                                         *)
(***************************************************************************)
EXTENDS HTTPRequest

CONSTANTS
  Infos,          \* calls of getData, each with a RequestInfo in mActiveTransfers
  NumServices,    \* the length of the list of services of every file
  RequestFor,     \* the HTTPRequest for a service of a RequestInfo
  Uploads,        \* the HTTPRequests that are uploads
  Ranges          \* the ranges asked for

ASSUME NetworkAssumption ==
  /\ NumServices \in Nat \ {0}
  /\ Uploads \subseteq Requests
  /\ RequestFor \in [Infos \X (0..(NumServices - 1)) -> Requests \ Uploads]
  \* download() makes a new HTTPRequest for every attempt
  /\ \A x, y \in Infos \X (0..(NumServices - 1)) : RequestFor[x] = RequestFor[y] => x = y

ASSUME TransferAssumption ==
  FileLen \in Nat /\ Ranges \subseteq [s : Nat, n : Nat, eof : BOOLEAN]

VARIABLES
  info,           \* mActiveTransfers: [st, by, which, range, httpreq]
  starting,       \* downloads made but not started: [i, h, by], by a thread
  cleanup,
  dtor,           \* the destructor: [pc, pendingDelete]
  answers,        \* ghost: how often the callback of each getData was called, up to 2
  wrong,          \* ghost: transfers that succeeded with other bytes
  early,          \* ghost: entries answered by initCurlHandle
  late            \* ghost: entries whose download the destructor did not see

vars == <<httpVars, info, starting, cleanup, dtor, answers, wrong, early, late>>
ghosts == <<answers, wrong, early, late>>

NoInfo == [st |-> "none", by |-> "client", which |-> 0, range |-> WholeFile, httpreq |-> {}]

Init ==
  /\ HTTPInit
  /\ info = [i \in Infos |-> NoInfo]
  /\ starting = {}
  /\ cleanup = FALSE
  /\ dtor = [pc |-> "up", pendingDelete |-> {}]
  /\ answers = [i \in Infos |-> 0]
  /\ wrong = {} /\ early = {} /\ late = {}

-----------------------------------------------------------------------------
(* A thread that has come to the end of a callback goes on with its own work. *)
Returns(by) ==
  /\ curl' = IF by = "curl" THEN [curl EXCEPT !.pc = "loop", !.h = {}] ELSE curl
  /\ aborting' = IF by = "abort" THEN [pc |-> "idle", h |-> {}] ELSE aborting

(* Mutant: the destructor is not told. *)
EraseSilently(i) ==
  /\ info' = [info EXCEPT ![i] = [@ EXCEPT !.st = "erased", !.httpreq = {}]]
  /\ dtor' = dtor

(* mActiveTransfers.erase(iter); mCleanupCV.notify_one() *)
Erase(i) ==
  /\ info' = [info EXCEPT ![i] = [@ EXCEPT !.st = "erased", !.httpreq = {}]]
  /\ dtor' = IF dtor.pc = "asleep" THEN [dtor EXCEPT !.pc = "wait"] ELSE dtor

Called(i) == answers' = [answers EXCEPT ![i] = IF @ = 0 THEN 1 ELSE 2]

(* getData: the request is entered in the list, and the services looked up. *)
getData(i, range) ==
  /\ dtor.pc = "up" /\ info[i].st = "none"
  /\ info' = [info EXCEPT ![i].st = "lookup", ![i].range = range]
  /\ UNCHANGED <<httpVars, starting, cleanup, dtor, ghosts>>

gotServices(i) ==
  /\ info[i].st = "lookup"
  /\ info' = [info EXCEPT ![i].st = "fetch", ![i].by = "client", ![i].which = 0]
  /\ UNCHANGED <<httpVars, starting, cleanup, dtor, ghosts>>

(* doFetch: no service is left, or the layer is being destroyed; the next *)
(* layer, here the end of the chain, answers NULL.                        *)
GiveUp(i) ==
  /\ info[i].st = "fetch"
  /\ cleanup \/ info[i].which >= NumServices
  /\ Called(i) /\ Erase(i) /\ Returns(info[i].by)
  /\ UNCHANGED <<http, watch, woken, properties, raced, starting, cleanup, wrong, early, late>>

(* doFetch: cleanup is tested without a lock; the thread goes on with what *)
(* it has seen, whatever the destructor does meanwhile.                    *)
TestCleanup(i) ==
  /\ info[i].st = "fetch" /\ ~cleanup /\ info[i].which < NumServices
  /\ info' = [info EXCEPT ![i].st = "create"]
  /\ UNCHANGED <<httpVars, starting, cleanup, dtor, ghosts>>

(* doFetch: there is no handler for the protocol of this service. *)
NoHandler(i) ==
  /\ info[i].st = "create"
  /\ info' = [info EXCEPT ![i].st = "fetch", ![i].which = @ + 1]
  /\ UNCHANGED <<httpVars, starting, cleanup, dtor, ghosts>>

Current(i) == RequestFor[i, info[i].which]

(* doFetch and HTTPDownloadHandler::download: info.httpreq is set before go(), *)
(* since afterwards info may be gone.                                          *)
CreateDownload(i) ==
  /\ info[i].st = "create"
  /\ http' = [http EXCEPT ![Current(i)] = NewRequest(info[i].range, FALSE)]
  /\ info' = [info EXCEPT ![i].st = "waiting", ![i].httpreq = {Current(i)}]
  /\ starting' = starting \cup {[h |-> Current(i), by |-> info[i].by]}
  /\ late' = IF dtor.pc \in {"up", "collect"} THEN late ELSE late \cup {i}
  /\ UNCHANGED <<curl, watch, woken, aborting, properties, raced, cleanup, dtor,
                 answers, wrong, early>>

StartDownload(d) ==
  /\ go(d.h)
  /\ starting' = starting \ {d}
  /\ Returns(d.by)
  /\ UNCHANGED <<watch, properties, raced, info, cleanup, dtor, ghosts>>

(* go() throws when the destructor's abort() came first.  The exception goes *)
(* to the caller of doFetch; curlLoop does not catch it, and that terminates *)
(* the process.                                                              *)
GoThrows(d) ==
  /\ ~CanGo(d.h)
  /\ starting' = starting \ {d}
  /\ curl' = IF d.by = "curl" THEN [curl EXCEPT !.pc = "terminated"] ELSE curl
  /\ UNCHANGED <<http, watch, woken, aborting, properties, raced, info, cleanup, dtor, ghosts>>

Terminated == curl.pc = "terminated"

(* The data of a download is right if every byte of the file in it is, and *)
(* the bytes asked for are there.                                          *)
Right(data, range) ==
  \A b \in 0..(FileLen - 1) :
    LET k == b - data.base + 1
    IN  /\ k \in DOMAIN data.bytes => data.bytes[k] = b
        /\ b >= range.s /\ (range.eof \/ b < EndByte(range)) => k \in DOMAIN data.bytes

(***************************************************************************)
(* httpCallback, called by curlLoop or by abort() with the callback of the *)
(* request for service k.  Success is passed on, after the caches in front *)
(* have been filled; otherwise the next service is tried.  What a second   *)
(* call does to an entry that another thread has erased or is working on   *)
(* is undefined; the model only counts it.                                 *)
(***************************************************************************)
httpCallback(i, k, by, success) ==
  LET h == RequestFor[i, k]
  IN  IF info[i].st \in {"erased", "fetch", "create"}
      THEN Called(i) /\ Returns(by) /\ UNCHANGED <<info, dtor, wrong>>
      ELSE IF success
      THEN /\ Called(i) /\ Erase(i) /\ Returns(by)
           /\ wrong' = IF Right(http[h].mData, info[i].range) THEN wrong
                       ELSE wrong \cup {[range |-> info[i].range, host |-> HostOf[h]]}
      ELSE /\ info' = [info EXCEPT ![i].st = "fetch", ![i].by = by, ![i].which = k + 1]
           /\ curl' = IF by = "curl" THEN [curl EXCEPT !.pc = "busy"] ELSE curl
           /\ aborting' = IF by = "abort" THEN [aborting EXCEPT !.pc = "busy"] ELSE aborting
           /\ UNCHANGED <<dtor, answers, wrong>>

CurlCalls(i, k) ==
  /\ curl.pc = "callback" /\ curl.h = {RequestFor[i, k]}
  /\ httpCallback(i, k, "curl", curl.success)
  /\ http' = [http EXCEPT ![RequestFor[i, k]] = Dropped(@)]
  /\ UNCHANGED <<watch, woken, properties, raced, starting, cleanup, early, late>>

AbortCalls(i, k) ==
  /\ aborting.pc = "callback" /\ aborting.h = {RequestFor[i, k]}
  /\ httpCallback(i, k, "abort", FALSE)
  /\ http' = [http EXCEPT ![RequestFor[i, k]] = Dropped(@)]
  /\ UNCHANGED <<watch, woken, properties, raced, starting, cleanup, early, late>>

(* A retry with an empty range: initCurlHandle calls httpCallback with the   *)
(* empty data, and success; then the request goes on, with its callback.     *)
(* Erasing an entry that was erased before is undefined, and changes nothing *)
(* here.                                                                     *)
RetryCallsBack(i, k) ==
  /\ Restart(RequestFor[i, k]) /\ InitCallsBack(RequestFor[i, k])
  /\ Called(i) /\ Erase(i)
  /\ early' = early \cup {i}
  /\ UNCHANGED <<starting, cleanup, wrong, late>>

-----------------------------------------------------------------------------
(* An upload with setPUTData(); its callback is told whether it succeeded. *)
CreateUpload(u) ==
  /\ http[u] = NoRequest
  /\ http' = [http EXCEPT ![u] = NewRequest(WholeFile, TRUE)]
  /\ starting' = starting \cup {[h |-> u, by |-> "client"]}
  /\ UNCHANGED <<curl, watch, woken, aborting, properties, raced, info, cleanup, dtor, ghosts>>

UploadCalls(u) ==
  /\ curl.pc = "callback" /\ curl.h = {u}
  /\ wrong' = IF curl.success /\ http[u].sent # [k \in 1..FileLen |-> k - 1]
              THEN wrong \cup {[put |-> u]} ELSE wrong
  /\ http' = [http EXCEPT ![u] = Dropped(@)]
  /\ Returns("curl")
  /\ UNCHANGED <<watch, woken, properties, raced, info, starting, cleanup, dtor, answers, early, late>>

-----------------------------------------------------------------------------
(* ~NetworkCacheLayer *)

DestroyBegin ==
  /\ dtor.pc = "up"
  /\ cleanup' = TRUE
  /\ dtor' = [dtor EXCEPT !.pc = "collect"]
  /\ UNCHANGED <<httpVars, info, starting, ghosts>>

DestroyCollect ==
  /\ dtor.pc = "collect"
  /\ dtor' = [pc |-> "abort", pendingDelete |-> UNION {info[i].httpreq : i \in Infos}]
  /\ UNCHANGED <<httpVars, info, starting, cleanup, ghosts>>

DestroyAbort(h) ==
  /\ dtor.pc = "abort" /\ h \in dtor.pendingDelete
  /\ Abort(h)
  /\ dtor' = [dtor EXCEPT !.pendingDelete = @ \ {h}]
  /\ UNCHANGED <<info, starting, cleanup, ghosts>>

DestroyWait ==
  /\ \/ dtor.pc = "abort" /\ dtor.pendingDelete = {} /\ aborting.pc = "idle"
     \/ dtor.pc = "wait"
  /\ dtor' = [dtor EXCEPT !.pc = IF \A i \in Infos : info[i].st \in {"none", "erased"}
                                 THEN "gone" ELSE "asleep"]
  /\ UNCHANGED <<httpVars, info, starting, cleanup, ghosts>>

-----------------------------------------------------------------------------
NetworkOnly == UNCHANGED <<info, starting, cleanup, dtor, ghosts>>

FetchStep(i) ==
  gotServices(i) \/ GiveUp(i) \/ TestCleanup(i) \/ NoHandler(i) \/ CreateDownload(i)

StartStep == \E d \in starting : StartDownload(d) \/ GoThrows(d)

Serve(h) == ServerStep(h) /\ NetworkOnly

EndTransfer(h) ==
  \/ CurlStep(h) /\ NetworkOnly
  \/ \E i \in Infos, k \in 0..(NumServices - 1) : h = RequestFor[i, k] /\ RetryCallsBack(i, k)

CurlThread ==
  \/ Select /\ NetworkOnly
  \/ SelectReturns /\ NetworkOnly
  \/ \E i \in Infos, k \in 0..(NumServices - 1) : CurlCalls(i, k)
  \/ \E u \in Uploads : UploadCalls(u)

Destructor ==
  \/ DestroyCollect \/ DestroyWait
  \/ \E h \in Requests : DestroyAbort(h)
  \/ \E h \in Requests : AbortTakesCallback(h) /\ NetworkOnly
  \/ \E i \in Infos, k \in 0..(NumServices - 1) : AbortCalls(i, k)

Operate ==
  \/ \E i \in Infos : (\E r \in Ranges : getData(i, r)) \/ FetchStep(i)
  \/ StartStep
  \/ CurlThread
  \/ \E h \in Requests : Serve(h) \/ EndTransfer(h)
  \/ \E u \in Uploads : CreateUpload(u)
  \/ DestroyBegin \/ Destructor

Next == ~Terminated /\ Operate

Spec == Init /\ [][Next]_vars

(***************************************************************************)
(* Every thread goes on with what it has begun.  A server that is not one  *)
(* of the silent ones answers, or the connection to it breaks: a transfer  *)
(* that curlLoop comes to again and again makes progress.  Of the silent   *)
(* ones nothing is assumed, since curl is given no time-out for a transfer *)
(* (CURLOPT_TIMEOUT), only one for the connection.                         *)
(***************************************************************************)
Running(A) == ~Terminated /\ A

FairSpec ==
  /\ Spec
  /\ \A i \in Infos : WF_vars(Running(FetchStep(i)))
  /\ WF_vars(Running(StartStep)) /\ WF_vars(Running(Destructor))
  /\ WF_vars(Running(CurlThread)) /\ \A h \in Requests : WF_vars(Running(EndTransfer(h)))
  /\ \A h \in Requests : HostOf[h] \notin SilentServers => SF_vars(Running(Serve(h)))

-----------------------------------------------------------------------------
(* Properties *)

(* The states of requests, threads and entries have their types; a callback *)
(* runs in the thread of getData, of curlLoop or of abort() (HTTPRequest,   *)
(* RequestInfo).                                                            *)
TypeOK ==
  /\ \A h \in Requests : /\ http[h].mState \in {"NEW", "INPROGRESS", "FINISHED"}
                         /\ http[h].handle \in {"none", "new", "added"}
  /\ curl \in [pc : {"select", "loop", "freed", "copied", "callback", "busy", "terminated"},
               h : SUBSET Requests, success : BOOLEAN]
  /\ aborting \in [pc : {"idle", "copy", "callback", "busy"}, h : SUBSET Requests]
  /\ info \in [Infos -> [st : {"none", "lookup", "fetch", "create", "waiting", "erased"},
                         by : {"client", "curl", "abort"}, which : Nat,
                         range : Ranges \cup {WholeFile}, httpreq : SUBSET Requests]]
  /\ starting \subseteq [h : Requests, by : {"client", "curl", "abort"}]
  /\ dtor \in [pc : {"up", "collect", "abort", "wait", "asleep", "gone"},
               pendingDelete : SUBSET Requests]
  /\ answers \in [Infos -> Nat]
  /\ raced \subseteq Requests

(* The callback given to getData is called once, however the end of a       *)
(* download, a retry with the next service and abort() meet, unless abort() *)
(* looks at mCurlRequest just when curlLoop has freed it, or a retry with   *)
(* an empty range calls back (curlLoop, abort, initCurlHandle,              *)
(* httpCallback, doFetch).                                                  *)
AnsweredOnce ==
  \A i \in Infos :
    \/ answers[i] <= IF info[i].st = "erased" THEN 1 ELSE 0
    \/ \E k \in 0..(NumServices - 1) : RequestFor[i, k] \in raced
    \/ i \in early

(* What a transfer that succeeded has moved are the bytes of the file, in   *)
(* any number of pieces and after a retry, except that the first bytes of a *)
(* file are asked for as its last ones, and that the whole file, which a    *)
(* server without ranges and any server asked for an empty range sends, is  *)
(* put into the wrong place if the range does not start at 0                *)
(* (initCurlHandle, gotHeader, write, read).                                *)
TransfersTrue ==
  \A w \in wrong :
    /\ "range" \in DOMAIN w
    /\ IF w.host \in RangeServers /\ ~Empty(w.range)
       THEN w.range.s = 0 /\ ~w.range.eof ELSE w.range.s # 0

(* A download that no answer will end: its server is silent or goes on      *)
(* answering 417, and the destructor is not there or has not seen it.       *)
Hangs(i) ==
  /\ info[i].st = "waiting" /\ (dtor.pc = "up" \/ i \in late)
  /\ \E h \in info[i].httpreq : HostOf[h] \in SilentServers \cup StubbornServers

(* Every call of getData is answered, also when the layer is destroyed in   *)
(* the middle of it, unless its download hangs for ever or the process is   *)
(* terminated by an exception (doFetch, curlLoop's select and go()'s        *)
(* wake-up).                                                                *)
GetDataAnswered ==
  \A i \in Infos : \/ info[i].st # "none" ~> answers[i] > 0 \/ Terminated
                   \/ <>[]Hangs(i)

(* The destructor comes back, also from a download that hangs, unless the   *)
(* download was made after it had collected them (mCleanupCV, abort).       *)
DestructorReturns ==
  \/ dtor.pc # "up" ~> dtor.pc = "gone" \/ Terminated
  \/ <>[](\E i \in late : Hangs(i))

(* "Only retry if ServerProperties has changed! Do not want to get stuck in *)
(* an infinite loop." (curlLoop)                                            *)
RetriesChange ==
  [][\A h \in Requests : http[h].server = "417" /\ http'[h].server = "asked"
       => properties' # properties]_vars

(* "Prevents doFetch (callback for NameLookup) from starting a new          *)
(* download": none is made once the destructor has set cleanup.             *)
NoNewDownloads ==
  [][\A i \in Infos : cleanup /\ info'[i].st = "waiting" => info[i].st = "waiting"]_vars
=============================================================================
