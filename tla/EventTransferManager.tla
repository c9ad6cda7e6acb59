------------------------ MODULE EventTransferManager ------------------------
(***************************************************************************)
(* EventTransferManager (libcore/src/transfer/EventTransferManager.hpp):   *)
(* downloads, which are looked up by name, joined with the transfers of    *)
(* the same file that are running, and answered by events; uploads, which  *)
(* store the data on every server before the name; and cleanup().  Clients *)
(* and the callbacks of the layers below run in threads of their own;      *)
(* mMutex protects mActiveTransfers.  A lookup goes through the services   *)
(* of NameLookupManager and ProtocolRegistry one by one.                   *)
(*                                                                         *)
(* lookupHash() is not virtual in NameLookupManager, so that the cache of  *)
(* CachedNameLookupManager is filled but not read here; it is left out.    *)
(*                                                                         *)
(* A null pointer, or an exception that nobody catches, is the end of the  *)
(* program: Crashed.                                                       *)
(***************************************************************************)
EXTENDS Range, FiniteSets

CONSTANTS
  Downloads,      \* calls of download() and downloadByHash()
  Want,           \* Want[d]: [name, file, range]; by hash if the name is NoName,
                  \* else file is the one that the URI itself names, or none
  Uploads,        \* calls of upload()
  Give,           \* Give[u]: [name, file]
  Names, NoName,
  Files, NoFile,
  Known,          \* names and files the servers know from the start: [names, files]
  FileLen,        \* the length of every file
  NumServices,    \* services for names, and for data
  Cleanup,        \* the call of cleanup()
  Scenarios       \* [calls, registered, handled]: the calls that take part, the chains
                  \* of uploads that have a registry, the services that have a handler

Services == 0..(NumServices - 1)

Chains == {"data", "name"}

Spans == [s : Int, n : Int, eof : BOOLEAN]

(* The names the servers know from the start are names of files they have. *)
ASSUME TransferAssumption ==
  /\ NumServices \in Nat \ {0} /\ FileLen \in Nat \ {0}
  /\ Scenarios \subseteq [calls : SUBSET (Downloads \cup Uploads \cup {Cleanup}),
                           registered : SUBSET Chains, handled : SUBSET (Chains \X Services)]
  /\ Want \in [Downloads ->
                 [name : Names \cup {NoName}, file : Files \cup {NoFile}, range : Spans]]
  /\ \A d \in Downloads : Want[d].name = NoName => Want[d].file # NoFile
  /\ Give \in [Uploads -> [name : Names, file : Files]]
  /\ Known.files \subseteq Files
  /\ Known.names \in [Names -> Known.files \cup {NoFile}]

VARIABLES
  scenario,
  mActiveTransfers,   \* ranges that are being downloaded: [file, range]
  mPendingCleanup,
  mCleanup,
  cleanupPc,          \* cleanup(): no, wait (has the mutex), asleep, test, done
  missed,             \* ghost: the notification came between the test and the wait
  dl,                 \* downloads: [pc, which, file]
  tr,                 \* their transfers: [st, ok, data]
  up,                 \* chains of uploads: up[u][kind]: [st, which, success]
  bound,              \* bound[s][n]: what name server s answers for n
  stored,             \* stored[s]: the files at data server s
  asked, listening,   \* event system: subscriptions not applied yet, and applied
  events, round,      \* events fired, and taken by the event thread
  evPc,               \* the event thread: idle, requests, dispatch
  told                \* what each listener was told in the end

cleanupVars == <<mCleanup, cleanupPc, missed>>
servers == <<bound, stored>>
eventThread == <<round, evPc, listening>>
vars == <<scenario, mActiveTransfers, mPendingCleanup, cleanupVars, dl, tr, up, servers, asked,
          events, eventThread, told>>

Init ==
  /\ scenario \in Scenarios
  /\ mActiveTransfers = {} /\ mPendingCleanup = 0
  /\ mCleanup = FALSE /\ cleanupPc = "no" /\ missed = FALSE
  /\ dl = [d \in Downloads |-> [pc |-> "none", which |-> 0, file |-> NoFile]]
  /\ tr = [d \in Downloads |-> [st |-> "none", ok |-> FALSE, data |-> <<>>]]
  /\ up = [u \in Uploads |-> [c \in Chains |-> [st |-> "none", which |-> 0, success |-> TRUE]]]
  /\ bound = [s \in Services |-> Known.names]
  /\ stored = [s \in Services |-> Known.files]
  /\ asked = {} /\ listening = {}
  /\ events = <<>> /\ round = <<>> /\ evPc = "idle"
  /\ told = [x \in Downloads \cup Uploads |-> "none"]

-----------------------------------------------------------------------------
(* mMutex is free, unless cleanup() is about to wait; the others hold it    *)
(* only within a step.                                                      *)
MutexFree == cleanupPc # "wait"

(* mCleanupCV.notify_one() *)
Notify ==
  /\ cleanupPc' = IF cleanupPc = "asleep" THEN "test" ELSE cleanupPc
  /\ missed' = (missed \/ cleanupPc = "wait")

-----------------------------------------------------------------------------
(* Downloads *)

(* download() counts the call; nobody calls it any more once cleanup() was *)
(* called.                                                                 *)
download(d) ==
  /\ d \in scenario.calls /\ dl[d].pc = "none" /\ ~mCleanup /\ Want[d].name # NoName
  /\ mPendingCleanup' = mPendingCleanup + 1
  /\ dl' = [dl EXCEPT ![d].pc = "counted"]
  /\ UNCHANGED <<scenario, mActiveTransfers, cleanupVars, tr, up, servers, asked, events,
                 eventThread, told>>

(* ... then goes through mNameLookup, without the lock under which cleanup() *)
(* sets it to NULL.                                                          *)
lookupHash(d) ==
  /\ dl[d].pc = "counted"
  /\ dl' = [dl EXCEPT ![d].pc = IF mCleanup THEN "crashed" ELSE "lookup"]
  /\ UNCHANGED <<scenario, mActiveTransfers, mPendingCleanup, cleanupVars, tr, up, servers, asked,
                 events, eventThread, told>>

(* downloadByHash(), as if a name lookup had been answered. *)
downloadByHash(d) ==
  /\ d \in scenario.calls /\ dl[d].pc = "none" /\ cleanupPc # "done" /\ Want[d].name = NoName
  /\ mPendingCleanup' = mPendingCleanup + 1
  /\ dl' = [dl EXCEPT ![d] = [pc |-> "found", which |-> 0, file |-> Want[d].file]]
  /\ UNCHANGED <<scenario, mActiveTransfers, cleanupVars, tr, up, servers, asked, events,
                 eventThread, told>>

(* doNameLookup and gotNameLookup: a service answers, *)
NameFound(d) ==
  /\ dl[d].pc = "lookup" /\ dl[d].which < NumServices
  /\ bound[dl[d].which][Want[d].name] # NoFile
  /\ dl' = [dl EXCEPT ![d] = [pc |-> "found", which |-> dl[d].which,
                              file |-> bound[dl[d].which][Want[d].name]]]
  /\ UNCHANGED <<scenario, mActiveTransfers, mPendingCleanup, cleanupVars, tr, up, servers, asked,
                 events, eventThread, told>>

(* ... or it fails, or has no handler in the registry: then the next one. *)
NameLookupFails(d) ==
  /\ dl[d].pc = "lookup" /\ dl[d].which < NumServices
  /\ dl' = [dl EXCEPT ![d].which = @ + 1]
  /\ UNCHANGED <<scenario, mActiveTransfers, mPendingCleanup, cleanupVars, tr, up, servers, asked,
                 events, eventThread, told>>

(* After the last service: where there is a service to download from, the   *)
(* URI is taken for one that names the file by its hash; convertFromHex     *)
(* throws if it does not.                                                   *)
hashedDownload(d) ==
  /\ dl[d].pc = "lookup" /\ dl[d].which >= NumServices
  /\ dl' = [dl EXCEPT ![d] = [pc |-> IF Want[d].file = NoFile THEN "crashed" ELSE "found",
                              which |-> dl[d].which, file |-> Want[d].file]]
  /\ UNCHANGED <<scenario, mActiveTransfers, mPendingCleanup, cleanupVars, tr, up, servers, asked,
                 events, eventThread, told>>

(* ... else downloadNameLookupSuccess(NULL). *)
NoSuchName(d) ==
  /\ dl[d].pc = "lookup" /\ dl[d].which >= NumServices
  /\ told' = [told EXCEPT ![d] = "FAIL_NAMELOOKUP"]
  /\ dl' = [dl EXCEPT ![d].pc = "release"]
  /\ UNCHANGED <<scenario, mActiveTransfers, mPendingCleanup, cleanupVars, tr, up, servers, asked,
                 events, eventThread>>

(* downloadNameLookupSuccess after cleanup() was called: all under mMutex. *)
ShutDown(d) ==
  /\ dl[d].pc = "found" /\ MutexFree /\ mCleanup
  /\ told' = [told EXCEPT ![d] = "FAIL_SHUTDOWN"]
  /\ dl' = [dl EXCEPT ![d].pc = "done"]
  /\ mPendingCleanup' = mPendingCleanup - 1
  /\ IF mPendingCleanup' = 0 THEN Notify ELSE UNCHANGED <<cleanupPc, missed>>
  /\ UNCHANGED <<scenario, mActiveTransfers, mCleanup, tr, up, servers, asked, events, eventThread>>

Joins(d) ==
  \E t \in mActiveTransfers : t.file = dl[d].file /\ RangeContains(t.range, Want[d].range)

(* Mutant: the listener is subscribed only where a transfer is started. *)
downloadNameLookupSuccessJoins(d) ==
  /\ dl[d].pc = "found" /\ MutexFree /\ ~mCleanup
  /\ asked' = IF Joins(d) THEN asked ELSE asked \cup {<<d, "download">>}
  /\ mActiveTransfers' =
       IF Joins(d) THEN mActiveTransfers
       ELSE mActiveTransfers \cup {[file |-> dl[d].file, range |-> Want[d].range]}
  /\ dl' = [dl EXCEPT ![d].pc = IF Joins(d) THEN "release" ELSE "getData"]
  /\ UNCHANGED <<scenario, mPendingCleanup, cleanupVars, tr, up, servers, events, eventThread, told>>

(* Mutant: the call is no longer counted when it lets the mutex go. *)
downloadNameLookupSuccessUncounted(d) ==
  /\ dl[d].pc = "found" /\ MutexFree /\ ~mCleanup /\ ~Joins(d)
  /\ asked' = asked \cup {<<d, "download">>}
  /\ mActiveTransfers' = mActiveTransfers \cup {[file |-> dl[d].file, range |-> Want[d].range]}
  /\ dl' = [dl EXCEPT ![d].pc = "getData"]
  /\ mPendingCleanup' = mPendingCleanup - 1
  /\ UNCHANGED <<scenario, cleanupVars, tr, up, servers, events, eventThread, told>>

(* downloadNameLookupSuccess: the listener is subscribed; a transfer is      *)
(* started unless one that is running will bring the range, all under mMutex. *)
downloadNameLookupSuccess(d) ==
  /\ dl[d].pc = "found" /\ MutexFree /\ ~mCleanup
  /\ asked' = asked \cup {<<d, "download">>}
  /\ mActiveTransfers' =
       IF Joins(d) THEN mActiveTransfers
       ELSE mActiveTransfers \cup {[file |-> dl[d].file, range |-> Want[d].range]}
  /\ dl' = [dl EXCEPT ![d].pc = IF Joins(d) THEN "release" ELSE "getData"]
  /\ UNCHANGED <<scenario, mPendingCleanup, cleanupVars, tr, up, servers, events, eventThread, told>>

(* getData(), without the lock: the layer may answer before it returns. *)
getData(d) ==
  /\ dl[d].pc = "getData"
  /\ tr' = [tr EXCEPT ![d].st = "running"]
  /\ dl' = [dl EXCEPT ![d].pc = "release"]
  /\ UNCHANGED <<scenario, mActiveTransfers, mPendingCleanup, cleanupVars, up, servers, asked,
                 events, eventThread, told>>

(* The end of downloadNameLookupSuccess, not under mMutex: the count is     *)
(* taken down, then mCleanup is tested.                                     *)
Release(d) ==
  /\ dl[d].pc = "release"
  /\ mPendingCleanup' = mPendingCleanup - 1
  /\ dl' = [dl EXCEPT ![d].pc = IF mPendingCleanup' = 0 THEN "notify" ELSE "done"]
  /\ UNCHANGED <<scenario, mActiveTransfers, cleanupVars, tr, up, servers, asked, events,
                 eventThread, told>>

(* Mutant: the last one does not notify. *)
NotifyCleanupNot(d) ==
  /\ dl[d].pc = "notify"
  /\ dl' = [dl EXCEPT ![d].pc = "done"]
  /\ UNCHANGED <<scenario, mActiveTransfers, mPendingCleanup, cleanupVars, tr, up, servers, asked,
                 events, eventThread, told>>

NotifyCleanup(d) ==
  /\ dl[d].pc = "notify"
  /\ dl' = [dl EXCEPT ![d].pc = "done"]
  /\ IF mCleanup THEN Notify ELSE UNCHANGED <<cleanupPc, missed>>
  /\ UNCHANGED <<scenario, mActiveTransfers, mPendingCleanup, mCleanup, tr, up, servers, asked,
                 events, eventThread, told>>

-----------------------------------------------------------------------------
(* The cache layers, external: the data they bring, all of the file or what *)
(* there is of the range, if a server has the file.                         *)
Smaller(a, b) == IF a < b THEN a ELSE b

Clip(r) ==
  IF r.eof THEN [r EXCEPT !.n = FileLen - r.s]
  ELSE [r EXCEPT !.n = Smaller(EndByte(r), FileLen) - r.s]

Answers(d) ==
  {[ok |-> FALSE, data |-> <<>>]}
    \cup (IF \E s \in Services : dl[d].file \in stored[s]
          THEN {[ok |-> TRUE, data |-> <<q>>] :
                  q \in {Clip(Want[d].range), [s |-> 0, n |-> FileLen, eof |-> TRUE]}}
          ELSE {})

(* downloadFinished: the transfers are erased whose ranges the data covers, *)
(* or on failure the one with the same range, under mMutex.                 *)
Erased(d, ok, data) ==
  {t \in mActiveTransfers :
     t.file = dl[d].file /\ IF ok THEN IsContainedBy(t.range, data) ELSE t.range = Want[d].range}

downloadFinished(d) ==
  /\ tr[d].st = "running" /\ MutexFree
  /\ \E a \in Answers(d) :
       /\ mActiveTransfers' = mActiveTransfers \ Erased(d, a.ok, a.data)
       /\ tr' = [tr EXCEPT ![d] = [st |-> "erased", ok |-> a.ok, data |-> a.data]]
  /\ UNCHANGED <<scenario, mPendingCleanup, cleanupVars, dl, up, servers, asked, events, eventThread,
                 told>>

(* ... then the event is fired; found is TRUE even if there was none. *)
FireDownload(d) ==
  /\ tr[d].st = "erased"
  /\ events' = Append(events, [kind |-> "download", key |-> dl[d].file, ok |-> tr[d].ok,
                               data |-> tr[d].data])
  /\ tr' = [tr EXCEPT ![d] = [st |-> "done", ok |-> FALSE, data |-> <<>>]]
  /\ UNCHANGED <<scenario, mActiveTransfers, mPendingCleanup, cleanupVars, dl, up, servers, asked,
                 eventThread, told>>

-----------------------------------------------------------------------------
(* cleanup() *)

CleanupBegin ==
  /\ Cleanup \in scenario.calls /\ cleanupPc = "no"
  /\ mCleanup' = TRUE
  /\ cleanupPc' = IF mPendingCleanup = 0 THEN "done" ELSE "wait"
  /\ UNCHANGED <<scenario, mActiveTransfers, mPendingCleanup, missed, dl, tr, up, servers, asked,
                 events, eventThread, told>>

CleanupStep ==
  /\ \/ cleanupPc = "wait" /\ cleanupPc' = "asleep"
     \/ cleanupPc = "test" /\ cleanupPc' = IF mPendingCleanup = 0 THEN "done" ELSE "wait"
  /\ UNCHANGED <<scenario, mActiveTransfers, mPendingCleanup, mCleanup, missed, dl, tr, up, servers,
                 asked, events, eventThread, told>>

-----------------------------------------------------------------------------
(* Uploads *)

(* lookupService() of a registry that may be NULL. *)
Begun(kind) == IF kind \in scenario.registered THEN "running" ELSE "crashed"

(* upload() is uploadByHash() with uploadDataFinishedDoName as listener;    *)
(* uploadByHash() subscribes and looks the services up.  Without a registry *)
(* the listener is told so, and the call goes on.                           *)
upload(u) ==
  /\ u \in scenario.calls /\ up[u]["data"].st = "none"
  /\ asked' = asked \cup {<<u, "data">>}
  /\ up' = [up EXCEPT ![u]["data"].st = Begun("data")]
  /\ told' = IF scenario.registered = Chains THEN told
             ELSE [told EXCEPT ![u] = "FAIL_UNIMPLEMENTED"]
  /\ UNCHANGED <<scenario, mActiveTransfers, mPendingCleanup, cleanupVars, dl, tr, servers, events,
                 eventThread>>

(* uploadName(), called by uploadDataFinishedDoName in the event thread.  *)
(* Without a registry the listener has been told so before, by upload().  *)
uploadName(chains) == [chains EXCEPT !["name"].st = Begun("name")]

(* A server stores what it gets; its answer may be lost. *)
Stores(u, s, kind) ==
  IF kind = "data"
  THEN /\ stored' = [stored EXCEPT ![s] = @ \cup {Give[u].file}]
       /\ UNCHANGED bound
  ELSE /\ bound' = [bound EXCEPT ![s][Give[u].name] = Give[u].file]
       /\ UNCHANGED stored

(* Mutant: only the last service counts. *)
NextServiceForgets(chain, ok) ==
  [st |-> chain.st, which |-> chain.which + 1, success |-> ok]

(* doUploadData and doUploadName go on to the next service in any case. *)
NextService(chain, ok) ==
  [st |-> chain.st, which |-> chain.which + 1, success |-> chain.success /\ ok]

UploadAnswered(u, kind, ok) ==
  /\ up[u][kind].st = "running" /\ up[u][kind].which < NumServices
  /\ <<kind, up[u][kind].which>> \in scenario.handled
  /\ up' = [up EXCEPT ![u][kind] = NextService(up[u][kind], ok)]
  /\ \/ Stores(u, up[u][kind].which, kind)
     \/ ~ok /\ UNCHANGED servers
  /\ UNCHANGED <<scenario, mActiveTransfers, mPendingCleanup, cleanupVars, dl, tr, asked, events,
                 eventThread, told>>

(* No handler is registered for the service: they go through a null pointer. *)
NoHandler(u, kind) ==
  /\ up[u][kind].st = "running" /\ up[u][kind].which < NumServices
  /\ <<kind, up[u][kind].which>> \notin scenario.handled
  /\ up' = [up EXCEPT ![u][kind].st = "crashed"]
  /\ UNCHANGED <<scenario, mActiveTransfers, mPendingCleanup, cleanupVars, dl, tr, servers, asked,
                 events, eventThread, told>>

(* After the last service the event is fired, known by the file or the name. *)
FireUpload(u, kind) ==
  /\ up[u][kind].st = "running" /\ up[u][kind].which >= NumServices
  /\ up' = [up EXCEPT ![u][kind].st = "done"]
  /\ events' = Append(events, [kind |-> kind, ok |-> up[u][kind].success, data |-> <<>>,
                               key |-> IF kind = "data" THEN Give[u].file ELSE Give[u].name])
  /\ UNCHANGED <<scenario, mActiveTransfers, mPendingCleanup, cleanupVars, dl, tr, servers, asked,
                 eventThread, told>>

-----------------------------------------------------------------------------
(* The event system, as EventManager has it: events are taken before        *)
(* subscriptions, and these are applied before the events are dispatched.   *)

TakeEvents ==
  /\ evPc = "idle" /\ events # <<>>
  /\ round' = events /\ events' = <<>> /\ evPc' = "requests"
  /\ UNCHANGED <<scenario, mActiveTransfers, mPendingCleanup, cleanupVars, dl, tr, up, servers, asked,
                 listening, told>>

ApplyRequests ==
  /\ evPc = "requests"
  /\ listening' = listening \cup asked /\ asked' = {} /\ evPc' = "dispatch"
  /\ UNCHANGED <<scenario, mActiveTransfers, mPendingCleanup, cleanupVars, dl, tr, up, servers,
                 events, round, told>>

Key(l) == CASE l[2] = "download" -> dl[l[1]].file
            [] l[2] = "data" -> Give[l[1]].file
            [] l[2] = "name" -> Give[l[1]].name

(* The listener of a download waits for an event that has its range (the    *)
(* client, as in DownloadTest); the others are deleted by the first event.  *)
Satisfied(l, e) ==
  l[2] = "download" /\ e.ok => IsContainedBy(Want[l[1]].range, e.data)

DoName(l, e) == l[2] = "data" /\ e.ok

DispatchEvent ==
  /\ evPc = "dispatch" /\ round # <<>>
  /\ LET e == Head(round)
         called == {l \in listening : l[2] = e.kind /\ Key(l) = e.key /\ Satisfied(l, e)}
         named == {l[1] : l \in {k \in called : DoName(k, e)}}
     IN  /\ listening' = listening \ called
         /\ asked' = asked \cup (named \X {"name"})
         /\ up' = [u \in Uploads |-> IF u \in named THEN uploadName(up[u]) ELSE up[u]]
         /\ told' = [x \in DOMAIN told |->
              IF x \in {l[1] : l \in called} \ named
              THEN (IF e.ok THEN "SUCCESS" ELSE "FAIL") ELSE told[x]]
  /\ round' = Tail(round)
  /\ evPc' = IF round' = <<>> THEN "idle" ELSE "dispatch"
  /\ UNCHANGED <<scenario, mActiveTransfers, mPendingCleanup, cleanupVars, dl, tr, servers, events>>

-----------------------------------------------------------------------------
DownloadStep(d) ==
  \/ lookupHash(d) \/ NameFound(d) \/ NameLookupFails(d) \/ hashedDownload(d) \/ NoSuchName(d)
  \/ ShutDown(d) \/ downloadNameLookupSuccess(d) \/ getData(d)
  \/ Release(d) \/ NotifyCleanup(d)

LayerStep(d) == downloadFinished(d) \/ FireDownload(d)

UploadStep(u, kind) ==
  \/ \E ok \in BOOLEAN : UploadAnswered(u, kind, ok)
  \/ NoHandler(u, kind) \/ FireUpload(u, kind)

EventStep == TakeEvents \/ ApplyRequests \/ DispatchEvent

Work ==
  \/ \E d \in Downloads : DownloadStep(d) \/ LayerStep(d)
  \/ \E u \in Uploads, kind \in Chains : UploadStep(u, kind)
  \/ CleanupStep \/ EventStep

Crashed ==
  \/ \E d \in Downloads : dl[d].pc = "crashed"
  \/ \E u \in Uploads, kind \in Chains : up[u][kind].st = "crashed"

Operate ==
  \/ \E d \in Downloads : download(d) \/ downloadByHash(d)
  \/ \E u \in Uploads : upload(u)
  \/ CleanupBegin
  \/ Work

Next == ~Crashed /\ Operate

Spec == Init /\ [][Next]_vars

(* Threads go on with what they have begun; name servers, cache layers and  *)
(* upload handlers answer in the end, if only with a failure; the event     *)
(* thread runs.  No call takes more than a bounded number of steps, so one  *)
(* condition for all of them says as much as one for each.  Nobody has to   *)
(* call cleanup().                                                          *)
FairSpec == Spec /\ WF_vars(~Crashed /\ Work)

-----------------------------------------------------------------------------
(* Properties *)

Listeners == (Downloads \X {"download"}) \cup (Uploads \X Chains)

EventsFired ==
  [kind : {"download"} \cup Chains, key : Files \cup {NoFile} \cup Names, ok : BOOLEAN,
   data : Seq(Spans)]

DownloadStates ==
  [pc : {"none", "counted", "lookup", "found", "getData", "release", "notify", "done", "crashed"},
   which : Nat, file : Files \cup {NoFile}]

TransferStates ==
  [st : {"none", "running", "erased", "done"}, ok : BOOLEAN, data : Seq(Spans)]

ChainStates == [st : {"none", "running", "done", "crashed"}, which : Nat, success : BOOLEAN]

TypeOK ==
  /\ mActiveTransfers \subseteq [file : Files \cup {NoFile}, range : Spans]
  /\ mPendingCleanup \in Nat
  /\ mCleanup \in BOOLEAN
  /\ cleanupPc \in {"no", "wait", "asleep", "test", "done"}
  /\ missed \in BOOLEAN
  /\ dl \in [Downloads -> DownloadStates]
  /\ tr \in [Downloads -> TransferStates]
  /\ up \in [Uploads -> [Chains -> ChainStates]]
  /\ bound \in [Services -> [Names -> Files \cup {NoFile}]]
  /\ stored \in [Services -> SUBSET Files]
  /\ asked \subseteq Listeners /\ listening \subseteq Listeners
  /\ events \in Seq(EventsFired) /\ round \in Seq(EventsFired)
  /\ evPc \in {"idle", "requests", "dispatch"}
  /\ told \in [Downloads \cup Uploads ->
       {"none", "FAIL_NAMELOOKUP", "FAIL_SHUTDOWN", "FAIL_UNIMPLEMENTED", "SUCCESS", "FAIL"}]

(* A name server knows a name for a file that upload() brings only when     *)
(* every data server has the file, also when two uploads of one file hear   *)
(* each other's events (doUploadData, uploadDataFinishedDoName).            *)
NameAfterData ==
  \A s, t \in Services, n \in Names :
    bound[s][n] \notin Known.files \cup {NoFile} => bound[s][n] \in stored[t]

(* As long as a call has still to use the name look-up or the cache layer,  *)
(* cleanup() does not return, after which its caller deletes them: that the *)
(* call is counted (mPendingCleanup) is enough, whatever the FIXME in       *)
(* downloadNameLookupSuccess fears.                                         *)
LayersAlive ==
  cleanupPc = "done" =>
    \A d \in Downloads : dl[d].pc \notin {"counted", "lookup", "found", "getData"}

(* "If you did not get what you want, you are guaranteed to either get      *)
(* another event call, or else an event with success() equal to false":     *)
(* every download ends with its range or a failure, however it is joined    *)
(* with others, when the ranges lie within the file (downloadFinished,      *)
(* downloadNameLookupSuccess), and the program does not crash.  A listener  *)
(* once told stays so, and there are finitely many.                         *)
DownloadsAnswered ==
  []<>(Crashed \/ \A d \in Downloads : dl[d].pc # "none" => told[d] # "none")

(* cleanup() returns, unless the last notification comes between its test   *)
(* and its wait, or the program crashes.                                    *)
CleanupReturnsUnlessMissed == []<>(cleanupPc \in {"no", "done"} \/ missed \/ Crashed)

(* "Wait for any downloadNameLookupSuccess callbacks to return": cleanup()  *)
(* comes back.                                                              *)
CleanupReturns == []<>(cleanupPc \in {"no", "done"} \/ Crashed)
=============================================================================
