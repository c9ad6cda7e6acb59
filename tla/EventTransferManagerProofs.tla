--------------------- MODULE EventTransferManagerProofs ---------------------
(***************************************************************************)
(* Proofs about EventTransferManager, for any number of downloads and      *)
(* uploads, servers, names and files.                                      *)
(*                                                                         *)
(* cleanup() is safe because mPendingCleanup counts exactly the calls that *)
(* have not come to the end of downloadNameLookupSuccess, so that zero,    *)
(* once cleanup() has begun, is final.  A name follows the data because    *)
(* the success an event carries stands for all servers, not for the upload *)
(* that fired it: another upload of the same file may go on from it.       *)
(***************************************************************************)
EXTENDS EventTransferManager, FiniteSetTheorems, SequenceTheorems, TLAPS

(* The calls that mPendingCleanup counts. *)
PendingLabels == {"counted", "lookup", "found", "getData", "release", "crashed"}

Pending == {d \in Downloads : dl[d].pc \in PendingLabels}

CountInv ==
  /\ IsFiniteSet(Pending)
  /\ mPendingCleanup = Cardinality(Pending)
  /\ cleanupPc # "no" => mCleanup
  /\ cleanupPc = "done" => Pending = {}

(* Every data server has the file. *)
Everywhere(f) == \A s \in Services : f \in stored[s]

(* What an event says is true. *)
Truthful(e) == e.kind = "data" /\ e.ok => Everywhere(e.key)

NamesInv ==
  /\ \A u \in Uploads, s \in Services :
       up[u]["data"].success /\ s < up[u]["data"].which => Give[u].file \in stored[s]
  /\ \A i \in DOMAIN events : Truthful(events[i])
  /\ \A i \in DOMAIN round : Truthful(round[i])
  /\ \A u \in Uploads : up[u]["name"].st # "none" => Everywhere(Give[u].file)
  /\ \A s \in Services, n \in Names :
       bound[s][n] \notin Known.files \cup {NoFile} => Everywhere(bound[s][n])

(* Only a download by name looks a name up. *)
LookupInv == \A d \in Downloads : dl[d].pc \in {"counted", "lookup"} => Want[d].name # NoName

IInv == TypeOK /\ CountInv /\ NamesInv /\ LookupInv

-----------------------------------------------------------------------------
(* Counting *)

LEMMA FewerPending ==
  ASSUME CountInv, NEW d \in Pending
  PROVE  /\ IsFiniteSet(Pending \ {d}) /\ mPendingCleanup \in Nat
         /\ Cardinality(Pending \ {d}) = mPendingCleanup - 1
         /\ mPendingCleanup - 1 \in Nat
         /\ mPendingCleanup - 1 = 0 <=> Pending \ {d} = {}
<1>1. IsFiniteSet(Pending) /\ mPendingCleanup = Cardinality(Pending)  BY DEF CountInv
<1>2. /\ IsFiniteSet(Pending \ {d}) /\ Cardinality(Pending) \in Nat
      /\ Cardinality(Pending \ {d}) = Cardinality(Pending) - 1
  BY <1>1, FS_RemoveElement, FS_CardinalityType
<1>3. Cardinality(Pending \ {d}) \in Nat  BY <1>2, FS_CardinalityType
<1>4. Cardinality(Pending \ {d}) = 0 <=> Pending \ {d} = {}  BY <1>2, FS_EmptySet
<1> QED  BY <1>1, <1>2, <1>3, <1>4

LEMMA MorePending ==
  ASSUME CountInv, NEW d, d \notin Pending
  PROVE  /\ IsFiniteSet(Pending \cup {d}) /\ mPendingCleanup \in Nat
         /\ Cardinality(Pending \cup {d}) = mPendingCleanup + 1
<1>1. IsFiniteSet(Pending) /\ mPendingCleanup = Cardinality(Pending)  BY DEF CountInv
<1> QED  BY <1>1, FS_AddElement, FS_CardinalityType

LEMMA NonePending ==
  ASSUME CountInv PROVE mPendingCleanup \in Nat /\ (mPendingCleanup = 0 <=> Pending = {})
<1>1. IsFiniteSet(Pending) /\ mPendingCleanup = Cardinality(Pending)  BY DEF CountInv
<1> QED  BY <1>1, FS_EmptySet, FS_CardinalityType

-----------------------------------------------------------------------------
(* Steps of a call of download() *)

LEMMA DlChanges ==
  ASSUME TypeOK, NEW d \in Downloads, NEW c, dl' = [dl EXCEPT ![d] = c]
  PROVE  /\ dl'[d] = c /\ \A x \in Downloads : x # d => dl'[x] = dl[x]
         /\ c.pc \in PendingLabels => Pending' = Pending \cup {d}
         /\ c.pc \notin PendingLabels => Pending' = Pending \ {d}
<1>1. dl'[d] = c /\ \A x \in Downloads : x # d => dl'[x] = dl[x]
  BY DEF TypeOK
<1>2. Pending' = {x \in Downloads : dl'[x].pc \in PendingLabels}  BY DEF Pending
<1>3. ASSUME c.pc \in PendingLabels PROVE Pending' = Pending \cup {d}
  BY <1>1, <1>2, <1>3 DEF Pending
<1>4. ASSUME c.pc \notin PendingLabels PROVE Pending' = Pending \ {d}
  BY <1>1, <1>2, <1>4 DEF Pending
<1> QED  BY <1>1, <1>3, <1>4

LEMMA NamesKept ==
  ASSUME NamesInv, UNCHANGED <<up, bound, stored, events, round>>
  PROVE  NamesInv'
BY DEF NamesInv, Truthful, Everywhere

LEMMA Wanted ==
  ASSUME NEW d \in Downloads
  PROVE  Want[d].file \in Files \cup {NoFile} /\ Want[d].range \in Spans
         /\ Want[d].name \in Names \cup {NoName}
<1>1. Want[d] \in [name : Names \cup {NoName}, file : Files \cup {NoFile}, range : Spans]
  BY TransferAssumption
<1> QED  BY <1>1

(***************************************************************************)
(* Changing the label of a download.                                       *)
(***************************************************************************)
LEMMA Relabelled ==
  ASSUME NEW c \in DownloadStates,
         NEW l \in {"none", "counted", "lookup", "found", "getData", "release", "notify", "done",
                    "crashed"}
  PROVE  [c EXCEPT !.pc = l] \in DownloadStates /\ [c EXCEPT !.pc = l].pc = l
BY DEF DownloadStates

LEMMA downloadStep ==
  ASSUME IInv, NEW d \in Downloads, download(d) \/ downloadByHash(d)
  PROVE  IInv'
<1> USE DEF IInv
<1>1. PICK c \in DownloadStates :
        /\ dl' = [dl EXCEPT ![d] = c] /\ c.pc \in {"counted", "found"}
        /\ c.pc = "counted" => Want[d].name # NoName
  <2>1. dl[d] \in DownloadStates  BY DEF TypeOK
  <2>2. CASE download(d)
    <3>1. dl' = [dl EXCEPT ![d] = [dl[d] EXCEPT !.pc = "counted"]]
      BY <2>2 DEF download
    <3> QED  BY <2>1, <2>2, <3>1, Relabelled DEF download
  <2>3. CASE downloadByHash(d)
    <3>1. dl' = [dl EXCEPT ![d] = [pc |-> "found", which |-> 0, file |-> Want[d].file]]
      BY <2>3 DEF downloadByHash
    <3>2. [pc |-> "found", which |-> 0, file |-> Want[d].file] \in DownloadStates
      BY Wanted DEF DownloadStates
    <3> QED  BY <3>1, <3>2
  <2> QED  BY <2>2, <2>3
<1>2. /\ mPendingCleanup' = mPendingCleanup + 1
      /\ dl[d].pc = "none" /\ cleanupPc # "done"
      /\ UNCHANGED <<mActiveTransfers, cleanupVars, tr, up, servers, asked, events,
                     eventThread, told>>
  BY DEF download, downloadByHash, CountInv, cleanupVars
<1>3. Pending' = Pending \cup {d} /\ d \notin Pending
  BY <1>1, <1>2, DlChanges DEF Pending, PendingLabels
<1>4. TypeOK'
  BY <1>1, <1>2, MorePending, <1>3 DEF TypeOK, cleanupVars, servers, eventThread
<1>5. CountInv'
  BY <1>2, <1>3, MorePending DEF CountInv, cleanupVars
<1>6. NamesInv'
  BY <1>2, NamesKept DEF servers, eventThread
<1>7. LookupInv'  BY <1>1, DlChanges DEF LookupInv
<1> QED  BY <1>4, <1>5, <1>6, <1>7

(***************************************************************************)
(* A call that is counted and stays so, and one that is no longer counted. *)
(***************************************************************************)
LEMMA StaysPending ==
  ASSUME IInv, NEW d \in Downloads, NEW c \in DownloadStates,
         dl' = [dl EXCEPT ![d] = c],
         dl[d].pc \in PendingLabels, c.pc \in PendingLabels,
         c.pc \in {"counted", "lookup"} => dl[d].pc \in {"counted", "lookup"},
         UNCHANGED <<mPendingCleanup, mCleanup, cleanupPc>>
  PROVE  CountInv' /\ LookupInv' /\ dl' \in [Downloads -> DownloadStates]
<1>1. Pending' = Pending
  BY DlChanges DEF Pending, IInv
<1>2. LookupInv'  BY DlChanges DEF IInv, LookupInv
<1> QED  BY <1>1, <1>2 DEF IInv, CountInv, TypeOK

LEMMA LeavesPending ==
  ASSUME IInv, NEW d \in Downloads, NEW c \in DownloadStates,
         dl' = [dl EXCEPT ![d] = c],
         dl[d].pc \in PendingLabels, c.pc \in {"notify", "done"},
         mPendingCleanup' = mPendingCleanup - 1,
         UNCHANGED mCleanup,
         cleanupPc' = cleanupPc \/ (cleanupPc' = "test" /\ cleanupPc = "asleep")
  PROVE  CountInv' /\ LookupInv' /\ dl' \in [Downloads -> DownloadStates]
         /\ mPendingCleanup' \in Nat
<1>1. Pending' = Pending \ {d} /\ d \in Pending
  BY DlChanges DEF Pending, IInv, PendingLabels
<1>2. LookupInv'  BY DlChanges DEF IInv, LookupInv
<1>3. CountInv' /\ mPendingCleanup' \in Nat
  BY <1>1, FewerPending DEF IInv, CountInv
<1> QED  BY <1>2, <1>3 DEF IInv, TypeOK

LEMMA NameSteps ==
  ASSUME IInv, NEW d \in Downloads,
         \/ lookupHash(d) \/ NameFound(d) \/ NameLookupFails(d) \/ hashedDownload(d)
         \/ NoSuchName(d) \/ getData(d)
  PROVE  IInv'
<1> USE DEF IInv
<1>1. dl[d] \in DownloadStates /\ dl[d].which \in Nat /\ dl[d].file \in Files \cup {NoFile}
  <2>1. dl[d] \in DownloadStates  BY DEF TypeOK
  <2> QED  BY <2>1 DEF DownloadStates
<1>2. PICK c \in DownloadStates :
        /\ dl' = [dl EXCEPT ![d] = c]
        /\ dl[d].pc \in PendingLabels /\ c.pc \in PendingLabels
        /\ c.pc \in {"counted", "lookup"} => dl[d].pc \in {"counted", "lookup"}
  <2>1. CASE NameFound(d)
    <3>1. PICK f : f = bound[dl[d].which][Want[d].name]  OBVIOUS
    <3>2. f \in Files \cup {NoFile}
      <4>1. dl[d].which \in Services
        BY <1>1, <2>1, TransferAssumption DEF NameFound, Services
      <4>2. bound[dl[d].which] \in [Names -> Files \cup {NoFile}]  BY <4>1 DEF TypeOK
      <4>3. Want[d].name \in Names  BY <2>1, Wanted DEF NameFound, LookupInv
      <4> QED  BY <4>2, <4>3, <3>1
    <3>3. [pc |-> "found", which |-> dl[d].which, file |-> f] \in DownloadStates
      BY <1>1, <3>2 DEF DownloadStates
    <3>4. dl' = [dl EXCEPT ![d] = [pc |-> "found", which |-> dl[d].which, file |-> f]]
          /\ dl[d].pc = "lookup"
      BY <2>1, <3>1 DEF NameFound
    <3> QED  BY <3>3, <3>4 DEF PendingLabels
  <2>2. CASE NameLookupFails(d)
    <3>1. dl' = [dl EXCEPT ![d] = [dl[d] EXCEPT !.which = dl[d].which + 1]]
          /\ dl[d].pc = "lookup"
      BY <2>2 DEF NameLookupFails
    <3>2. [dl[d] EXCEPT !.which = dl[d].which + 1] \in DownloadStates
          /\ [dl[d] EXCEPT !.which = dl[d].which + 1].pc = dl[d].pc
      BY <1>1 DEF DownloadStates
    <3> QED  BY <3>1, <3>2 DEF PendingLabels
  <2>3. CASE NoSuchName(d) \/ getData(d)
    <3>1. dl' = [dl EXCEPT ![d] = [dl[d] EXCEPT !.pc = "release"]]
          /\ dl[d].pc \in {"lookup", "getData"}
      BY <2>3 DEF NoSuchName, getData
    <3> QED  BY <1>1, <3>1, Relabelled DEF PendingLabels
  <2>4. CASE lookupHash(d)
    <3>1. PICK l \in {"lookup", "crashed"} :
            dl' = [dl EXCEPT ![d] = [dl[d] EXCEPT !.pc = l]] /\ dl[d].pc = "counted"
      BY <2>4 DEF lookupHash
    <3> QED  BY <1>1, <3>1, Relabelled DEF PendingLabels
  <2>5. CASE hashedDownload(d)
    <3>1. PICK l \in {"found", "crashed"} :
            /\ dl' = [dl EXCEPT ![d] = [pc |-> l, which |-> dl[d].which, file |-> Want[d].file]]
            /\ dl[d].pc = "lookup"
      BY <2>5 DEF hashedDownload
    <3>2. [pc |-> l, which |-> dl[d].which, file |-> Want[d].file] \in DownloadStates
      BY <1>1, Wanted DEF DownloadStates
    <3> QED  BY <3>1, <3>2 DEF PendingLabels
  <2> QED  BY <2>1, <2>2, <2>3, <2>4, <2>5
<1>3. UNCHANGED <<mActiveTransfers, mPendingCleanup, cleanupVars, up, servers, asked,
                  events, eventThread>>
  BY DEF lookupHash, NameFound, NameLookupFails, hashedDownload, NoSuchName, getData
<1>4. CountInv' /\ LookupInv' /\ dl' \in [Downloads -> DownloadStates]
  BY <1>2, <1>3, StaysPending DEF cleanupVars
<1>5. told' \in [Downloads \cup Uploads ->
                  {"none", "FAIL_NAMELOOKUP", "FAIL_SHUTDOWN", "FAIL_UNIMPLEMENTED", "SUCCESS", "FAIL"}]
  BY DEF lookupHash, NameFound, NameLookupFails, hashedDownload, NoSuchName, getData, TypeOK
<1>6. tr' \in [Downloads -> TransferStates]
  <2>1. tr[d] \in TransferStates  BY DEF TypeOK
  <2>2. [tr[d] EXCEPT !.st = "running"] \in TransferStates  BY <2>1 DEF TransferStates
  <2>3. tr' = tr \/ tr' = [tr EXCEPT ![d] = [tr[d] EXCEPT !.st = "running"]]
    BY DEF lookupHash, NameFound, NameLookupFails, hashedDownload, NoSuchName, getData
  <2> QED  BY <2>2, <2>3 DEF TypeOK
<1>7. TypeOK'
  BY <1>3, <1>4, <1>5, <1>6 DEF TypeOK, cleanupVars, servers, eventThread
<1>8. NamesInv'  BY <1>3, NamesKept DEF servers, eventThread
<1> QED  BY <1>4, <1>7, <1>8

LEMMA SuccessStep ==
  ASSUME IInv, NEW d \in Downloads, downloadNameLookupSuccess(d)
  PROVE  IInv'
<1> USE DEF IInv
<1>1. dl[d] \in DownloadStates /\ dl[d].file \in Files \cup {NoFile}
  <2>1. dl[d] \in DownloadStates  BY DEF TypeOK
  <2> QED  BY <2>1 DEF DownloadStates
<1>2. PICK l \in {"release", "getData"} :
        dl' = [dl EXCEPT ![d] = [dl[d] EXCEPT !.pc = l]] /\ dl[d].pc = "found"
  BY DEF downloadNameLookupSuccess
<1>3. PICK c \in DownloadStates :
        /\ dl' = [dl EXCEPT ![d] = c]
        /\ dl[d].pc \in PendingLabels /\ c.pc \in PendingLabels /\ c.pc \notin {"counted", "lookup"}
  BY <1>1, <1>2, Relabelled DEF PendingLabels
<1>4. UNCHANGED <<mPendingCleanup, cleanupVars, tr, up, servers, events, eventThread, told>>
  BY DEF downloadNameLookupSuccess
<1>5. CountInv' /\ LookupInv' /\ dl' \in [Downloads -> DownloadStates]
  BY <1>3, <1>4, StaysPending DEF cleanupVars
<1>6. mActiveTransfers' \subseteq [file : Files \cup {NoFile}, range : Spans]
  <2>1. [file |-> dl[d].file, range |-> Want[d].range]
          \in [file : Files \cup {NoFile}, range : Spans]
    BY <1>1, Wanted
  <2> QED  BY <2>1 DEF downloadNameLookupSuccess, TypeOK
<1>7. asked' \subseteq Listeners
  BY DEF downloadNameLookupSuccess, TypeOK, Listeners
<1>8. TypeOK'
  BY <1>4, <1>5, <1>6, <1>7 DEF TypeOK, cleanupVars, servers, eventThread
<1>9. NamesInv'  BY <1>4, NamesKept DEF servers, eventThread
<1> QED  BY <1>5, <1>8, <1>9

LEMMA Notified ==
  ASSUME TypeOK, Notify \/ UNCHANGED <<cleanupPc, missed>>
  PROVE  /\ cleanupPc' = cleanupPc \/ (cleanupPc' = "test" /\ cleanupPc = "asleep")
         /\ missed' \in BOOLEAN
<1>1. cleanupPc' = cleanupPc \/ (cleanupPc' = "test" /\ cleanupPc = "asleep")
  <2>1. CASE Notify  BY <2>1 DEF Notify
  <2>2. CASE UNCHANGED <<cleanupPc, missed>>  BY <2>2
  <2> QED  BY <2>1, <2>2
<1>2. missed' \in BOOLEAN
  <2>1. CASE Notify
    <3>1. missed' = (missed \/ cleanupPc = "wait")  BY <2>1, Zenon DEF Notify
    <3> QED  BY <3>1, Zenon
  <2>2. CASE UNCHANGED <<cleanupPc, missed>>  BY <2>2 DEF TypeOK
  <2> QED  BY <2>1, <2>2
<1> QED  BY <1>1, <1>2

LEMMA EndSteps ==
  ASSUME IInv, NEW d \in Downloads, ShutDown(d) \/ Release(d)
  PROVE  IInv'
<1> USE DEF IInv
<1>1. dl[d] \in DownloadStates  BY DEF TypeOK
<1>2. PICK l \in {"notify", "done"} :
        /\ dl' = [dl EXCEPT ![d] = [dl[d] EXCEPT !.pc = l]]
        /\ dl[d].pc \in {"found", "release"}
  BY DEF ShutDown, Release
<1>3. PICK c \in DownloadStates :
        /\ dl' = [dl EXCEPT ![d] = c]
        /\ dl[d].pc \in PendingLabels /\ c.pc \in {"notify", "done"}
  BY <1>1, <1>2, Relabelled DEF PendingLabels
<1>4. /\ mPendingCleanup' = mPendingCleanup - 1
      /\ UNCHANGED <<mActiveTransfers, mCleanup, tr, up, servers, asked, events, eventThread>>
  BY DEF ShutDown, Release, cleanupVars
<1>5. /\ cleanupPc' = cleanupPc \/ (cleanupPc' = "test" /\ cleanupPc = "asleep")
      /\ missed' \in BOOLEAN
  <2>1. Notify \/ UNCHANGED <<cleanupPc, missed>>
    BY DEF ShutDown, Release, cleanupVars
  <2> QED  BY <2>1, Notified
<1>6. CountInv' /\ LookupInv' /\ dl' \in [Downloads -> DownloadStates]
      /\ mPendingCleanup' \in Nat
  BY <1>3, <1>4, <1>5, LeavesPending
<1>7. told' \in [Downloads \cup Uploads ->
                  {"none", "FAIL_NAMELOOKUP", "FAIL_SHUTDOWN", "FAIL_UNIMPLEMENTED", "SUCCESS", "FAIL"}]
  BY DEF ShutDown, Release, TypeOK
<1>8. TypeOK'
  BY <1>4, <1>5, <1>6, <1>7 DEF TypeOK, servers, eventThread
<1>9. NamesInv'  BY <1>4, NamesKept DEF servers, eventThread
<1> QED  BY <1>6, <1>8, <1>9

LEMMA NotifyCleanupStep ==
  ASSUME IInv, NEW d \in Downloads, NotifyCleanup(d)
  PROVE  IInv'
<1> USE DEF IInv
<1>1. dl[d] \in DownloadStates  BY DEF TypeOK
<1>2. PICK c \in DownloadStates :
        dl' = [dl EXCEPT ![d] = c] /\ c.pc = "done" /\ dl[d].pc = "notify"
  <2>1. dl' = [dl EXCEPT ![d] = [dl[d] EXCEPT !.pc = "done"]] /\ dl[d].pc = "notify"
    BY DEF NotifyCleanup
  <2> QED  BY <1>1, <2>1, Relabelled
<1>3. UNCHANGED <<mActiveTransfers, mPendingCleanup, mCleanup, tr, up, servers, asked,
                  events, eventThread, told>>
  BY DEF NotifyCleanup
<1>4. /\ cleanupPc' = cleanupPc \/ (cleanupPc' = "test" /\ cleanupPc = "asleep")
      /\ missed' \in BOOLEAN
  <2>1. Notify \/ UNCHANGED <<cleanupPc, missed>>  BY DEF NotifyCleanup
  <2> QED  BY <2>1, Notified
<1>5. Pending' = Pending
  BY <1>2, DlChanges DEF Pending, PendingLabels
<1>6. CountInv'  BY <1>3, <1>4, <1>5 DEF CountInv
<1>7. LookupInv'  BY <1>2, DlChanges DEF LookupInv
<1>8. TypeOK'
  BY <1>2, <1>3, <1>4 DEF TypeOK, servers, eventThread
<1>9. NamesInv'  BY <1>3, NamesKept DEF servers, eventThread
<1> QED  BY <1>6, <1>7, <1>8, <1>9

LEMMA CleanupSteps ==
  ASSUME IInv, CleanupBegin \/ CleanupStep
  PROVE  IInv'
<1> USE DEF IInv
<1>1. UNCHANGED <<mActiveTransfers, mPendingCleanup, missed, dl, tr, up, servers, asked,
                  events, eventThread, told>>
  BY DEF CleanupBegin, CleanupStep
<1>2. /\ cleanupPc' \in {"wait", "asleep", "done"}
      /\ cleanupPc' = "done" => mPendingCleanup = 0
      /\ mCleanup' \in BOOLEAN /\ mCleanup'
  BY DEF CleanupBegin, CleanupStep, TypeOK, CountInv
<1>3. Pending' = Pending  BY <1>1 DEF Pending
<1>4. CountInv'  BY <1>1, <1>2, <1>3, NonePending DEF CountInv
<1>5. LookupInv'  BY <1>1 DEF LookupInv
<1>6. TypeOK'
  BY <1>1, <1>2 DEF TypeOK, servers, eventThread
<1>7. NamesInv'  BY <1>1, NamesKept DEF servers, eventThread
<1> QED  BY <1>4, <1>5, <1>6, <1>7

-----------------------------------------------------------------------------
(* Transfers, uploads and events *)

LEMMA CountKept ==
  ASSUME CountInv, LookupInv, UNCHANGED <<dl, mPendingCleanup, cleanupVars>>
  PROVE  CountInv' /\ LookupInv'
BY DEF CountInv, LookupInv, Pending, cleanupVars

LEMMA AppendTruthful ==
  ASSUME TypeOK, NamesInv, NEW e \in EventsFired, Truthful(e),
         events' = Append(events, e), UNCHANGED stored
  PROVE  events' \in Seq(EventsFired) /\ (\A i \in DOMAIN events : Truthful(events[i]))'
<1>1. events \in Seq(EventsFired)  BY DEF TypeOK
<1>2. /\ events' \in Seq(EventsFired) /\ Len(events') = Len(events) + 1
      /\ \A i \in 1..Len(events) : events'[i] = events[i]
      /\ events'[Len(events) + 1] = e
  BY <1>1, AppendProperties
<1>4. ASSUME NEW i \in DOMAIN events' PROVE Truthful(events'[i])
  <2>1. DOMAIN events = 1..Len(events) /\ Len(events) \in Nat
        /\ i \in 1..Len(events) + 1
    BY <1>1, <1>2, <1>4
  <2>2. CASE i \in 1..Len(events)  BY <1>2, <2>1, <2>2 DEF NamesInv
  <2>3. CASE i = Len(events) + 1  BY <1>2, <2>3
  <2> QED  BY <2>1, <2>2, <2>3
<1> QED  BY <1>2, <1>4 DEF Truthful, Everywhere

LEMMA TransferSteps ==
  ASSUME IInv, NEW d \in Downloads, LayerStep(d)
  PROVE  IInv'
<1> USE DEF IInv
<1>1. UNCHANGED <<mPendingCleanup, cleanupVars, dl, up, servers, asked, eventThread, told>>
  BY DEF LayerStep, downloadFinished, FireDownload
<1>2. CountInv' /\ LookupInv'  BY <1>1, CountKept
<1>3. dl[d].file \in Files \cup {NoFile}
  <2>1. dl[d] \in DownloadStates  BY DEF TypeOK
  <2> QED  BY <2>1 DEF DownloadStates
<1>4. tr[d] \in TransferStates /\ tr[d].ok \in BOOLEAN /\ tr[d].data \in Seq(Spans)
  <2>1. tr[d] \in TransferStates  BY DEF TypeOK
  <2> QED  BY <2>1 DEF TransferStates
<1>5. CASE downloadFinished(d)
  <2>1. PICK a \in Answers(d) :
          /\ mActiveTransfers' = mActiveTransfers \ Erased(d, a.ok, a.data)
          /\ tr' = [tr EXCEPT ![d] = [st |-> "erased", ok |-> a.ok, data |-> a.data]]
    BY <1>5 DEF downloadFinished
  <2>2. a.ok \in BOOLEAN /\ a.data \in Seq(Spans)
    <3>1. <<>> \in Seq(Spans)  OBVIOUS
    <3>2. CASE a = [ok |-> FALSE, data |-> <<>>]  BY <3>1, <3>2
    <3>3. CASE a # [ok |-> FALSE, data |-> <<>>]
      <4>1. PICK q \in {Clip(Want[d].range), [s |-> 0, n |-> FileLen, eof |-> TRUE]} :
              a = [ok |-> TRUE, data |-> <<q>>]
        BY <3>3 DEF Answers
      <4>2. Clip(Want[d].range) \in Spans
        <5>1. PICK r \in Spans : r = Want[d].range  BY Wanted
        <5>2. r.s \in Int /\ r.n \in Int /\ r.eof \in BOOLEAN  BY DEF Spans
        <5>3. FileLen - r.s \in Int /\ Smaller(EndByte(r), FileLen) - r.s \in Int
          BY <5>2, TransferAssumption DEF Smaller, EndByte
        <5>4. \A k \in Int : [r EXCEPT !.n = k] \in Spans  BY DEF Spans
        <5> QED  BY <5>1, <5>3, <5>4 DEF Clip
      <4>3. [s |-> 0, n |-> FileLen, eof |-> TRUE] \in Spans
        BY TransferAssumption DEF Spans
      <4>4. q \in Spans  BY <4>2, <4>3
      <4>5. <<q>> \in Seq(Spans)  BY <4>4
      <4> QED  BY <4>1, <4>5
    <3> QED  BY <3>2, <3>3
  <2>3. [st |-> "erased", ok |-> a.ok, data |-> a.data] \in TransferStates
    BY <2>2 DEF TransferStates
  <2>4. tr' \in [Downloads -> TransferStates]  BY <2>1, <2>3 DEF TypeOK
  <2>5. events' = events  BY <1>5 DEF downloadFinished
  <2>6. mActiveTransfers' \subseteq [file : Files \cup {NoFile}, range : Spans]
    BY <2>1 DEF TypeOK
  <2>7. TypeOK'
    BY <1>1, <2>4, <2>5, <2>6 DEF TypeOK, cleanupVars, servers, eventThread
  <2>8. NamesInv'  BY <1>1, <2>5, NamesKept DEF servers, eventThread
  <2> QED  BY <1>2, <2>7, <2>8
<1>6. CASE FireDownload(d)
  <2>1. PICK e : /\ e = [kind |-> "download", key |-> dl[d].file, ok |-> tr[d].ok,
                         data |-> tr[d].data]
                 /\ events' = Append(events, e)
    BY <1>6 DEF FireDownload
  <2>2. e \in EventsFired /\ Truthful(e)
    BY <1>3, <1>4, <2>1 DEF EventsFired, Truthful
  <2>3. UNCHANGED stored  BY <1>1 DEF servers
  <2>4. events' \in Seq(EventsFired) /\ (\A i \in DOMAIN events : Truthful(events[i]))'
    BY <2>1, <2>2, <2>3, AppendTruthful
  <2>5. tr' \in [Downloads -> TransferStates]
    <3>1. <<>> \in Seq(Spans)  OBVIOUS
    <3>2. [st |-> "done", ok |-> FALSE, data |-> <<>>] \in TransferStates
      BY <3>1 DEF TransferStates
    <3> QED  BY <3>2, <1>6 DEF FireDownload, TypeOK
  <2>6. TypeOK'
    BY <1>1, <1>6, <2>4, <2>5 DEF TypeOK, FireDownload, cleanupVars, servers, eventThread
  <2>7. NamesInv'
    BY <1>1, <2>4 DEF NamesInv, Everywhere, Truthful, servers, eventThread
  <2> QED  BY <1>2, <2>6, <2>7
<1> QED  BY <1>5, <1>6 DEF LayerStep

LEMMA ChainChanges ==
  ASSUME TypeOK, NEW u \in Uploads, NEW kind \in Chains, NEW c \in ChainStates,
         up' = [up EXCEPT ![u][kind] = c]
  PROVE  /\ up' \in [Uploads -> [Chains -> ChainStates]]
         /\ up'[u][kind] = c
         /\ \A v \in Uploads, k \in Chains : v # u \/ k # kind => up'[v][k] = up[v][k]
<1>1. up[u] \in [Chains -> ChainStates]  BY DEF TypeOK
<1>2. up' = [up EXCEPT ![u] = [up[u] EXCEPT ![kind] = c]]  OBVIOUS
<1>3. PICK m : m = [up[u] EXCEPT ![kind] = c]  OBVIOUS
<1>4. m \in [Chains -> ChainStates] /\ m[kind] = c
      /\ \A k \in Chains : k # kind => m[k] = up[u][k]
  BY <1>1, <1>3
<1>5. up' = [up EXCEPT ![u] = m]  BY <1>2, <1>3
<1> QED  BY <1>4, <1>5 DEF TypeOK

LEMMA ChainIs ==
  ASSUME TypeOK, NEW u \in Uploads, NEW kind \in Chains
  PROVE  /\ up[u][kind] \in ChainStates /\ up[u][kind].which \in Nat
         /\ up[u][kind].success \in BOOLEAN
         /\ up[u][kind].st \in {"none", "running", "done", "crashed"}
<1>1. up[u] \in [Chains -> ChainStates]  BY DEF TypeOK
<1>2. up[u][kind] \in ChainStates  BY <1>1
<1> QED  BY <1>2 DEF ChainStates

LEMMA Given ==
  ASSUME NEW u \in Uploads PROVE Give[u].file \in Files /\ Give[u].name \in Names
<1>1. Give[u] \in [name : Names, file : Files]  BY TransferAssumption
<1> QED  BY <1>1

LEMMA uploadStep ==
  ASSUME IInv, NEW u \in Uploads, upload(u)
  PROVE  IInv'
<1> USE DEF IInv
<1>1. "data" \in Chains /\ "name" \in Chains  BY DEF Chains
<1>2. UNCHANGED <<mActiveTransfers, mPendingCleanup, cleanupVars, dl, tr, servers, events,
                  eventThread>>
  BY DEF upload
<1>3. PICK c \in ChainStates :
        /\ up' = [up EXCEPT ![u]["data"] = c]
        /\ c.which = up[u]["data"].which /\ c.success = up[u]["data"].success
  <2>1. PICK l \in {"running", "crashed"} :
          up' = [up EXCEPT ![u]["data"] = [up[u]["data"] EXCEPT !.st = l]]
    BY DEF upload, Begun
  <2>2. PICK x \in ChainStates : x = up[u]["data"]  BY <1>1, ChainIs
  <2>3. /\ [x EXCEPT !.st = l] \in ChainStates
        /\ [x EXCEPT !.st = l].which = x.which
        /\ [x EXCEPT !.st = l].success = x.success
    BY DEF ChainStates
  <2> QED  BY <2>1, <2>2, <2>3
<1>4. /\ up' \in [Uploads -> [Chains -> ChainStates]]
      /\ up'[u]["data"] = c
      /\ \A v \in Uploads, k \in Chains : v # u \/ k # "data" => up'[v][k] = up[v][k]
  BY <1>1, <1>3, ChainChanges
<1>5. asked' \subseteq Listeners
  BY <1>1 DEF upload, Listeners, TypeOK
<1>9. told' \in [Downloads \cup Uploads ->
                  {"none", "FAIL_NAMELOOKUP", "FAIL_SHUTDOWN", "FAIL_UNIMPLEMENTED", "SUCCESS", "FAIL"}]
  BY DEF upload, TypeOK
<1>6. TypeOK'
  BY <1>2, <1>4, <1>5, <1>9 DEF TypeOK, cleanupVars, servers, eventThread
<1>7. CountInv' /\ LookupInv'  BY <1>2, CountKept
<1>8. NamesInv'
  <2>1. \A v \in Uploads : up'[v]["data"].which = up[v]["data"].which
                           /\ up'[v]["data"].success = up[v]["data"].success
                           /\ up'[v]["name"] = up[v]["name"]
    BY <1>1, <1>3, <1>4
  <2> QED  BY <2>1, <1>2 DEF NamesInv, Everywhere, Truthful, servers, eventThread
<1> QED  BY <1>6, <1>7, <1>8

(* A service without a handler ends the program. *)
LEMMA NoHandlerStep ==
  ASSUME IInv, NEW u \in Uploads, NEW kind \in Chains, NoHandler(u, kind)
  PROVE  IInv'
<1> USE DEF IInv
<1>1. "data" \in Chains /\ "name" \in Chains  BY DEF Chains
<1>2. UNCHANGED <<mActiveTransfers, mPendingCleanup, cleanupVars, dl, tr, servers, asked, events,
                  eventThread, told>>
  BY DEF NoHandler
<1>3. PICK x \in ChainStates : x = up[u][kind] /\ x.st = "running"
  BY ChainIs DEF NoHandler
<1>4. PICK c \in ChainStates :
        /\ up' = [up EXCEPT ![u][kind] = c]
        /\ c.which = x.which /\ c.success = x.success
  <2>1. up' = [up EXCEPT ![u][kind] = [up[u][kind] EXCEPT !.st = "crashed"]]
    BY DEF NoHandler
  <2>2. /\ [x EXCEPT !.st = "crashed"] \in ChainStates
        /\ [x EXCEPT !.st = "crashed"].which = x.which
        /\ [x EXCEPT !.st = "crashed"].success = x.success
    BY DEF ChainStates
  <2> QED  BY <1>3, <2>1, <2>2
<1>5. /\ up' \in [Uploads -> [Chains -> ChainStates]]
      /\ up'[u][kind] = c
      /\ \A v \in Uploads, k \in Chains : v # u \/ k # kind => up'[v][k] = up[v][k]
  BY <1>4, ChainChanges
<1>6. TypeOK'
  BY <1>2, <1>5 DEF TypeOK, cleanupVars, servers, eventThread
<1>7. CountInv' /\ LookupInv'  BY <1>2, CountKept
<1>8. NamesInv'
  <2>1. ASSUME NEW v \in Uploads
        PROVE  /\ up'[v]["data"].which = up[v]["data"].which
               /\ up'[v]["data"].success = up[v]["data"].success
               /\ up'[v]["name"].st # "none" => up[v]["name"].st # "none"
    BY <1>1, <1>3, <1>4, <1>5
  <2> QED  BY <2>1, <1>2 DEF NamesInv, Everywhere, Truthful, servers, eventThread
<1> QED  BY <1>6, <1>7, <1>8

(***************************************************************************)
(* A chain goes on to the next service and keeps that one has failed.      *)
(***************************************************************************)
LEMMA UploadAnsweredStep ==
  ASSUME IInv, NEW u \in Uploads, NEW kind \in Chains, NEW ok \in BOOLEAN,
         UploadAnswered(u, kind, ok)
  PROVE  IInv'
<1> USE DEF IInv
<1>1. "data" \in Chains /\ "name" \in Chains  BY DEF Chains
<1>2. UNCHANGED <<mActiveTransfers, mPendingCleanup, cleanupVars, dl, tr, asked, events,
                  eventThread, told>>
  BY DEF UploadAnswered
<1>3. PICK w \in Services : w = up[u][kind].which
  BY ChainIs, TransferAssumption DEF UploadAnswered, Services
<1>4. PICK c \in ChainStates :
        /\ up' = [up EXCEPT ![u][kind] = c] /\ c.which = w + 1
        /\ c.success => up[u][kind].success /\ ok
        /\ c.st = "running" /\ up[u][kind].st = "running"
  <2>1. PICK x \in ChainStates : x = up[u][kind] /\ x.which \in Nat /\ x.success \in BOOLEAN
                                 /\ x.st \in {"none", "running", "done", "crashed"}
    BY ChainIs
  <2>2. PICK c : c = NextService(x, ok)  OBVIOUS
  <2>3. c.st = x.st /\ c.which = x.which + 1 /\ c.success = (x.success /\ ok)
    BY <2>2 DEF NextService
  <2>4. (x.success /\ ok) \in BOOLEAN  OBVIOUS
  <2>5. c \in ChainStates  BY <2>1, <2>2, <2>4 DEF NextService, ChainStates
  <2>6. up' = [up EXCEPT ![u][kind] = c] /\ up[u][kind].st = "running"
    BY <2>1, <2>2 DEF UploadAnswered
  <2>7. c.success => x.success /\ ok  BY <2>1, <2>3
  <2> QED  BY <2>1, <2>3, <2>5, <2>6, <2>7, <1>3
<1>5. /\ up' \in [Uploads -> [Chains -> ChainStates]]
      /\ up'[u][kind] = c
      /\ \A v \in Uploads, k \in Chains : v # u \/ k # kind => up'[v][k] = up[v][k]
  BY <1>4, ChainChanges
<1>6. CountInv' /\ LookupInv'  BY <1>2, CountKept
<1>7. Stores(u, w, kind) \/ (~ok /\ UNCHANGED servers)
  BY <1>3 DEF UploadAnswered
<1>8. /\ stored' \in [Services -> SUBSET Files]
      /\ \A s \in Services : stored[s] \subseteq stored'[s]
      /\ kind = "data" /\ ok => Give[u].file \in stored'[w]
      /\ kind = "data" => bound' = bound
  <2>1. CASE Stores(u, w, kind) /\ kind = "data"
    <3>1. stored' = [stored EXCEPT ![w] = stored[w] \cup {Give[u].file}] /\ bound' = bound
      BY <2>1 DEF Stores
    <3>2. stored \in [Services -> SUBSET Files]  BY DEF TypeOK
    <3> QED  BY <3>1, <3>2, Given
  <2>2. CASE Stores(u, w, kind) /\ kind # "data"
    BY <2>2 DEF Stores, TypeOK
  <2>3. CASE ~ok /\ UNCHANGED servers  BY <2>3 DEF servers, TypeOK
  <2> QED  BY <1>7, <2>1, <2>2, <2>3
<1>9. /\ bound' \in [Services -> [Names -> Files \cup {NoFile}]]
      /\ \A s \in Services, n \in Names :
           \/ bound'[s][n] = bound[s][n]
           \/ bound'[s][n] = Give[u].file /\ kind = "name"
  <2>1. CASE kind = "data" \/ bound' = bound  BY <2>1, <1>8 DEF TypeOK
  <2>2. CASE kind # "data" /\ Stores(u, w, kind)
    <3>1. kind = "name"  BY <2>2 DEF Chains
    <3>2. bound[w] \in [Names -> Files \cup {NoFile}]  BY DEF TypeOK
    <3>3. PICK m : m = [bound[w] EXCEPT ![Give[u].name] = Give[u].file]  OBVIOUS
    <3>4. m \in [Names -> Files \cup {NoFile}]
          /\ \A n \in Names : m[n] = bound[w][n] \/ m[n] = Give[u].file
      BY <3>2, <3>3, Given
    <3>5. bound' = [bound EXCEPT ![w] = m]  BY <2>2, <3>3 DEF Stores
    <3> QED  BY <3>1, <3>4, <3>5 DEF TypeOK
  <2>3. CASE ~ok /\ UNCHANGED servers  BY <2>3, <2>1 DEF servers
  <2> QED  BY <1>7, <2>1, <2>2, <2>3
<1>10. TypeOK'
  BY <1>2, <1>5, <1>8, <1>9 DEF TypeOK, cleanupVars, eventThread
<1>11. NamesInv'
  <2>1. ASSUME NEW v \in Uploads, NEW s \in Services,
               up'[v]["data"].success, s < up'[v]["data"].which
        PROVE  Give[v].file \in stored'[s]
    <3>1. CASE v = u /\ kind = "data"
      <4>1. up[u]["data"].success /\ ok /\ s < w + 1
        BY <2>1, <3>1, <1>4, <1>5
      <4>2. CASE s = w  BY <4>1, <4>2, <3>1, <1>8
      <4>3. CASE s # w
        <5>1. s < w  BY <4>1, <4>3 DEF Services
        <5>2. Give[u].file \in stored[s]  BY <5>1, <4>1, <3>1, <1>3 DEF NamesInv
        <5> QED  BY <5>2, <3>1, <1>8
      <4> QED  BY <4>2, <4>3
    <3>2. CASE v # u \/ kind # "data"
      <4>1. up'[v]["data"] = up[v]["data"]  BY <3>2, <1>1, <1>5
      <4>2. Give[v].file \in stored[s]  BY <4>1, <2>1 DEF NamesInv
      <4> QED  BY <4>2, <1>8
    <3> QED  BY <3>1, <3>2
  <2>3. (\A i \in DOMAIN events : Truthful(events[i]))'
    <3>1. events' = events  BY <1>2
    <3>2. \A i \in DOMAIN events : Truthful(events[i])  BY DEF NamesInv
    <3> QED  BY <3>1, <3>2, <1>8 DEF Truthful, Everywhere
  <2>4. (\A i \in DOMAIN round : Truthful(round[i]))'
    <3>1. round' = round  BY <1>2 DEF eventThread
    <3>2. \A i \in DOMAIN round : Truthful(round[i])  BY DEF NamesInv
    <3> QED  BY <3>1, <3>2, <1>8 DEF Truthful, Everywhere
  <2>5. ASSUME NEW v \in Uploads, up'[v]["name"].st # "none"
        PROVE  Everywhere(Give[v].file)'
    <3>1. up[v]["name"].st # "none"
      <4>1. CASE v = u /\ kind = "name"  BY <4>1, <1>4
      <4>2. CASE v # u \/ kind # "name"  BY <4>2, <2>5, <1>1, <1>5
      <4> QED  BY <4>1, <4>2
    <3>2. Everywhere(Give[v].file)  BY <3>1 DEF NamesInv
    <3> QED  BY <3>2, <1>8 DEF Everywhere
  <2>6. ASSUME NEW s \in Services, NEW n \in Names,
               bound'[s][n] \notin Known.files \cup {NoFile}
        PROVE  \A t \in Services : bound'[s][n] \in stored'[t]
    <3>1. CASE bound'[s][n] = bound[s][n]
      BY <2>6, <3>1, <1>8 DEF NamesInv, Everywhere
    <3>2. CASE bound'[s][n] = Give[u].file /\ kind = "name"
      <4>1. Everywhere(Give[u].file)  BY <3>2, <1>4 DEF NamesInv
      <4> QED  BY <4>1, <3>2, <1>8 DEF Everywhere
    <3> QED  BY <3>1, <3>2, <1>9
  <2> QED  BY <2>1, <2>3, <2>4, <2>5, <2>6 DEF NamesInv, Everywhere
<1> QED  BY <1>6, <1>10, <1>11

LEMMA FireUploadStep ==
  ASSUME IInv, NEW u \in Uploads, NEW kind \in Chains, FireUpload(u, kind)
  PROVE  IInv'
<1> USE DEF IInv
<1>1. "data" \in Chains /\ "name" \in Chains  BY DEF Chains
<1>2. UNCHANGED <<mActiveTransfers, mPendingCleanup, cleanupVars, dl, tr, servers, asked,
                  eventThread, told>>
  BY DEF FireUpload
<1>3. PICK x \in ChainStates : x = up[u][kind] /\ x.which \in Nat /\ x.success \in BOOLEAN
                               /\ x.st = "running" /\ x.which >= NumServices
  BY ChainIs DEF FireUpload
<1>4. PICK c \in ChainStates :
        /\ up' = [up EXCEPT ![u][kind] = c]
        /\ c.which = x.which /\ c.success = x.success
  <2>1. up' = [up EXCEPT ![u][kind] = [up[u][kind] EXCEPT !.st = "done"]]
    BY DEF FireUpload
  <2>2. /\ [x EXCEPT !.st = "done"] \in ChainStates
        /\ [x EXCEPT !.st = "done"].which = x.which
        /\ [x EXCEPT !.st = "done"].success = x.success
    BY DEF ChainStates
  <2> QED  BY <2>1, <2>2, <1>3
<1>5. /\ up' \in [Uploads -> [Chains -> ChainStates]]
      /\ up'[u][kind] = c
      /\ \A v \in Uploads, k \in Chains : v # u \/ k # kind => up'[v][k] = up[v][k]
  BY <1>4, ChainChanges
<1>6. PICK e : /\ e = [kind |-> kind, ok |-> x.success, data |-> <<>>,
                       key |-> IF kind = "data" THEN Give[u].file ELSE Give[u].name]
               /\ events' = Append(events, e)
  BY <1>3 DEF FireUpload
<1>7. e \in EventsFired
  <2>1. <<>> \in Seq(Spans)  OBVIOUS
  <2>2. (IF kind = "data" THEN Give[u].file ELSE Give[u].name) \in Files \cup {NoFile} \cup Names
    BY Given
  <2> QED  BY <1>3, <1>6, <2>1, <2>2 DEF EventsFired
<1>8. Truthful(e)
  <2> SUFFICES ASSUME kind = "data", x.success, NEW s \in Services
               PROVE  Give[u].file \in stored[s]
    BY <1>6 DEF Truthful, Everywhere
  <2>1. s < x.which  BY <1>3, TransferAssumption DEF Services
  <2> QED  BY <2>1, <1>3 DEF NamesInv
<1>9. UNCHANGED stored  BY <1>2 DEF servers
<1>10. events' \in Seq(EventsFired) /\ (\A i \in DOMAIN events : Truthful(events[i]))'
  BY <1>6, <1>7, <1>8, <1>9, AppendTruthful
<1>11. TypeOK'
  BY <1>2, <1>5, <1>10 DEF TypeOK, cleanupVars, servers, eventThread
<1>12. CountInv' /\ LookupInv'  BY <1>2, CountKept
<1>13. NamesInv'
  <2>1. ASSUME NEW v \in Uploads
        PROVE  /\ up'[v]["data"].which = up[v]["data"].which
               /\ up'[v]["data"].success = up[v]["data"].success
               /\ up'[v]["name"].st # "none" => up[v]["name"].st # "none"
    <3>1. CASE v = u
      <4>1. CASE kind = "data"  BY <3>1, <4>1, <1>1, <1>3, <1>4, <1>5
      <4>2. CASE kind = "name"  BY <3>1, <4>2, <1>1, <1>3, <1>4, <1>5
      <4> QED  BY <4>1, <4>2 DEF Chains
    <3>2. CASE v # u  BY <3>2, <1>1, <1>5
    <3> QED  BY <3>1, <3>2
  <2> QED  BY <2>1, <1>2, <1>10 DEF NamesInv, Everywhere, Truthful, servers, eventThread
<1> QED  BY <1>11, <1>12, <1>13

LEMMA TakeApplySteps ==
  ASSUME IInv, TakeEvents \/ ApplyRequests
  PROVE  IInv'
<1> USE DEF IInv
<1>1. UNCHANGED <<mActiveTransfers, mPendingCleanup, cleanupVars, dl, tr, up, servers, told>>
  BY DEF TakeEvents, ApplyRequests
<1>2. CountInv' /\ LookupInv'  BY <1>1, CountKept
<1>3. CASE TakeEvents
  <2>1. round' = events /\ events' = <<>> /\ UNCHANGED <<asked, listening>>
        /\ evPc' = "requests"
    BY <1>3 DEF TakeEvents
  <2>2. <<>> \in Seq(EventsFired) /\ DOMAIN <<>> = {}  OBVIOUS
  <2>3. TypeOK'
    BY <1>1, <2>1, <2>2 DEF TypeOK, cleanupVars, servers
  <2>4. NamesInv'
    BY <1>1, <2>1, <2>2 DEF NamesInv, Everywhere, Truthful, servers
  <2> QED  BY <1>2, <2>3, <2>4
<1>4. CASE ApplyRequests
  <2>1. /\ listening' = listening \cup asked /\ asked' = {} /\ evPc' = "dispatch"
        /\ UNCHANGED <<events, round>>
    BY <1>4 DEF ApplyRequests
  <2>2. TypeOK'
    BY <1>1, <2>1 DEF TypeOK, cleanupVars, servers
  <2>3. NamesInv'  BY <1>1, <2>1, NamesKept DEF servers
  <2> QED  BY <1>2, <2>2, <2>3
<1> QED  BY <1>3, <1>4

(***************************************************************************)
(* An upload goes on to its name only after an event about its own file.   *)
(***************************************************************************)
LEMMA DispatchEventStep ==
  ASSUME IInv, DispatchEvent
  PROVE  IInv'
<1> USE DEF IInv
<1>1. "data" \in Chains /\ "name" \in Chains  BY DEF Chains
<1>2. PICK e : e = Head(round)  OBVIOUS
<1>3. PICK called :
        called = {l \in listening : l[2] = e.kind /\ Key(l) = e.key /\ Satisfied(l, e)}
  OBVIOUS
<1>4. PICK named : named = {l[1] : l \in {k \in called : DoName(k, e)}}  OBVIOUS
<1>5. /\ evPc = "dispatch" /\ round # <<>>
      /\ listening' = listening \ called
      /\ asked' = asked \cup (named \X {"name"})
      /\ up' = [u \in Uploads |-> IF u \in named THEN uploadName(up[u]) ELSE up[u]]
      /\ told' = [x \in DOMAIN told |->
           IF x \in {l[1] : l \in called} \ named
           THEN (IF e.ok THEN "SUCCESS" ELSE "FAIL") ELSE told[x]]
      /\ round' = Tail(round)
      /\ evPc' = IF round' = <<>> THEN "idle" ELSE "dispatch"
      /\ UNCHANGED <<mActiveTransfers, mPendingCleanup, cleanupVars, dl, tr, servers, events>>
  BY <1>2, <1>3, <1>4 DEF DispatchEvent
<1>6. /\ round \in Seq(EventsFired) /\ e \in EventsFired /\ Truthful(e)
      /\ round' \in Seq(EventsFired)
      /\ \A i \in DOMAIN round' : i + 1 \in DOMAIN round /\ round'[i] = round[i + 1]
  <2>1. round \in Seq(EventsFired) /\ round # <<>>  BY <1>5 DEF TypeOK
  <2>2. /\ Head(round) \in EventsFired /\ Tail(round) \in Seq(EventsFired)
        /\ Len(Tail(round)) = Len(round) - 1
        /\ \A i \in 1..Len(Tail(round)) : Tail(round)[i] = round[i + 1]
    BY <2>1, HeadTailProperties
  <2>3. 1 \in DOMAIN round /\ Head(round) = round[1]  BY <2>1
  <2>4. Truthful(e)  BY <1>2, <2>3 DEF NamesInv
  <2> QED  BY <1>2, <1>5, <2>1, <2>2, <2>4
<1>7. \A u \in named :
        /\ u \in Uploads /\ Everywhere(Give[u].file)
  <2> TAKE u \in named
  <2>1. PICK l \in called : u = l[1] /\ DoName(l, e)  BY <1>4
  <2>2. l \in Listeners /\ l[2] = "data" /\ e.kind = "data" /\ e.ok /\ Key(l) = e.key
    BY <1>3, <2>1 DEF DoName, TypeOK
  <2>3. l[1] \in Uploads  BY <2>2 DEF Listeners, Chains
  <2>4. Key(l) = Give[l[1]].file  BY <2>2, Zenon DEF Key
  <2> QED  BY <2>1, <2>2, <2>3, <2>4, <1>6 DEF Truthful
<1>8. ASSUME NEW u \in Uploads
      PROVE  /\ up'[u] \in [Chains -> ChainStates]
             /\ up'[u]["data"] = up[u]["data"]
             /\ up'[u]["name"].st # "none" => up[u]["name"].st # "none" \/ u \in named
  <2>1. up[u] \in [Chains -> ChainStates]  BY DEF TypeOK
  <2>2. CASE u \notin named
    <3>1. up'[u] = up[u]  BY <2>2, <1>5
    <3> QED  BY <2>1, <3>1
  <2>3. CASE u \in named
    <3>1. PICK l \in {"running", "crashed"} :
            up'[u] = [up[u] EXCEPT !["name"] = [up[u]["name"] EXCEPT !.st = l]]
      BY <2>3, <1>5 DEF uploadName, Begun
    <3>2. PICK x \in ChainStates : x = up[u]["name"]  BY <1>1, <2>1
    <3>3. [x EXCEPT !.st = l] \in ChainStates  BY DEF ChainStates
    <3> QED  BY <2>1, <2>3, <3>1, <3>2, <3>3, <1>1
  <2> QED  BY <2>2, <2>3
<1>9. up' \in [Uploads -> [Chains -> ChainStates]]
  BY <1>5, <1>8
<1>10. asked' \subseteq Listeners /\ listening' \subseteq Listeners
  BY <1>1, <1>5, <1>7 DEF TypeOK, Listeners
<1>11. told' \in [Downloads \cup Uploads ->
                   {"none", "FAIL_NAMELOOKUP", "FAIL_SHUTDOWN", "FAIL_UNIMPLEMENTED", "SUCCESS", "FAIL"}]
  BY <1>5 DEF TypeOK
<1>12. TypeOK'
  BY <1>5, <1>6, <1>9, <1>10, <1>11 DEF TypeOK, cleanupVars, servers
<1>13. CountInv' /\ LookupInv'  BY <1>5, CountKept
<1>14. NamesInv'
  <2>1. stored' = stored /\ bound' = bound /\ events' = events  BY <1>5 DEF servers
  <2>2. (\A i \in DOMAIN round : Truthful(round[i]))'
    <3>1. \A i \in DOMAIN round' : Truthful(round'[i])  BY <1>6 DEF NamesInv
    <3> QED  BY <3>1, <2>1 DEF Truthful, Everywhere
  <2>3. \A u \in Uploads : up'[u]["name"].st # "none" => Everywhere(Give[u].file)
    BY <1>7, <1>8 DEF NamesInv
  <2> QED  BY <2>1, <2>2, <2>3, <1>8 DEF NamesInv, Everywhere, Truthful
<1> QED  BY <1>12, <1>13, <1>14

-----------------------------------------------------------------------------
(* The theorems *)

LEMMA InitIInv == Init => IInv
<1> SUFFICES ASSUME Init PROVE IInv  OBVIOUS
<1>1. TypeOK
  <2>1. <<>> \in Seq(Spans) /\ <<>> \in Seq(EventsFired)  OBVIOUS
  <2>2. [pc |-> "none", which |-> 0, file |-> NoFile] \in DownloadStates
    BY DEF DownloadStates
  <2>3. [st |-> "none", ok |-> FALSE, data |-> <<>>] \in TransferStates
    BY <2>1 DEF TransferStates
  <2>4. [st |-> "none", which |-> 0, success |-> TRUE] \in ChainStates
    BY DEF ChainStates
  <2>5. dl \in [Downloads -> DownloadStates] /\ tr \in [Downloads -> TransferStates]
        /\ up \in [Uploads -> [Chains -> ChainStates]]
    BY <2>2, <2>3, <2>4 DEF Init
  <2>6. bound \in [Services -> [Names -> Files \cup {NoFile}]]
        /\ stored \in [Services -> SUBSET Files]
    <3>1. Known.files \subseteq Files /\ Known.names \in [Names -> Known.files \cup {NoFile}]
      BY TransferAssumption
    <3>2. Known.names \in [Names -> Files \cup {NoFile}]  BY <3>1
    <3> QED  BY <3>1, <3>2 DEF Init
  <2> QED  BY <2>1, <2>5, <2>6 DEF Init, TypeOK
<1>2. Pending = {} /\ LookupInv  BY DEF Init, Pending, PendingLabels, LookupInv
<1>3. CountInv  BY <1>2, FS_EmptySet DEF Init, CountInv
<1>4. NamesInv
  <2>1. \A s \in Services, n \in Names : bound[s][n] \in Known.files \cup {NoFile}
    <3>1. Known.names \in [Names -> Known.files \cup {NoFile}]  BY TransferAssumption
    <3> QED  BY <3>1 DEF Init
  <2>2. \A u \in Uploads : up[u]["data"].which = 0 /\ up[u]["name"].st = "none"
    BY DEF Init, Chains
  <2>3. DOMAIN events = {} /\ DOMAIN round = {}  BY DEF Init
  <2>4. \A s \in Services : ~(s < 0)  BY TransferAssumption DEF Services
  <2> QED  BY <2>1, <2>2, <2>3, <2>4 DEF NamesInv
<1> QED  BY <1>1, <1>2, <1>3, <1>4 DEF IInv

LEMMA NextIInv == IInv /\ [Next]_vars => IInv'
<1> SUFFICES ASSUME IInv, [Next]_vars PROVE IInv'  OBVIOUS
<1>1. ASSUME NEW d \in Downloads, download(d) \/ downloadByHash(d) PROVE IInv'
  BY <1>1, downloadStep
<1>2. ASSUME NEW d \in Downloads, DownloadStep(d) \/ LayerStep(d) PROVE IInv'
  BY <1>2, NameSteps, EndSteps, SuccessStep, NotifyCleanupStep, TransferSteps
     DEF DownloadStep
<1>3. ASSUME NEW u \in Uploads, upload(u) PROVE IInv'  BY <1>3, uploadStep
<1>4. ASSUME NEW u \in Uploads, NEW kind \in Chains, UploadStep(u, kind) PROVE IInv'
  BY <1>4, UploadAnsweredStep, NoHandlerStep, FireUploadStep DEF UploadStep
<1>5. CASE CleanupBegin \/ CleanupStep  BY <1>5, CleanupSteps
<1>6. CASE EventStep
  BY <1>6, TakeApplySteps, DispatchEventStep DEF EventStep
<1>7. CASE UNCHANGED vars
  <2>1. UNCHANGED <<mActiveTransfers, mPendingCleanup, cleanupVars, dl, tr, up, servers, asked,
                    events, eventThread, told>>
    BY <1>7 DEF vars
  <2>2. TypeOK'  BY <2>1 DEF IInv, TypeOK, cleanupVars, servers, eventThread
  <2>3. NamesInv'  BY <2>1, NamesKept DEF IInv, servers, eventThread
  <2> QED  BY <2>1, <2>2, <2>3, CountKept DEF IInv
<1> QED  BY <1>1, <1>2, <1>3, <1>4, <1>5, <1>6, <1>7 DEF Next, Operate, Work

(***************************************************************************)
(* mPendingCleanup counts the calls that are under way, and success is     *)
(* only reported of files that every server has.                           *)
(***************************************************************************)
THEOREM Invariance == Spec => []IInv
BY InitIInv, NextIInv, PTL DEF Spec

(***************************************************************************)
(* cleanup() does not return while a call has still to use the name        *)
(* look-up or the cache layer, however the calls and their answers         *)
(* interleave with it.                                                     *)
(***************************************************************************)
THEOREM LayersOutliveCalls == Spec => []LayersAlive
<1>1. IInv => LayersAlive
  BY DEF IInv, CountInv, Pending, PendingLabels, LayersAlive
<1> QED  BY <1>1, Invariance, PTL

(***************************************************************************)
(* No name server ever answers with an uploaded file that some data server *)
(* does not have, whichever upload's events started the name's upload.     *)
(***************************************************************************)
THEOREM NamesFollowData == Spec => []NameAfterData
<1>1. IInv => NameAfterData
  BY DEF IInv, NamesInv, Everywhere, NameAfterData
<1> QED  BY <1>1, Invariance, PTL
=============================================================================
