--------------------------- MODULE TransferCaches ---------------------------
(***************************************************************************)
(* The chain of transfer caches: a MemoryCacheLayer in front of a          *)
(* DiskCacheLayer in front of the network (libcore/src/transfer).  Client  *)
(* threads ask the memory layer for ranges of files; what is not there is  *)
(* asked of the disk layer, whose worker thread does all the reading and   *)
(* writing of files, and then of the network; what the network answers is  *)
(* stored in both caches on its way back.  Files are known by the hash of  *)
(* their contents, so a file never changes and every copy of a byte is     *)
(* either right or wrong.  The process may crash between any two system    *)
(* calls; the next one rebuilds its map from the directory.                *)
(***************************************************************************)
EXTENDS Range, CacheMap, FiniteSets, TLC

CONSTANTS
  Files,          \* fingerprints
  FileLen,        \* the length of each file
  Ranges,         \* the ranges of each file that clients ask for
  Clients,        \* threads that ask, one request at a time
  MemTotal,       \* mTotalSize and the largest cachable size of the
  MemMax,         \* memory layer's policy
  DiskTotal,
  DiskMax,
  MaxRequests,    \* bounds on the calls of getData and of purgeFromCache,
  MaxPurges,      \* and on crashes
  MaxCrashes

ASSUME CacheAssumption ==
  /\ FileLen \in [Files -> Nat]
  /\ \A f \in Files : \A r \in Ranges[f] : r.s < FileLen[f]

VARIABLES
  mData,          \* the memory layer's map: file -> list of DenseData
  mFiles,         \* the disk layer's map: file -> RangeList, empty for a whole file
  mRequestQueue,  \* the worker's queue
  worker,         \* [pc, job]: what the worker thread is doing
  disk,           \* file -> its .part, its .ranges, and the complete file
  req,            \* the request of each client
  purging,        \* the file being purged, with the memory map locked
  owner,          \* how far the layers have been destroyed
  requests, purges, crashes,
  forgotten,      \* ghost: files that left mFiles while a read of them was queued
  wrong           \* ghost: the wrong answers, with whether their file was forgotten

counts == <<requests, purges, crashes>>
vars == <<mData, mFiles, mRequestQueue, worker, disk, req, purging, owner, counts, forgotten,
          wrong>>

None == [kind |-> "none"]

(* A piece of data with a flag that its bytes are those of the file. *)
Piece(r, good) == [s |-> r.s, n |-> r.n, eof |-> r.eof, good |-> good]
RangeOf(p) == [s |-> p.s, n |-> p.n, eof |-> p.eof]
BytesOf(r, len) == {b \in 0..(len - 1) : b >= r.s /\ (r.eof \/ b < EndByte(r))}

Done == [st |-> "done"]
Idle == [pc |-> "idle", job |-> None]

NoFiles == [part |-> <<>>, ranges |-> <<>>, whole |-> <<>>]

Init ==
  /\ mData = EmptyMap(MemTotal)
  /\ mFiles = EmptyMap(DiskTotal)
  /\ mRequestQueue = <<>>
  /\ worker = Idle
  /\ disk = [f \in Files |-> NoFiles]
  /\ req = [i \in Clients |-> Done]
  /\ purging = {}
  /\ owner = "up"
  /\ requests = 0 /\ purges = 0 /\ crashes = 0
  /\ forgotten = {} /\ wrong = {}

(***************************************************************************)
(* Both maps are used through iterators that hold their lock; a purge      *)
(* keeps the memory map locked while it purges the disk layer.             *)
(***************************************************************************)
MemoryUnlocked == purging = {}

wholeFile(f) == mFiles.map[f].data = <<>>
contains(f, r) == wholeFile(f) \/ IsContainedBy(r, mFiles.map[f].data)

Moved(i, st) == [req EXCEPT ![i].st = st]

(* The callback is called with the pieces found, or with NULL.  A request is *)
(* answered wrongly if a byte it asked for is not among them, or not right.  *)
Right(f, r, pieces) ==
  BytesOf(r, FileLen[f]) \subseteq Bytes(SelectSeq(pieces, LAMBDA p : p.good), FileLen[f])
Judge(f, r, pieces) ==
  wrong' = IF Right(f, r, pieces) THEN wrong ELSE wrong \cup {<<f, f \in forgotten>>}
Answer(i, pieces) ==
  /\ req' = [req EXCEPT ![i] = Done]
  /\ Judge(req[i].file, req[i].r, pieces)

(* The files that leave a map while the worker still has to read them. *)
QueuedReads == {mRequestQueue[k].file : k \in {k \in DOMAIN mRequestQueue :
                                                 mRequestQueue[k].kind = "read"}}
AboutToRead == {req[i].file : i \in {i \in Clients : req[i].st = "push"}}
LostReads(cm) == {f \in QueuedReads \cup AboutToRead : Find(mFiles, f) /\ ~Find(cm, f)}

-----------------------------------------------------------------------------
(* MemoryCacheLayer *)

(* MemoryCacheLayer::populateCache *)
populateMemory(f, d) ==
  \E room \in {alloc(mData, d.n)} :
    \E list \in {AddToList(d, IF Find(room, f) THEN room.map[f].data ELSE <<>>)} :
      mData' = IF owner # "up" \/ ~cachable(d.n, MemMax) THEN mData
               ELSE IF Find(room, f) THEN update(room, f, list, GetSpaceUsed(list))
               ELSE use(insert(room, f, list, d.n), f)

(* MemoryCacheLayer::getData *)
getData(i, f, r) ==
  /\ owner = "up" /\ MemoryUnlocked
  /\ req[i].st = "done" /\ requests < MaxRequests
  /\ requests' = requests + 1
  /\ IF Find(mData, f) /\ IsContainedBy(r, mData.map[f].data)
     THEN Judge(f, r, mData.map[f].data) /\ UNCHANGED req
     ELSE req' = [req EXCEPT ![i] = [st |-> "disk", file |-> f, r |-> r]] /\ UNCHANGED wrong
  /\ UNCHANGED <<mData, mFiles, mRequestQueue, worker, disk, purging, owner, purges,
                 crashes, forgotten>>

(* MemoryCacheLayer::purgeFromCache; its iterator lives until the next  *)
(* layer's purgeFromCache has returned.                                 *)
purgeFromMemory(f) ==
  /\ owner = "up" /\ MemoryUnlocked
  /\ purges < MaxPurges
  /\ purges' = purges + 1
  /\ mData' = IF Find(mData, f) THEN erase(mData, f) ELSE mData
  /\ purging' = {f}
  /\ UNCHANGED <<mFiles, mRequestQueue, worker, disk, req, owner, requests, crashes,
                 forgotten, wrong>>

-----------------------------------------------------------------------------
(* DiskCacheLayer, in the threads of others *)

(* DiskCacheLayer::purgeFromCache: the file stays on the disk. *)
purgeFromDisk(f) ==
  /\ f \in purging
  /\ purging' = {}
  /\ \E cm \in {IF Find(mFiles, f) THEN erase(mFiles, f) ELSE mFiles} :
       mFiles' = cm /\ forgotten' = forgotten \cup LostReads(cm)
  /\ UNCHANGED <<mData, mRequestQueue, worker, disk, req, owner, counts, wrong>>

(* DiskCacheLayer::getData *)
getDataFromDisk(i) ==
  /\ req[i].st = "disk"
  /\ LET f == req[i].file
         haveRange == Find(mFiles, f) /\ contains(f, req[i].r)
     IN  /\ req' = Moved(i, IF haveRange THEN "push" ELSE "network")
         /\ mFiles' = IF haveRange THEN use(mFiles, f) ELSE mFiles
  /\ UNCHANGED <<mData, mRequestQueue, worker, disk, purging, owner, counts, forgotten,
                 wrong>>

(* DiskCacheLayer::readDataFromDisk *)
readDataFromDisk(i) ==
  /\ req[i].st = "push"
  /\ mRequestQueue' = Append(mRequestQueue, [kind |-> "read", file |-> req[i].file, id |-> i])
  /\ req' = Moved(i, "queued")
  /\ UNCHANGED <<mData, mFiles, worker, disk, purging, owner, counts, forgotten, wrong>>

(* The network's answer to a request: the bytes asked for that exist. *)
Download(i) ==
  LET r == req[i].r
      len == FileLen[req[i].file]
      n == Cardinality(BytesOf(r, len))
  IN  Piece([s |-> r.s, n |-> n, eof |-> r.eof], TRUE)

(* DiskCacheLayer::populateCache, called by the network layer: the write is *)
(* queued, then the memory layer is given the data.                         *)
populateDisk(i) ==
  /\ req[i].st = "network"
  /\ mRequestQueue' = IF owner = "gone" THEN mRequestQueue
                      ELSE Append(mRequestQueue, [kind |-> "write", file |-> req[i].file,
                                                  data |-> Download(i)])
  /\ req' = Moved(i, "arrived")
  /\ UNCHANGED <<mData, mFiles, worker, disk, purging, owner, counts, forgotten, wrong>>

(* The memory layer is filled before the callback is called. *)
AnswerDownload(i) ==
  /\ req[i].st = "arrived" /\ MemoryUnlocked
  /\ populateMemory(req[i].file, Download(i))
  /\ Answer(i, <<Download(i)>>)
  /\ UNCHANGED <<mFiles, mRequestQueue, worker, disk, purging, owner, counts, forgotten>>

(* The last layer answers NULL. *)
AnswerFailure(i) ==
  /\ req[i].st = "network"
  /\ req' = [req EXCEPT ![i] = Done]
  /\ UNCHANGED <<mData, mFiles, mRequestQueue, worker, disk, purging, owner, counts,
                 forgotten, wrong>>

-----------------------------------------------------------------------------
(* DiskCacheLayer::workerThread *)

job == worker.job

WorkerOnly == UNCHANGED <<mData, mFiles, mRequestQueue, req, purging, owner, counts, forgotten,
                          wrong>>

Take(kind) ==
  /\ worker.pc = "idle" /\ mRequestQueue # <<>>
  /\ Head(mRequestQueue).kind = kind
  /\ mRequestQueue' = Tail(mRequestQueue)

(* OPWRITE: is it needed, and is there room?  Evicted files stay on the disk, *)
(* as destroyCacheEntry makes the OPDELETE request but does not push it.      *)
WorkerCheck ==
  /\ Take("write")
  /\ LET w == Head(mRequestQueue)
         found == Find(mFiles, w.file)
     IN  IF (found /\ contains(w.file, w.data)) \/ ~cachable(w.data.n, DiskMax)
         THEN UNCHANGED <<mFiles, worker, forgotten>>
         ELSE /\ \E cm \in {alloc(mFiles, w.data.n)} :
                   mFiles' = cm /\ forgotten' = forgotten \cup LostReads(cm)
              /\ worker' = [pc |-> IF found THEN "open" ELSE "unlink",
                            job |-> [file |-> w.file, data |-> w.data]]
  /\ UNCHANGED <<mData, disk, req, purging, owner, counts, wrong>>

(* Mutant: a leftover list of ranges is left where it is. *)
WorkerUnlinkNothing ==
  /\ worker.pc = "unlink"
  /\ worker' = [worker EXCEPT !.pc = "open"]
  /\ WorkerOnly /\ UNCHANGED disk

(* "in case of a leftover old file" *)
WorkerUnlink ==
  /\ worker.pc = "unlink"
  /\ disk' = [disk EXCEPT ![job.file].ranges = <<>>]
  /\ worker' = [worker EXCEPT !.pc = "open"]
  /\ WorkerOnly

PartOf(f) == IF disk[f].part = <<>> THEN {} ELSE disk[f].part[1]

WorkerWrite ==
  /\ worker.pc = "open"
  /\ disk' = [disk EXCEPT ![job.file].part =
                <<PartOf(job.file) \cup BytesOf([job.data EXCEPT !.eof = FALSE],
                                                FileLen[job.file])>>]
  /\ worker' = [worker EXCEPT !.pc = "record"]
  /\ WorkerOnly

WorkerOpenFails ==
  /\ worker.pc = "open"
  /\ worker' = Idle
  /\ WorkerOnly /\ UNCHANGED disk

(* The map learns of the new range; a file that is complete has no list. *)
WorkerRecord ==
  /\ worker.pc = "record"
  /\ LET f == job.file
         diskUsage == Cardinality(PartOf(f))
         old == IF Find(mFiles, f) THEN mFiles.map[f].data ELSE <<>>
         list == AddToList(RangeOf(job.data), old)
         data == IF IsContainedBy(WholeFile, list) THEN <<>> ELSE list
     IN  /\ mFiles' = IF Find(mFiles, f) THEN update(mFiles, f, data, diskUsage)
                      ELSE use(insert(mFiles, f, data, diskUsage), f)
         /\ worker' = [pc |-> IF data = <<>> THEN "rename" ELSE "publish",
                       job |-> [file |-> f, list |-> data]]
  /\ UNCHANGED <<mData, mRequestQueue, disk, req, purging, owner, counts, forgotten, wrong>>

(* The list of ranges is replaced by an atomic rename. *)
WorkerPublish ==
  /\ worker.pc = "publish"
  /\ disk' = [disk EXCEPT ![job.file].ranges = <<job.list>>]
  /\ worker' = Idle
  /\ WorkerOnly

(* "first do atomic rename, the delete ranges file." *)
WorkerRename ==
  /\ worker.pc = "rename"
  /\ disk' = [disk EXCEPT ![job.file].whole = disk[job.file].part,
                          ![job.file].part = <<>>]
  /\ worker' = [worker EXCEPT !.pc = "unlinkRanges"]
  /\ WorkerOnly

WorkerUnlinkRanges ==
  /\ worker.pc = "unlinkRanges"
  /\ disk' = [disk EXCEPT ![job.file].ranges = <<>>]
  /\ worker' = Idle
  /\ WorkerOnly

(***************************************************************************)
(* OPREAD: a range that a partial file no longer has is asked of the next  *)
(* layer; a file that has left the map is looked for under .part.          *)
(***************************************************************************)
WorkerLookup ==
  /\ Take("read")
  /\ LET q == Head(mRequestQueue)
         found == Find(mFiles, q.file)
     IN  IF found /\ ~contains(q.file, req[q.id].r)
         THEN req' = Moved(q.id, "network") /\ UNCHANGED worker
         ELSE /\ worker' = [pc |-> "read",
                            job |-> [id |-> q.id, useWholeFile |-> found /\ wholeFile(q.file)]]
              /\ UNCHANGED req
  /\ UNCHANGED <<mData, mFiles, disk, purging, owner, counts, forgotten, wrong>>

(* The bytes of a file on the disk, and its st_size. *)
Opened(f, useWholeFile) == IF useWholeFile THEN disk[f].whole ELSE disk[f].part
SizeOf(bytes) == IF bytes = {} THEN 0 ELSE 1 + CHOOSE m \in bytes : \A b \in bytes : b <= m

WorkerRead ==
  /\ worker.pc = "read" /\ MemoryUnlocked
  /\ LET i == job.id
         f == req[i].file
         r == req[i].r
         file == Opened(f, job.useWholeFile)
         n == IF r.eof THEN SizeOf(file[1]) ELSE r.n
         d == Piece([s |-> r.s, n |-> n, eof |-> r.eof], BytesOf(r, FileLen[f]) \subseteq file[1])
     IN  IF file = <<>>
         THEN req' = Moved(i, "network") /\ UNCHANGED <<mData, wrong>>
         ELSE populateMemory(f, d) /\ Answer(i, <<d>>)
  /\ worker' = Idle
  /\ UNCHANGED <<mFiles, mRequestQueue, disk, purging, owner, counts, forgotten>>

-----------------------------------------------------------------------------
(* Destruction, first of the memory layer and then of the disk layer *)

(***************************************************************************)
(* The owner deletes the memory layer when no client is inside it.  That   *)
(* no other thread is just filling it is not ensured by the code.          *)
(***************************************************************************)
DestroyMemory ==
  /\ owner = "up" /\ purging = {}
  /\ \A i \in Clients : req[i].st \notin {"disk", "push", "arrived"}
  /\ worker.pc # "read"
  /\ owner' = "memory gone"
  /\ mData' = EmptyMap(MemTotal)
  /\ UNCHANGED <<mFiles, mRequestQueue, worker, disk, req, purging, counts, forgotten,
                 wrong>>

(* ~DiskCacheLayer pushes OPEXIT with destroyLock held and waits. *)
DestroyDisk ==
  /\ owner = "memory gone"
  /\ owner' = "waiting"
  /\ mRequestQueue' = Append(mRequestQueue, [kind |-> "exit"])
  /\ UNCHANGED <<mData, mFiles, worker, disk, req, purging, counts, forgotten, wrong>>

(* The worker leaves its loop and wakes the destructor. *)
WorkerExit ==
  /\ Take("exit")
  /\ worker' = [worker EXCEPT !.pc = "exit"]
  /\ owner' = "gone"
  /\ UNCHANGED <<mData, mFiles, disk, req, purging, counts, forgotten, wrong>>

-----------------------------------------------------------------------------
(* Crash and restart *)

DirectoryEntries ==
  {<<f, "part">> : f \in {f \in Files : disk[f].part # <<>>}}
    \cup {<<f, "whole">> : f \in {f \in Files : disk[f].whole # <<>>}}

(* One turn of unserialize's loop over the directory. *)
LoadEntry(st, entry) ==
  LET f == entry[1]
      partial == entry[2] = "part"
      file == st.disk[f]
      list == IF ~partial \/ file.ranges = <<>> THEN <<>> ELSE file.ranges[1]
      size == Cardinality(IF partial THEN file.part[1] ELSE file.whole[1])
  IN  IF partial /\ file.part = <<>> THEN st
      ELSE IF partial /\ list = <<>>
      THEN [st EXCEPT !.disk[f] = [NoFiles EXCEPT !.whole = file.whole]]
      ELSE IF ~Find(st.cm, f)
      THEN [st EXCEPT !.cm = insert(st.cm, f, list, size)]
      ELSE IF partial THEN st
      ELSE [st EXCEPT !.cm.map[f].data = <<>>, !.disk[f].part = <<>>]

(* DiskCacheLayer::unserialize, with the directory in any order. *)
unserialize ==
  \E order \in SetToSeqs(DirectoryEntries) :
    \E st \in {FoldLeft(LoadEntry, [cm |-> EmptyMap(DiskTotal), disk |-> disk], order)} :
      mFiles' = st.cm /\ disk' = st.disk

(* A crash, or the end of a process that was destroyed, and a new process. *)
Restart ==
  /\ crashes < MaxCrashes
  /\ crashes' = crashes + 1
  /\ unserialize
  /\ mData' = EmptyMap(MemTotal)
  /\ mRequestQueue' = <<>> /\ worker' = Idle
  /\ req' = [i \in Clients |-> Done]
  /\ purging' = {} /\ owner' = "up" /\ forgotten' = {}
  /\ UNCHANGED <<requests, purges, wrong>>

-----------------------------------------------------------------------------
ClientStep(i) ==
  \/ \E f \in Files : \E r \in Ranges[f] : getData(i, f, r)
  \/ getDataFromDisk(i)
  \/ readDataFromDisk(i)

PurgeStep(f) == purgeFromMemory(f) \/ purgeFromDisk(f)

NetworkStep(i) == populateDisk(i) \/ AnswerDownload(i) \/ AnswerFailure(i)

WorkerStep ==
  \/ WorkerCheck \/ WorkerUnlink \/ WorkerWrite \/ WorkerOpenFails \/ WorkerRecord
  \/ WorkerPublish \/ WorkerRename \/ WorkerUnlinkRanges
  \/ WorkerLookup \/ WorkerRead \/ WorkerExit

Next ==
  \/ \E i \in Clients : ClientStep(i) \/ NetworkStep(i)
  \/ \E f \in Files : PurgeStep(f)
  \/ WorkerStep
  \/ DestroyMemory \/ DestroyDisk
  \/ Restart

Spec == Init /\ [][Next]_vars

-----------------------------------------------------------------------------
(* Properties *)

(* What a process would read if it were started now is what was downloaded: *)
(* a file under its own name is complete, and a .part holds every byte that *)
(* the .ranges beside it lists (the order of unlink, write and rename in    *)
(* workerThread).                                                           *)
DiskSurvivesCrash ==
  \A f \in Files :
    /\ disk[f].whole # <<>> => disk[f].whole[1] = 0..(FileLen[f] - 1)
    /\ disk[f].part # <<>> /\ disk[f].ranges # <<>>
         => Bytes(disk[f].ranges[1], FileLen[f]) \subseteq disk[f].part[1]

(* A request is answered with the bytes it asked for, whatever the caches   *)
(* had to evict, purge or reload in between, unless the file left the disk  *)
(* layer's map while the read was waiting for the worker (getData,          *)
(* workerThread, IsContainedBy and addToList).                              *)
DeliveredTrue == \A w \in wrong : w[2]

(* "SparseDataPtr is guaranteed to contain the requested block": the same   *)
(* without the exception (CacheLayer.hpp).                                  *)
DeliveredAlways == wrong = {}

(* The replacement policy and the map agree: every entry is in the list of  *)
(* least used files once and the free space is what the entries leave       *)
(* (CacheMap's iterators and LRUPolicy).                                    *)
PolicyAgrees == Consistent(mData, MemTotal) /\ Consistent(mFiles, DiskTotal)
=============================================================================
