------------------------------ MODULE CacheMap ------------------------------
(***************************************************************************)
(* The map of a cache layer and its replacement policy                     *)
(* (libcore/src/transfer/CacheMap.hpp, CachePolicy.hpp, LRUPolicy.hpp).    *)
(* A cache map is a record of the map itself (file -> [data, size]), of    *)
(* the policy's list mLeastUsed, least recently used first, and of         *)
(* mFreeSpace.  Every operation below runs under the map's lock.           *)
(***************************************************************************)
EXTENDS Integers, SequencesExt

EmptyMap(mTotalSize) == [map |-> << >>, mLeastUsed |-> <<>>, mFreeSpace |-> mTotalSize]

LOCAL PutKey(f, k, v) == [x \in DOMAIN f \cup {k} |-> IF x = k THEN v ELSE f[x]]
LOCAL DropKey(f, k)   == [x \in DOMAIN f \ {k} |-> f[x]]

Find(cm, file) == file \in DOMAIN cm.map

use(cm, file) == [cm EXCEPT !.mLeastUsed =
                    Append(SelectSeq(@, LAMBDA f : f # file), file)]

(* write_iterator::insert: an entry that exists keeps its size. *)
insert(cm, file, data, size) ==
  IF Find(cm, file) THEN cm
  ELSE [map        |-> PutKey(cm.map, file, [data |-> data, size |-> size]),
        mLeastUsed |-> Append(cm.mLeastUsed, file),
        mFreeSpace |-> cm.mFreeSpace - size]

(* Mutant: the old size is not given back. *)
updateLeaks(cm, file, data, size) ==
  LET used == use(cm, file)
  IN  [used EXCEPT !.map[file] = [data |-> data, size |-> size],
                   !.mFreeSpace = @ - size]

update(cm, file, data, size) ==
  LET used == use(cm, file)
  IN  [used EXCEPT !.map[file] = [data |-> data, size |-> size],
                   !.mFreeSpace = @ + cm.map[file].size - size]

erase(cm, file) ==
  [map        |-> DropKey(cm.map, file),
   mLeastUsed |-> SelectSeq(cm.mLeastUsed, LAMBDA f : f # file),
   mFreeSpace |-> cm.mFreeSpace + cm.map[file].size]

(* CachePolicy::cachable; mMaxSize stands for mTotalSize * mMaxSizePct. *)
cachable(required, mMaxSize) == required < mMaxSize

(***************************************************************************)
(* alloc: entries are erased, least recently used first, until there is    *)
(* room (nextItem).                                                        *)
(***************************************************************************)
alloc(cm, required) ==
  FoldLeft(LAMBDA c, f : IF c.mFreeSpace >= required THEN c ELSE erase(c, f), cm, cm.mLeastUsed)

(* The bookkeeping agrees: the policy lists each entry once, and the free *)
(* space is the total less the sizes of the entries.                      *)
Consistent(cm, mTotalSize) ==
  /\ ToSet(cm.mLeastUsed) = DOMAIN cm.map
  /\ Len(cm.mLeastUsed) = Cardinality(DOMAIN cm.map)
  /\ cm.mFreeSpace = mTotalSize
       - FoldLeft(LAMBDA sum, f : sum + cm.map[f].size, 0, cm.mLeastUsed)
=============================================================================
