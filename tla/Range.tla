------------------------------- MODULE Range -------------------------------
(***************************************************************************)
(* Byte ranges and lists of ranges (libcore/src/transfer/Range.hpp), with  *)
(* which the caches keep track of the parts of a file they have.  A range  *)
(* has a first byte s, a length n and a flag eof: it extends to the end of *)
(* the file, wherever that is.  A list is ordered by first byte; the same  *)
(* operations work on a RangeList and on the DenseData of a SparseData     *)
(* (TransferData.hpp).                                                     *)
(***************************************************************************)
EXTENDS Integers, SequencesExt

EndByte(r) == r.s + r.n

WholeFile == [s |-> 0, n |-> 0, eof |-> TRUE]

(***************************************************************************)
(* isContainedBy(list): find the first range that holds the first byte,    *)
(* then go on until the last byte is reached, the end of the file, or a    *)
(* gap.                                                                    *)
(***************************************************************************)
Holds(q, r) == r.s >= q.s /\ (q.eof \/ r.s < EndByte(q))

(* Mutant: a gap in the list is not noticed. *)
GapAtNever(list, j, i) == FALSE

GapAt(list, j, i) == j > i /\ list[j].s > EndByte(list[j - 1])

IsContainedBy(r, list) ==
  \E i \in DOMAIN list :
    /\ Holds(list[i], r)
    /\ \A k \in 1..(i - 1) : ~Holds(list[k], r)
    /\ \/ list[i].eof
       \/ \E j \in i..Len(list) :
            /\ list[j].eof \/ (~r.eof /\ EndByte(r) <= EndByte(list[j]))
            /\ \A k \in i..j : ~GapAt(list, k, i)

(* contains: one range in another. *)
RangeContains(q, r) ==
  r.s >= q.s /\ (q.eof \/ (~r.eof /\ EndByte(r) <= EndByte(q)))

(***************************************************************************)
(* addToList(data, list): nothing to do if a range that starts no later    *)
(* reaches further; otherwise the range goes in front of the first that    *)
(* starts no earlier, and the later ones it covers are erased.             *)
(***************************************************************************)
AddToList(r, list) ==
  LET k      == IF \E i \in DOMAIN list : list[i].s >= r.s
                THEN CHOOSE i \in DOMAIN list : /\ list[i].s >= r.s
                                                /\ \A j \in 1..(i - 1) : list[j].s < r.s
                ELSE Len(list) + 1
      upTo   == {i \in DOMAIN list : i < k \/ (i = k /\ list[i].s = r.s)}
      Covered(q) == r.eof \/ (~q.eof /\ EndByte(q) <= EndByte(r))
  IN  IF r.n <= 0 THEN list
      ELSE IF r.s = 0 /\ r.eof THEN <<r>>
      ELSE IF \E i \in upTo : list[i].eof \/ (~r.eof /\ EndByte(list[i]) > EndByte(r)) THEN list
      ELSE SubSeq(list, 1, k - 1) \o <<r>>
             \o SelectSeq(SubSeq(list, k, Len(list)), LAMBDA q : ~Covered(q))

(* SparseData::getSpaceUsed *)
GetSpaceUsed(list) == FoldLeft(LAMBDA sum, r : sum + r.n, 0, list)

(* Reference: the bytes of a file of length len that a list stands for. *)
Bytes(list, len) ==
  {b \in 0..(len - 1) : \E i \in DOMAIN list : Holds(list[i], [s |-> b])}
=============================================================================
