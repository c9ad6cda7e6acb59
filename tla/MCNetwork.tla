----------------------------- MODULE MCNetwork ------------------------------
(* Instance of NetworkCacheLayer: one download with two services, and one    *)
(* upload.  The first server knows ranges; the other dislikes Expect, and    *)
(* may answer 417 to anything or not at all.                                 *)
EXTENDS NetworkCacheLayer, TLC

MCRequests == {"a0", "a1", "u"}
MCHostOf == [h \in MCRequests |-> IF h = "a0" THEN "new" ELSE "old"]
MCRequestFor == [x \in Infos \X {0, 1} |-> IF x[2] = 0 THEN "a0" ELSE "a1"]
MCRanges == {WholeFile} \cup
  {[s |-> x[1], n |-> x[2], eof |-> FALSE] : x \in {<<0, 1>>, <<1, 1>>, <<1, 0>>}}
=============================================================================
