----------------------------- MODULE MCTransfer -----------------------------
(* Instances of EventTransferManager: a download by name and one by hash,    *)
(* with cleanup(); three overlapping downloads of one file; two uploads of   *)
(* one file under two names; two uploads of two files under one name; a URI  *)
(* that names no file; uploads without a registry or without a handler.      *)
EXTENDS EventTransferManager

MCWant == [d \in {"d1", "d2", "d3", "d4", "d5"} |->
  [name |-> IF d \in {"d1", "d5"} THEN "n0" ELSE NoName,
   file |-> CASE d = "d1" -> "f1" [] d = "d5" -> NoFile [] OTHER -> "f0",
   range |-> CASE d \in {"d1", "d4", "d5"} -> [s |-> 0, n |-> 2, eof |-> FALSE]
               [] d = "d2" -> [s |-> 0, n |-> 1, eof |-> FALSE]
               [] d = "d3" -> WholeFile]]
MCGive == [u \in {"u1", "u2", "u3"} |->
  [name |-> IF u = "u2" THEN "n2" ELSE "n1", file |-> IF u = "u3" THEN "f2" ELSE "f1"]]
MCKnown == [names |-> [n \in Names |-> IF n = "n0" THEN "f0" ELSE NoFile], files |-> {"f0"}]
MCScenarios ==
  [calls : {{"d1", "d2", "cleanup"}, {"d2", "d3", "d4"}, {"d5"}, {"u1", "u2"}, {"u1", "u3"}},
   registered : {Chains}, handled : {Chains \X Services}]
  \cup [calls : {{"u1"}}, registered : {{"data"}, {"name"}}, handled : {Chains \X Services}]
  \cup [calls : {{"u1"}}, registered : {Chains}, handled : {Chains \X {0}}]

(* A call and cleanup(): already here CleanupReturns fails. *)
MCLastCall == [calls : {{"d2", "cleanup"}}, registered : {Chains}, handled : {Chains \X Services}]
=============================================================================
