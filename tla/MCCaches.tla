------------------------------ MODULE MCCaches ------------------------------
(* Instance of TransferCaches: a file of three bytes, asked for by its ends  *)
(* and whole, and another, in caches that cannot hold both.                  *)
EXTENDS TransferCaches

CONSTANTS f1, f2, c1, c2

MCFileLen == f1 :> 3 @@ f2 :> 3
MCRanges ==
  f1 :> {[s |-> 0, n |-> 1, eof |-> FALSE], [s |-> 2, n |-> 1, eof |-> TRUE],
         WholeFile}
  @@ f2 :> {WholeFile}

(* The clients are alike. *)
Symmetry == Permutations(Clients)
=============================================================================
