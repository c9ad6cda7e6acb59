------------------------------- MODULE MCSend -------------------------------
(***************************************************************************)
(* Three senders, of which one sends twice: a chunk can overtake another   *)
(* of its own thread, and two volunteers can meet while a third thread or  *)
(* the reactor holds the torch.                                            *)
(***************************************************************************)
EXTENDS ASIOSocketWrapper

MCSenders == {"s1", "s2", "s3"}
TwoAndOnes == [t \in Senders |-> IF t = "s1" THEN 2 ELSE 1]
=============================================================================
