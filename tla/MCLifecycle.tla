----------------------------- MODULE MCLifecycle -----------------------------
(***************************************************************************)
(* Instances of StreamLifecycle for TLC: who sends how many packets on the *)
(* first stream and on a later one.                                        *)
(***************************************************************************)
EXTENDS StreamLifecycle

Load(connector, listener) ==
  [e \in Ends |-> [g \in Streams |-> IF e = Connector THEN connector[g]
                                                      ELSE listener[g]]]

FirstStreamBusy == Load(<<2, 1>>, <<1, 0>>)
=============================================================================
