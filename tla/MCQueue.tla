------------------------------ MODULE MCQueue -------------------------------
(* Instances of LockFreeQueue: a thread that pushes beside one that pops or  *)
(* one that walks through what it has forked; two threads that push beside   *)
(* one that pops, with nodes in the pool, or one that forks; a thread that   *)
(* pushes beside one that pops and one that forks.                           *)
EXTENDS LockFreeQueue

Run(drained, a, b, c) == [drained |-> drained, calls |-> [a |-> a, b |-> b, c |-> c]]

MCPrograms ==
  {Run(0, <<"x", "y", "z">>, <<>>, <<DoPop, DoPop, DoPop, DoPop>>),
   Run(0, <<"x", "y">>, <<>>, <<DoFork, DoFork>>),
   Run(2, <<"x">>, <<"y", "z">>, <<DoPop, DoPop, DoPop>>),
   Run(0, <<"x">>, <<"y">>, <<DoFork>>),
   Run(0, <<"x">>, <<DoPop>>, <<DoFork>>)}

(* Two threads that push and one that pops, and nothing else: already here *)
(* NoneEverMissed fails.                                                    *)
MCPushers == {Run(0, <<"x">>, <<"y">>, <<DoPop, DoPop>>)}
=============================================================================
