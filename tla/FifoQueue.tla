----------------------------- MODULE FifoQueue ------------------------------
(***************************************************************************)
(* "A queue of any type that has thread-safe push() and pop() functions"   *)
(* (libcore/src/util/LockFreeQueue.hpp, ThreadSafeQueue.hpp): every push   *)
(* and every pop takes place at one moment, and what is popped is what was *)
(* pushed first.                                                           *)
(***************************************************************************)
EXTENDS Sequences

CONSTANT Items      \* what may be pushed

VARIABLES
  queue,            \* the items in the queue
  popped            \* the items popped, in order

Init == queue = <<>> /\ popped = <<>>

Push(v) == queue' = Append(queue, v) /\ popped' = popped

Pop ==
  /\ queue # <<>>
  /\ popped' = Append(popped, Head(queue))
  /\ queue' = Tail(queue)

Next == (\E v \in Items : Push(v)) \/ Pop

Spec == Init /\ [][Next]_<<queue, popped>>
=============================================================================
