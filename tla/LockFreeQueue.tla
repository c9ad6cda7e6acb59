--------------------------- MODULE LockFreeQueue ----------------------------
(***************************************************************************)
(* LockFreeQueue (libcore/src/util/LockFreeQueue.hpp): a linked list of    *)
(* nodes with a head node that holds no item, changed by compare-and-swap, *)
(* and a pool of free nodes.  push() and pop() are called by any thread;   *)
(* a NodeIterator takes the whole list with fork() and walks through it,   *)
(* which is how the event system empties its queues when it is built with  *)
(* USE_LOCK_FREE (off in EventManager.hpp).                                *)
(*                                                                         *)
(* A step makes at most one access to memory that other threads write; a   *)
(* node that belongs to one thread is filled in one step.  Accesses take   *)
(* place in program order: the pointers are volatile and the               *)
(* compare-and-swap of the compiler is a full barrier.                     *)
(***************************************************************************)
EXTENDS Integers, SequencesExt, FiniteSets, TLC

CONSTANTS
  Threads,
  Items,          \* what is pushed
  Programs,       \* what may run: the calls of each thread, an item to push, DoPop or
                  \* DoFork, and how many items were pushed and popped before that
  DoPop, DoFork,
  MaxNodes        \* bound: nodes that new may give

NULL == 0
Nodes == 1..MaxNodes
NoItem == "noitem"

VARIABLES
  program,        \* the calls of the one of the Programs that runs
  next, content,  \* the nodes
  fresh,          \* nodes given by new
  free,           \* mFreeNodePool.mHead->mNext
  mHead, mTail,
  th,             \* the threads: pc, calls made, and their local variables
  out,            \* what each thread has got from pop() and next()
  owed,           \* ghost: pushes that had returned when a call began
  overtaken,      \* ghost: fork() took the tail from a push() that had read it
  recycled        \* ghost: a compare-and-swap took a node that has been through
                  \* the pool for what it was before

ghosts == <<owed, overtaken, recycled>>
memory == <<next, content, fresh, free, mHead, mTail>>
vars == <<program, memory, th, out, ghosts>>

Idle == [pc |-> "idle", node |-> NULL, nodeNext |-> NULL, newNode |-> NULL,
         formerHead |-> NULL, formerTail |-> NULL, formerNext |-> NULL, value |-> NoItem,
         last |-> NULL, current |-> NULL]

(***************************************************************************)
(* After k items have been pushed and then popped, the nodes before the    *)
(* head are in the pool, the one released last in front.                   *)
(***************************************************************************)
Drained(k) ==
  /\ next = [n \in Nodes |-> IF n \in 2..k THEN n - 1 ELSE NULL]
  /\ content = [n \in Nodes |-> IF k > 0 /\ n = k + 1 THEN CHOOSE v \in Items : TRUE ELSE NoItem]
  /\ fresh = k + 1 /\ free = k
  /\ mHead = k + 1 /\ mTail = k + 1

Init ==
  /\ \E r \in Programs : Drained(r.drained) /\ program = r.calls
  /\ th = [p \in Threads |-> Idle @@ [call |-> 1]]
  /\ out = [p \in Threads |-> <<>>]
  /\ owed = [p \in Threads |-> 0] /\ overtaken = FALSE /\ recycled = FALSE

Call(p) == program[p][th[p].call]
Pushing(p) == Call(p) \notin {DoPop, DoFork}

-----------------------------------------------------------------------------
(***************************************************************************)
(* A compare-and-swap sees that a pointer is what it was, not that the     *)
(* node it leads to has been released and used again meanwhile.            *)
(***************************************************************************)
Recycles(outOfDate) == recycled' = (recycled \/ outOfDate) /\ UNCHANGED <<owed, overtaken>>

(* Steps change the fields of one thread. *)
Goto(p, pc) == th' = [th EXCEPT ![p].pc = pc]

(* The call returns: the local variables are gone. *)
Return(p) == th' = [th EXCEPT ![p] = Idle @@ [call |-> @.call + 1]]

PushesReturned ==
  Cardinality({<<p, k>> \in Threads \X (1..MaxNodes) :
                 k < th[p].call /\ program[p][k] \notin {DoPop, DoFork}})

Begin(p) ==
  /\ th[p].pc = "idle" /\ th[p].call <= Len(program[p])
  /\ Goto(p, IF Call(p) = DoPop THEN "readHead" ELSE "allocate")
  /\ owed' = [owed EXCEPT ![p] = IF Pushing(p) THEN 0 ELSE PushesReturned]
  /\ UNCHANGED <<program, memory, out, overtaken, recycled>>

-----------------------------------------------------------------------------
(* FreeNodePool::allocate *)

AllocateRead(p) ==
  /\ th[p].pc = "allocate"
  /\ IF free # NULL
     THEN th' = [th EXCEPT ![p].node = free, ![p].pc = "allocateNext"] /\ fresh' = fresh
     ELSE /\ fresh < MaxNodes
          /\ fresh' = fresh + 1
          /\ th' = [th EXCEPT ![p].newNode = fresh + 1, ![p].pc = "fill"]
  /\ UNCHANGED <<program, next, content, free, mHead, mTail, out, ghosts>>

AllocateNext(p) ==
  /\ th[p].pc = "allocateNext"
  /\ th' = [th EXCEPT ![p].nodeNext = next[th[p].node], ![p].pc = "allocateSwap"]
  /\ UNCHANGED <<program, memory, out, ghosts>>

AllocateSwap(p) ==
  /\ th[p].pc = "allocateSwap"
  /\ IF free = th[p].node
     THEN /\ free' = th[p].nodeNext
          /\ th' = [th EXCEPT ![p].newNode = th[p].node, ![p].pc = "fill"]
     ELSE free' = free /\ Goto(p, "allocate")
  /\ Recycles(free = th[p].node /\ th[p].nodeNext # next[th[p].node])
  /\ UNCHANGED <<program, next, content, fresh, mHead, mTail, out>>

(* The node belongs to the thread; push() puts its value into it. *)
Fill(p) ==
  /\ th[p].pc = "fill"
  /\ next' = [next EXCEPT ![th[p].newNode] = NULL]
  /\ content' = [content EXCEPT ![th[p].newNode] = IF Pushing(p) THEN Call(p) ELSE NoItem]
  /\ Goto(p, IF Pushing(p) THEN "readTail" ELSE "forkHead")
  /\ UNCHANGED <<program, fresh, free, mHead, mTail, out, ghosts>>

(* FreeNodePool::release of local variable node; then the caller goes on. *)
ReleaseClear(p) ==
  /\ th[p].pc = "release"
  /\ content' = [content EXCEPT ![th[p].node] = NoItem]
  /\ Goto(p, "releaseRead")
  /\ UNCHANGED <<program, next, fresh, free, mHead, mTail, out, ghosts>>

ReleaseRead(p) ==
  /\ th[p].pc = "releaseRead"
  /\ next' = [next EXCEPT ![th[p].node] = free]
  /\ Goto(p, "releaseSwap")
  /\ UNCHANGED <<program, content, fresh, free, mHead, mTail, out, ghosts>>

ReleaseSwap(p) ==
  /\ th[p].pc = "releaseSwap"
  /\ IF free = next[th[p].node]
     THEN /\ free' = th[p].node
          /\ IF Call(p) = DoPop THEN Return(p) ELSE Goto(p, "walk")
     ELSE free' = free /\ Goto(p, "releaseRead")
  /\ UNCHANGED <<program, next, content, fresh, mHead, mTail, out, ghosts>>

-----------------------------------------------------------------------------
(* push *)

ReadTail(p) ==
  /\ th[p].pc = "readTail"
  /\ th' = [th EXCEPT ![p].formerTail = mTail, ![p].pc = "readTailNext"]
  /\ UNCHANGED <<program, memory, out, ghosts>>

ReadTailNext(p) ==
  /\ th[p].pc = "readTailNext"
  /\ th' = [th EXCEPT ![p].formerNext = next[th[p].formerTail], ![p].pc = "checkTail"]
  /\ UNCHANGED <<program, memory, out, ghosts>>

CheckTail(p) ==
  /\ th[p].pc = "checkTail"
  /\ Goto(p, CASE mTail # th[p].formerTail -> "readTail"
               [] mTail = th[p].formerTail /\ th[p].formerNext = NULL -> "locate"
               [] OTHER -> "advanceTail")
  /\ UNCHANGED <<program, memory, out, ghosts>>

(* &mTail->mNext: mTail is read once more, *)
Locate(p) ==
  /\ th[p].pc = "locate"
  /\ th' = [th EXCEPT ![p].node = mTail, ![p].pc = "addNode"]
  /\ UNCHANGED <<program, memory, out, ghosts>>

(* Mutant: the node is linked without a comparison. *)
AddNodeBlindly(p) ==
  /\ th[p].pc = "addNode"
  /\ next' = [next EXCEPT ![th[p].node] = th[p].newNode] /\ Goto(p, "swingTail")
  /\ UNCHANGED <<program, content, fresh, free, mHead, mTail, out, ghosts>>

(* ... and the node is linked behind it, if it is still the last one. *)
AddNode(p) ==
  /\ th[p].pc = "addNode"
  /\ IF next[th[p].node] = NULL
     THEN next' = [next EXCEPT ![th[p].node] = th[p].newNode] /\ Goto(p, "swingTail")
     ELSE next' = next /\ Goto(p, "readTail")
  /\ Recycles(next[th[p].node] = NULL /\ mTail # th[p].node)
  /\ UNCHANGED <<program, content, fresh, free, mHead, mTail, out>>

(* mTail lags behind: help it on, in push() and in pop(). *)
AdvanceTail(p) ==
  /\ th[p].pc = "advanceTail"
  /\ mTail' = IF mTail = th[p].formerTail THEN th[p].formerNext ELSE mTail
  /\ Goto(p, IF Call(p) = DoPop THEN "readHead" ELSE "readTail")
  /\ Recycles(mTail = th[p].formerTail /\ next[th[p].formerTail] # th[p].formerNext)
  /\ UNCHANGED <<program, next, content, fresh, free, mHead, out>>

SwingTail(p) ==
  /\ th[p].pc = "swingTail"
  /\ mTail' = IF mTail = th[p].formerTail THEN th[p].newNode ELSE mTail
  /\ Return(p)
  /\ Recycles(mTail = th[p].formerTail /\ next[th[p].formerTail] # th[p].newNode)
  /\ UNCHANGED <<program, next, content, fresh, free, mHead, out>>

-----------------------------------------------------------------------------
(* pop *)

ReadHead(p) ==
  /\ th[p].pc = "readHead" /\ mHead # NULL
  /\ th' = [th EXCEPT ![p].formerHead = mHead, ![p].pc = "readHeadNext"]
  /\ UNCHANGED <<program, memory, out, ghosts>>

ReadHeadNext(p) ==
  /\ th[p].pc = "readHeadNext"
  /\ th' = [th EXCEPT ![p].formerNext = next[th[p].formerHead], ![p].pc = "popTail"]
  /\ UNCHANGED <<program, memory, out, ghosts>>

PopReadTail(p) ==
  /\ th[p].pc = "popTail"
  /\ th' = [th EXCEPT ![p].formerTail = mTail, ![p].pc = "checkHead"]
  /\ UNCHANGED <<program, memory, out, ghosts>>

CheckHead(p) ==
  /\ th[p].pc = "checkHead"
  /\ CASE mHead # th[p].formerHead -> Goto(p, "readHead") /\ out' = out
       [] mHead = th[p].formerHead /\ th[p].formerHead # th[p].formerTail ->
            Goto(p, "readValue") /\ out' = out
       [] mHead = th[p].formerHead /\ th[p].formerHead = th[p].formerTail
          /\ th[p].formerNext # NULL -> Goto(p, "advanceTail") /\ out' = out
       [] OTHER -> Return(p) /\ out' = [out EXCEPT ![p] = Append(@, NoItem)]
  /\ UNCHANGED <<program, memory, ghosts>>

(* formerHeadNext may be NULL: it was read before mTail, and a push() that   *)
(* came in between has moved mTail.                                          *)
ReadValue(p) ==
  /\ th[p].pc = "readValue"
  /\ IF th[p].formerNext = NULL THEN Goto(p, "crashed")
     ELSE th' = [th EXCEPT ![p].value = content[th[p].formerNext], ![p].pc = "swingHead"]
  /\ UNCHANGED <<program, memory, out, ghosts>>

SwingHead(p) ==
  /\ th[p].pc = "swingHead"
  /\ IF mHead = th[p].formerHead
     THEN /\ mHead' = th[p].formerNext
          /\ out' = [out EXCEPT ![p] = Append(@, th[p].value)]
          /\ th' = [th EXCEPT ![p].node = th[p].formerHead, ![p].pc = "release"]
     ELSE UNCHANGED <<mHead, out>> /\ Goto(p, "readHead")
  /\ Recycles(mHead = th[p].formerHead /\ next[th[p].formerHead] # th[p].formerNext)
  /\ UNCHANGED <<program, next, content, fresh, free, mTail>>

-----------------------------------------------------------------------------
(* fork, and the NodeIterator *)

(* mHead = NULL keeps the others out of fork() and pop(), *)
ForkReadHead(p) ==
  /\ th[p].pc = "forkHead" /\ mHead # NULL
  /\ th' = [th EXCEPT ![p].formerHead = mHead, ![p].pc = "forkTakeHead"]
  /\ UNCHANGED <<program, memory, out, ghosts>>

ForkTakeHead(p) ==
  /\ th[p].pc = "forkTakeHead"
  /\ IF mHead = th[p].formerHead THEN mHead' = NULL /\ Goto(p, "forkTail")
     ELSE mHead' = mHead /\ Goto(p, "forkHead")
  /\ UNCHANGED <<program, next, content, fresh, free, mTail, out, ghosts>>

(* ... the tail is exchanged, *)
ForkReadTail(p) ==
  /\ th[p].pc = "forkTail"
  /\ th' = [th EXCEPT ![p].formerTail = mTail, ![p].pc = "forkTakeTail"]
  /\ UNCHANGED <<program, memory, out, ghosts>>

(* Mutant: mTail is not read again before the next try. *)
ForkTakeTailOnce(p) ==
  /\ th[p].pc = "forkTakeTail"
  /\ IF mTail = th[p].formerTail THEN mTail' = th[p].newNode /\ Goto(p, "forkSetHead")
     ELSE mTail' = mTail /\ Goto(p, "forkTakeTail")
  /\ overtaken' = overtaken
  /\ UNCHANGED <<program, next, content, fresh, free, mHead, out, owed, recycled>>

ForkTakeTail(p) ==
  /\ th[p].pc = "forkTakeTail"
  /\ IF mTail = th[p].formerTail THEN mTail' = th[p].newNode /\ Goto(p, "forkSetHead")
     ELSE mTail' = mTail /\ Goto(p, "forkTail")
  /\ overtaken' = (overtaken \/ (mTail = th[p].formerTail
                                 /\ \E q \in Threads : th[q].formerTail # NULL /\ Pushing(q)))
  /\ UNCHANGED <<program, next, content, fresh, free, mHead, out, owed, recycled>>

(* ... and the head is set to the new, empty list. *)
ForkSetHead(p) ==
  /\ th[p].pc = "forkSetHead"
  /\ mHead' = th[p].newNode
  /\ th' = [th EXCEPT ![p].last = th[p].formerHead, ![p].pc = "iterate"]
  /\ UNCHANGED <<program, next, content, fresh, free, mTail, out, ghosts>>

(* NodeIterator: mCurrent is the first node with an item. *)
Iterate(p) ==
  /\ th[p].pc = "iterate"
  /\ th' = [th EXCEPT ![p].current = next[th[p].last], ![p].node = th[p].last, ![p].pc = "release"]
  /\ UNCHANGED <<program, memory, out, ghosts>>

(* Mutant: a node without a successor is taken for the end. *)
WalkShort(p) ==
  /\ th[p].pc = "walk"
  /\ IF th[p].current = NULL THEN Return(p) /\ out' = out
     ELSE IF next[th[p].current] = NULL THEN Return(p) /\ out' = out
     ELSE /\ out' = [out EXCEPT ![p] = Append(@, content[th[p].current])]
          /\ th' = [th EXCEPT ![p].node = th[p].current, ![p].current = next[th[p].current],
                              ![p].pc = "release"]
  /\ UNCHANGED <<program, memory, ghosts>>

(* next(): the last node has been released; here is the next one, or the end. *)
Walk(p) ==
  /\ th[p].pc = "walk"
  /\ IF th[p].current = NULL THEN Return(p) /\ out' = out
     ELSE /\ out' = [out EXCEPT ![p] = Append(@, content[th[p].current])]
          /\ th' = [th EXCEPT ![p].node = th[p].current, ![p].current = next[th[p].current],
                              ![p].pc = "release"]
  /\ UNCHANGED <<program, memory, ghosts>>

-----------------------------------------------------------------------------
Step(p) ==
  \/ AllocateRead(p) \/ AllocateNext(p) \/ AllocateSwap(p) \/ Fill(p)
  \/ ReleaseClear(p) \/ ReleaseRead(p) \/ ReleaseSwap(p)
  \/ ReadTail(p) \/ ReadTailNext(p) \/ CheckTail(p) \/ Locate(p) \/ AddNode(p)
  \/ AdvanceTail(p) \/ SwingTail(p)
  \/ ReadHead(p) \/ ReadHeadNext(p) \/ PopReadTail(p) \/ CheckHead(p) \/ ReadValue(p)
  \/ SwingHead(p)
  \/ ForkReadHead(p) \/ ForkTakeHead(p) \/ ForkReadTail(p) \/ ForkTakeTail(p)
  \/ ForkSetHead(p) \/ Iterate(p) \/ Walk(p)

(* A null pointer stops the program. *)
Stopped == \E p \in Threads : th[p].pc = "crashed"

Next == ~Stopped /\ \E p \in Threads : Begin(p) \/ Step(p)

Spec == Init /\ [][Next]_vars

(* A thread that has begun a call goes on with it. *)
FairSpec == Spec /\ \A p \in Threads : WF_vars(~Stopped /\ (Begin(p) \/ Step(p)))

-----------------------------------------------------------------------------
(* Properties *)

(* The items in the nodes behind n. *)
Chain(n) ==
  LET node[k \in 1..MaxNodes] ==
        IF k = 1 THEN next[n]
        ELSE IF node[k - 1] = NULL THEN NULL ELSE next[node[k - 1]]
  IN  [k \in 1..Cardinality({j \in 1..MaxNodes : node[j] # NULL}) |-> content[node[k]]]

(* What a consumer finds ahead of it; of a list that it has forked, too. *)
Ahead ==
  LET F == {p \in Threads : th[p].pc \in {"forkTail", "forkTakeTail", "forkSetHead", "iterate",
                                         "release", "releaseRead", "releaseSwap", "walk"}
                            /\ Call(p) = DoFork}
  IN  IF F = {} THEN Chain(mHead)
      ELSE LET t == th[CHOOSE p \in F : TRUE]
           IN  CASE t.pc \in {"forkTail", "forkTakeTail"} -> Chain(t.formerHead)
                 [] t.pc = "forkSetHead" -> Chain(t.formerHead) \o Chain(t.newNode)
                 [] t.pc = "iterate" -> Chain(t.last) \o Chain(mHead)
                 [] OTHER -> (IF t.current = NULL THEN <<>>
                              ELSE <<content[t.current]>> \o Chain(t.current)) \o Chain(mHead)

Popped(p) == SelectSeq(out[p], LAMBDA v : v # NoItem)

Consumers == {p \in Threads : ToSet(program[p]) \cap {DoPop, DoFork} # {}}
Consumer == CHOOSE p \in Consumers : TRUE

Fifo == INSTANCE FifoQueue WITH queue <- Ahead, popped <- Popped(Consumer)

(* With one consumer, the queue is a FIFO queue: items are popped, or come   *)
(* out of the iterator, in the order in which push() linked them, and none   *)
(* is lost, although nodes are reused and mTail lags behind.  There are two  *)
(* ways to lose one: fork() takes the tail from a push() that has read it,   *)
(* or a compare-and-swap takes a node that has been through the pool for     *)
(* what it was (push, pop, fork, NodeIterator, FreeNodePool).                *)
FifoUnlessMistaken ==
  /\ Fifo!Init
  /\ [][Cardinality(Consumers) = 1 => Fifo!Next \/ overtaken' \/ recycled']_
       <<Ahead, Popped(Consumer)>>

(* A pop() that finds nothing and an iterator that comes to its end have     *)
(* missed no item whose push() had returned before they were called.         *)
Missed ==
  \E p \in Threads :
    /\ th[p].pc # "idle" /\ th'[p].pc = "idle" /\ ~Pushing(p)
    /\ Call(p) = DoPop => Last(out'[p]) = NoItem
    /\ Len(Popped(p))' < owed[p]

NoneMissed == [][Cardinality(Consumers) = 1 /\ Missed => overtaken \/ recycled]_vars

(* "thread-safe push() and pop() functions": the same without the exception. *)
NoneEverMissed == [][Cardinality(Consumers) = 1 => ~Missed]_vars

(* Every call returns, whatever the others do, unless a null pointer stops   *)
(* the program or a push() was overtaken or a node mistaken (the retry       *)
(* loops, and the wait for fork() in pop() and fork()).                      *)
CallsReturn ==
  []<>(overtaken \/ recycled \/ Stopped \/ \A p \in Threads : th[p].pc = "idle")
=============================================================================
