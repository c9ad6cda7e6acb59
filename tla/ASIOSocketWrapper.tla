-------------------------- MODULE ASIOSocketWrapper --------------------------
(***************************************************************************)
(* The lock-free send path of one TCP socket                               *)
(* (libcore/src/network/ASIOSocketWrapper.cpp).                            *)
(*                                                                         *)
(* Any thread may call rawSend.  At most one agent may have an async_send  *)
(* outstanding on the socket: it "holds the torch".  The torch is not a    *)
(* lock but a protocol on one atomic word, mSendingStatus, which counts    *)
(* the threads passing through and carries two flags:                      *)
(* ASYNCHRONOUS_SEND_FLAG (somebody is sending) and QUEUE_CHECK_FLAG       *)
(* (somebody is swapping the queue away, so a chunk pushed now may be      *)
(* missed).  Each action is one atomic operation of the code: an add to    *)
(* mSendingStatus, a push or swap of the mutex-protected mSendQueue, or a  *)
(* call of async_send.                                                     *)
(*                                                                         *)
(* How the bytes of a batch of chunks reach the socket is the subject of   *)
(* module WireBatch; here a completion moves whole chunks to the wire.     *)
(***************************************************************************)
EXTENDS Integers, Sequences, FiniteSets

CONSTANTS
  Senders,      \* threads that call rawSend
  Reactor,      \* the io-service thread, which runs the completion handlers
  MaxChunks,    \* bound: MaxChunks[t] chunks sender t hands to rawSend
  MayFail       \* TRUE: async_send may complete with an error

ASYNCHRONOUS_SEND_FLAG == 536870912     \* 1<<29
QUEUE_CHECK_FLAG       == 1073741824    \* 1<<30

(***************************************************************************)
(* The count in the low bits must never reach the flags.                   *)
(***************************************************************************)
ASSUME SendersAssumption ==
  /\ IsFiniteSet(Senders)
  /\ Cardinality(Senders) < ASYNCHRONOUS_SEND_FLAG
  /\ Reactor \notin Senders

ASSUME BoundsAssumption == MaxChunks \in [Senders -> Nat] /\ MayFail \in BOOLEAN

VARIABLES
  mSendingStatus,  \* the atomic word: passing threads + flags
  mSendQueue,      \* chunks pushed while another agent was sending
  pc,              \* where each agent is in the send path
  toSend,          \* the local deque (or the chunk) an agent carries
  issued,          \* chunks each sender has handed to rawSend so far
  inFlight,        \* the batches of the outstanding async_sends
  wire,            \* chunks the socket has taken, in order
  leaked,          \* the batch whose async_send failed
  seen             \* seen[t][u]: how many rawSends of u had returned when the
                   \* running rawSend of t began (history, for RealTimeOrder)

vars == <<mSendingStatus, mSendQueue, pc, toSend, issued, inFlight, wire,
          leaked, seen>>

-----------------------------------------------------------------------------

Agents == Senders \cup {Reactor}

Chunk == [from : Senders, n : Nat]

Labels == {"idle", "commit", "push", "leave", "volunteer", "back", "reread",
           "torch", "finish", "swap", "release", "promise", "wire",
           "assert_failed"}

HasFlag(status, flag) == (status \div flag) % 2 = 1

Sending(status)    == HasFlag(status, ASYNCHRONOUS_SEND_FLAG)
QueueCheck(status) == HasFlag(status, QUEUE_CHECK_FLAG)

(***************************************************************************)
(* Mutant: a thread leaves whenever somebody is sending, without waiting   *)
(* for the end of a queue check.                                           *)
(***************************************************************************)
RetryLabelHasty(status) ==
  IF Sending(status) THEN "idle"
  ELSE IF QueueCheck(status) THEN "assert_failed" ELSE "volunteer"

(***************************************************************************)
(* The head of the loop of retryQueuedSend for the status just read: leave *)
(* when somebody sends and nobody checks the queue, spin while the queue   *)
(* is being checked, volunteer when nobody sends.  The code asserts that   *)
(* nobody checks the queue without sending.                                *)
(***************************************************************************)
RetryLabel(status) ==
  CASE Sending(status) /\ ~QueueCheck(status) -> "idle"
    [] Sending(status) /\ QueueCheck(status)  -> "reread"
    [] ~Sending(status) /\ ~QueueCheck(status) -> "volunteer"
    [] OTHER -> "assert_failed"

AddStatus(delta) == mSendingStatus' = mSendingStatus + delta

(***************************************************************************)
(* The next step of an agent; its history ends when it returns.            *)
(***************************************************************************)
NothingSeen == [u \in Senders |-> 0]

Goto(a, label) ==
  /\ pc' = [pc EXCEPT ![a] = label]
  /\ seen' = [seen EXCEPT ![a] = IF label = "idle" THEN NothingSeen ELSE @]

Init ==
  /\ mSendingStatus = 0
  /\ mSendQueue = <<>>
  /\ pc = [a \in Agents |-> "idle"]
  /\ toSend = [a \in Agents |-> <<>>]
  /\ issued = [t \in Senders |-> 0]
  /\ inFlight = {}
  /\ wire = <<>>
  /\ leaked = <<>>
  /\ seen = [a \in Agents |-> NothingSeen]

-----------------------------------------------------------------------------
(* rawSend *)

Returned(u) == IF pc[u] = "idle" THEN issued[u] ELSE issued[u] - 1

(***************************************************************************)
(* ++mSendingStatus; the thread that reads 1 is the chosen one.            *)
(***************************************************************************)
RawSend(t) ==
  /\ pc[t] = "idle"
  /\ issued[t] < MaxChunks[t]
  /\ seen' = [seen EXCEPT ![t] = [u \in Senders |-> Returned(u)]]
  /\ issued' = [issued EXCEPT ![t] = @ + 1]
  /\ toSend' = [toSend EXCEPT ![t] = <<[from |-> t, n |-> issued[t] + 1]>>]
  /\ AddStatus(1)
  /\ pc' = [pc EXCEPT ![t] = IF mSendingStatus + 1 = 1 THEN "commit" ELSE "push"]
  /\ UNCHANGED <<mSendQueue, inFlight, wire, leaked>>

CommitSender(t) ==
  /\ pc[t] = "commit"
  /\ AddStatus(ASYNCHRONOUS_SEND_FLAG - 1)
  /\ Goto(t, "wire")
  /\ UNCHANGED <<mSendQueue, toSend, issued, inFlight, wire, leaked>>

(***************************************************************************)
(* Mutant: the chunk is pushed to the front of the queue.                  *)
(***************************************************************************)
PushChunkAtFront(t) ==
  /\ pc[t] = "push"
  /\ mSendQueue' = toSend[t] \o mSendQueue
  /\ toSend' = [toSend EXCEPT ![t] = <<>>]
  /\ Goto(t, "leave")
  /\ UNCHANGED <<mSendingStatus, issued, inFlight, wire, leaked>>

PushChunk(t) ==
  /\ pc[t] = "push"
  /\ mSendQueue' = mSendQueue \o toSend[t]
  /\ toSend' = [toSend EXCEPT ![t] = <<>>]
  /\ Goto(t, "leave")
  /\ UNCHANGED <<mSendingStatus, issued, inFlight, wire, leaked>>

LeaveRawSend(t) ==
  /\ pc[t] = "leave"
  /\ AddStatus(-1)
  /\ Goto(t, RetryLabel(mSendingStatus - 1))
  /\ UNCHANGED <<mSendQueue, toSend, issued, inFlight, wire, leaked>>

-----------------------------------------------------------------------------
(* retryQueuedSend *)

(***************************************************************************)
(* Mutant: a volunteer takes the torch without being alone.                *)
(***************************************************************************)
VolunteerAnyway(t) ==
  /\ pc[t] = "volunteer"
  /\ AddStatus(1)
  /\ Goto(t, IF Sending(mSendingStatus + 1) THEN "back" ELSE "torch")
  /\ UNCHANGED <<mSendQueue, toSend, issued, inFlight, wire, leaked>>

Volunteer(t) ==
  /\ pc[t] = "volunteer"
  /\ AddStatus(1)
  /\ Goto(t, IF mSendingStatus + 1 = 1 THEN "torch" ELSE "back")
  /\ UNCHANGED <<mSendQueue, toSend, issued, inFlight, wire, leaked>>

StandBack(t) ==
  /\ pc[t] = "back"
  /\ AddStatus(-1)
  /\ Goto(t, "reread")
  /\ UNCHANGED <<mSendQueue, toSend, issued, inFlight, wire, leaked>>

RereadStatus(t) ==
  /\ pc[t] = "reread"
  /\ Goto(t, RetryLabel(mSendingStatus))
  /\ UNCHANGED <<mSendingStatus, mSendQueue, toSend, issued, inFlight, wire,
                 leaked>>

TakeTorch(t) ==
  /\ pc[t] = "torch"
  /\ AddStatus(QUEUE_CHECK_FLAG + ASYNCHRONOUS_SEND_FLAG - 1)
  /\ Goto(t, "swap")
  /\ UNCHANGED <<mSendQueue, toSend, issued, inFlight, wire, leaked>>

-----------------------------------------------------------------------------
(* The queue check, which retryQueuedSend and finishAsyncSend share.       *)

SwapQueue(a) ==
  /\ pc[a] = "swap"
  /\ toSend' = [toSend EXCEPT ![a] = mSendQueue]
  /\ mSendQueue' = <<>>
  /\ Goto(a, IF mSendQueue = <<>> THEN "release" ELSE "promise")
  /\ UNCHANGED <<mSendingStatus, issued, inFlight, wire, leaked>>

ReleaseTorch(a) ==
  /\ pc[a] = "release"
  /\ AddStatus(-(ASYNCHRONOUS_SEND_FLAG + QUEUE_CHECK_FLAG))
  /\ Goto(a, "idle")
  /\ UNCHANGED <<mSendQueue, toSend, issued, inFlight, wire, leaked>>

PromiseSend(a) ==
  /\ pc[a] = "promise"
  /\ AddStatus(-QUEUE_CHECK_FLAG)
  /\ Goto(a, "wire")
  /\ UNCHANGED <<mSendQueue, toSend, issued, inFlight, wire, leaked>>

(***************************************************************************)
(* sendToWire: hand the batch to async_send.                               *)
(***************************************************************************)
SendToWire(a) ==
  /\ pc[a] = "wire"
  /\ inFlight' = inFlight \cup {toSend[a]}
  /\ toSend' = [toSend EXCEPT ![a] = <<>>]
  /\ Goto(a, "idle")
  /\ UNCHANGED <<mSendingStatus, mSendQueue, issued, wire, leaked>>

-----------------------------------------------------------------------------
(* The completion handlers, run by the reactor.                            *)

(***************************************************************************)
(* A completion that finished k chunks of the batch: the handler sends the *)
(* rest, or goes on to finishAsyncSend when nothing is left.               *)
(***************************************************************************)
SendCompleted ==
  /\ pc[Reactor] = "idle"
  /\ \E b \in inFlight : \E k \in 1..Len(b) :
       /\ wire' = wire \o SubSeq(b, 1, k)
       /\ IF k = Len(b)
          THEN /\ inFlight' = inFlight \ {b}
               /\ Goto(Reactor, "finish")
          ELSE /\ inFlight' = (inFlight \ {b}) \cup {SubSeq(b, k + 1, Len(b))}
               /\ UNCHANGED <<pc, seen>>
  /\ UNCHANGED <<mSendingStatus, mSendQueue, toSend, issued, leaked>>

(***************************************************************************)
(* A completion with an error: the handler reports the connection error    *)
(* and returns, so the flag stays set and the batch is never freed.        *)
(***************************************************************************)
SendFailed ==
  /\ MayFail
  /\ pc[Reactor] = "idle"
  /\ \E b \in inFlight :
       /\ inFlight' = inFlight \ {b}
       /\ leaked' = b
  /\ UNCHANGED <<mSendingStatus, mSendQueue, pc, toSend, issued, wire, seen>>

FinishAsyncSend ==
  /\ pc[Reactor] = "finish"
  /\ AddStatus(QUEUE_CHECK_FLAG)
  /\ Goto(Reactor, "swap")
  /\ UNCHANGED <<mSendQueue, toSend, issued, inFlight, wire, leaked>>

-----------------------------------------------------------------------------

QueueCheckStep(a) ==
  SwapQueue(a) \/ ReleaseTorch(a) \/ PromiseSend(a) \/ SendToWire(a)

(***************************************************************************)
(* What a sender does once it has entered rawSend.                         *)
(***************************************************************************)
SenderStep(t) ==
  \/ CommitSender(t)
  \/ PushChunk(t)
  \/ LeaveRawSend(t)
  \/ Volunteer(t)
  \/ StandBack(t)
  \/ RereadStatus(t)
  \/ TakeTorch(t)
  \/ QueueCheckStep(t)

ReactorStep == SendCompleted \/ FinishAsyncSend \/ QueueCheckStep(Reactor)

(***************************************************************************)
(* Every chunk has been issued and nothing is left to do.                  *)
(***************************************************************************)
Quiet ==
  /\ \A a \in Agents : pc[a] = "idle"
  /\ inFlight = {}

Finished ==
  /\ Quiet
  /\ \A t \in Senders : issued[t] = MaxChunks[t]
  /\ UNCHANGED vars

Next ==
  \/ \E t \in Senders : RawSend(t) \/ SenderStep(t)
  \/ ReactorStep
  \/ SendFailed
  \/ Finished

Spec == Init /\ [][Next]_vars

(***************************************************************************)
(* Threads that have entered the send path keep running, and the io        *)
(* service completes outstanding sends.  Nobody is obliged to send.        *)
(***************************************************************************)
Fairness ==
  /\ \A t \in Senders : WF_vars(SenderStep(t))
  /\ WF_vars(ReactorStep)

FairSpec == Spec /\ Fairness

-----------------------------------------------------------------------------
(* Properties *)

TypeOK ==
  /\ mSendingStatus \in Nat
  /\ mSendQueue \in Seq(Chunk)
  /\ pc \in [Agents -> Labels]
  /\ toSend \in [Agents -> Seq(Chunk)]
  /\ issued \in [Senders -> Nat]
  /\ inFlight \in SUBSET Seq(Chunk)
  /\ wire \in Seq(Chunk)
  /\ leaked \in Seq(Chunk)
  /\ seen \in [Agents -> [Senders -> Nat]]

TorchLabels == {"commit", "torch", "finish", "swap", "release", "promise",
                "wire"}

(***************************************************************************)
(* Only one agent at a time may be sending: no two agents are between      *)
(* taking the torch and handing their batch to async_send, and none is     *)
(* there while an async_send is outstanding.  Overlapping sends would      *)
(* interleave the bytes of two chunks on the wire and overwrite mBuffer.   *)
(***************************************************************************)
OneTorch ==
  /\ \A a, b \in Agents :
       pc[a] \in TorchLabels /\ pc[b] \in TorchLabels => a = b
  /\ \A a \in Agents : pc[a] \in TorchLabels => inFlight = {}
  /\ \A b, c \in inFlight : b = c

(***************************************************************************)
(* The three assertions of the code hold: finishAsyncSend runs with the    *)
(* send flag set, retryQueuedSend finds it set after taking the torch, and *)
(* nobody is ever seen checking the queue without sending.                 *)
(***************************************************************************)
AssertionsHold ==
  /\ \A a \in Agents : pc[a] # "assert_failed"
  /\ \A a \in Agents : pc[a] \in {"finish", "promise"} => Sending(mSendingStatus)

RetryLabels == {"leave", "volunteer", "back", "reread"}

(***************************************************************************)
(* No lost wake-up: a chunk in mSendQueue is always somebody's business.   *)
(* Either the thread that pushed it is still retrying, or somebody will    *)
(* swap the queue after this moment, or the socket has failed.             *)
(***************************************************************************)
QueuedChunkHasKeeper ==
  \A i \in 1..Len(mSendQueue) :
    \/ pc[mSendQueue[i].from] \in RetryLabels
    \/ \E a \in Agents :
         pc[a] \in {"commit", "torch", "finish", "swap", "promise", "wire"}
    \/ inFlight # {}
    \/ leaked # <<>>

Only(t, s) == SelectSeq(s, LAMBDA c : c.from = t)

Carried == {a \in Agents : pc[a] \in {"commit", "promise", "wire"}}

OneOf(S) == IF S = {} THEN <<>> ELSE CHOOSE x \in S : TRUE

(***************************************************************************)
(* All chunks past the queue or in it, oldest first.                       *)
(***************************************************************************)
Order ==
  wire \o leaked \o OneOf(inFlight) \o OneOf({toSend[a] : a \in Carried})
    \o mSendQueue

(* The chunks of t that have left its hands. *)
HandedOver(t) == 1..(IF pc[t] = "push" THEN issued[t] - 1 ELSE issued[t])

(***************************************************************************)
(* A chunk whose rawSend had returned before another thread began its own  *)
(* is ahead of it.  TCPStream::close() counts on it: the Close is handed   *)
(* to the sockets by one thread after the sends of all the others have     *)
(* returned, and must not overtake their data.                             *)
(***************************************************************************)
RealTimeOrder ==
  \A i, j \in 1..Len(Order) :
    LET c == Order[i]
        d == Order[j]
    IN  i < j /\ pc[c.from] # "idle" /\ c.n = issued[c.from]
          => seen[c.from][d.from] < d.n

(***************************************************************************)
(* The chunks of one sender are neither lost, nor duplicated, nor          *)
(* reordered, whichever of the two paths (chosen, or queued and fetched    *)
(* later by another agent) each of them takes; and chunks of different     *)
(* senders leave in real-time order.                                       *)
(***************************************************************************)
ChunksInOrder ==
  /\ \A t \in Senders :
       /\ \A i, j \in DOMAIN Order :
            i < j /\ Order[i].from = t /\ Order[j].from = t => Order[i].n < Order[j].n
       /\ {Order[i].n : i \in {k \in DOMAIN Order : Order[k].from = t}} = HandedOver(t)
  /\ RealTimeOrder

Delivered(t) == Len(Only(t, wire)) = issued[t]

(***************************************************************************)
(* Threads that keep volunteering at the same time can all read a count    *)
(* above 1 and stand back.                                                 *)
(***************************************************************************)
Collision == \E t \in Senders : pc[t] = "back"

(***************************************************************************)
(* Every chunk handed to rawSend reaches the wire, unless a send fails or  *)
(* volunteers collide for ever.                                            *)
(***************************************************************************)
SentUnlessLivelock ==
  \/ []<>Collision
  \/ <>(leaked # <<>>)
  \/ \A t \in Senders : []<>Delivered(t)

(***************************************************************************)
(* What the comment on retryQueuedSend promises: when no data is being     *)
(* sent the retrying thread takes up the torch, so every chunk is sent.    *)
(***************************************************************************)
EveryChunkSent == \A t \in Senders : []<>Delivered(t)
=============================================================================
