------------------------------ MODULE TCPStream ------------------------------
(***************************************************************************)
(* Sending on a stream against closing it                                  *)
(* (TCPStream::send and TCPStream::closeSendStatus in                      *)
(* libcore/src/network/TCPStream.cpp).                                     *)
(*                                                                         *)
(* After a Close (or the Ack of one) has been sent, the peer treats the id *)
(* of the stream as unused, so no data packet may follow it.  The two are  *)
(* kept apart by one atomic word, mSendStatus: a sender counts itself in   *)
(* for as long as it sends, and a closer adds SendStatusClosing, unless it *)
(* sees it there already, and spins until the count is zero.  Seeing and   *)
(* adding are two steps, so the flag may be added more than once; the code *)
(* allows for three.                                                       *)
(***************************************************************************)
EXTENDS Integers, Sequences, FiniteSets

CONSTANTS
  Senders,     \* threads that call send()
  Closers,     \* threads that close the stream: users, and the reactor on Close
  MaxSends     \* bound: calls of send() by each sender

SendStatusClosing == 536870912     \* 1<<29

ASSUME ClosersAssumption == IsFiniteSet(Closers) /\ Cardinality(Closers) <= 3

ASSUME StreamAssumption ==
  /\ IsFiniteSet(Senders)
  /\ Cardinality(Senders) < SendStatusClosing
  /\ Senders \cap Closers = {}
  /\ MaxSends \in Nat

VARIABLES
  mSendStatus,   \* the atomic word: senders inside + flags
  pc,            \* where each thread is
  sends,         \* calls of send() each sender has made
  out            \* what reached the sockets: the sender of a data packet, or
                 \* the closer of a control packet

vars == <<mSendStatus, pc, sends, out>>

-----------------------------------------------------------------------------

Threads == Senders \cup Closers

Labels == {"idle", "send", "leave", "read", "add", "wait", "announce", "closed"}

Closing(s) == (s \div SendStatusClosing) % 4 # 0

Goto(t, label) == pc' = [pc EXCEPT ![t] = label]

Init ==
  /\ mSendStatus = 0
  /\ pc = [t \in Threads |-> "idle"]
  /\ sends = [t \in Senders |-> 0]
  /\ out = <<>>

(***************************************************************************)
(* Mutant: the status is looked at before counting in.                     *)
(***************************************************************************)
EnterSendUnchecked(t) ==
  /\ pc[t] = "idle"
  /\ sends[t] < MaxSends
  /\ sends' = [sends EXCEPT ![t] = @ + 1]
  /\ mSendStatus' = mSendStatus + 1
  /\ Goto(t, "send")
  /\ UNCHANGED out

(***************************************************************************)
(* send(): count in; the value read decides whether the packet goes out.   *)
(***************************************************************************)
EnterSend(t) ==
  /\ pc[t] = "idle"
  /\ sends[t] < MaxSends
  /\ sends' = [sends EXCEPT ![t] = @ + 1]
  /\ mSendStatus' = mSendStatus + 1
  /\ Goto(t, IF Closing(mSendStatus + 1) THEN "leave" ELSE "send")
  /\ UNCHANGED out

SendBytes(t) ==
  /\ pc[t] = "send"
  /\ out' = Append(out, t)
  /\ Goto(t, "leave")
  /\ UNCHANGED <<mSendStatus, sends>>

LeaveSend(t) ==
  /\ pc[t] = "leave"
  /\ mSendStatus' = mSendStatus - 1
  /\ Goto(t, "idle")
  /\ UNCHANGED <<sends, out>>

(***************************************************************************)
(* closeSendStatus(): read, add unless closing already, wait until only    *)
(* flags are left.                                                         *)
(***************************************************************************)
ReadStatus(c) ==
  /\ pc[c] = "idle"
  /\ Goto(c, IF Closing(mSendStatus) THEN "wait" ELSE "add")
  /\ UNCHANGED <<mSendStatus, sends, out>>

AddClosing(c) ==
  /\ pc[c] = "add"
  /\ mSendStatus' = mSendStatus + SendStatusClosing
  /\ Goto(c, "wait")
  /\ UNCHANGED <<sends, out>>

(***************************************************************************)
(* Mutant: the flag is expected to be there once only.                     *)
(***************************************************************************)
WaitForOneFlag(c) ==
  /\ pc[c] = "wait"
  /\ mSendStatus = SendStatusClosing
  /\ Goto(c, "announce")
  /\ UNCHANGED <<mSendStatus, sends, out>>

WaitForSenders(c) ==
  /\ pc[c] = "wait"
  /\ mSendStatus \in {SendStatusClosing, 2 * SendStatusClosing,
                      3 * SendStatusClosing}
  /\ Goto(c, "announce")
  /\ UNCHANGED <<mSendStatus, sends, out>>

(***************************************************************************)
(* closeStream(): the Close of a user, or the Ack of the reactor.          *)
(***************************************************************************)
Announce(c) ==
  /\ pc[c] = "announce"
  /\ out' = Append(out, c)
  /\ Goto(c, "closed")
  /\ UNCHANGED <<mSendStatus, sends>>

SenderStep(t) == SendBytes(t) \/ LeaveSend(t)

CloserStep(c) == AddClosing(c) \/ WaitForSenders(c) \/ Announce(c)

Next ==
  \/ \E t \in Senders : EnterSend(t) \/ SenderStep(t)
  \/ \E c \in Closers : ReadStatus(c) \/ CloserStep(c)

Spec == Init /\ [][Next]_vars

(***************************************************************************)
(* Threads inside send() or closeSendStatus() keep running.                *)
(***************************************************************************)
FairSpec ==
  /\ Spec
  /\ \A t \in Senders : WF_vars(SenderStep(t))
  /\ \A c \in Closers : WF_vars(CloserStep(c))

-----------------------------------------------------------------------------
(* Properties *)

TypeOK ==
  /\ mSendStatus \in Nat
  /\ pc \in [Threads -> Labels]
  /\ sends \in [Senders -> 0..MaxSends]
  /\ out \in Seq(Threads)

(***************************************************************************)
(* No data packet of the stream follows a control packet that closes it.   *)
(***************************************************************************)
NoDataAfterClose ==
  \A i, j \in 1..Len(out) : i < j /\ out[i] \in Closers => out[j] \notin Senders

(***************************************************************************)
(* Once a closer has come out of closeSendStatus nobody is sending.        *)
(***************************************************************************)
ClosedMeansQuiet ==
  (\E c \in Closers : pc[c] \in {"announce", "closed"}) =>
    \A t \in Senders : pc[t] # "send"

(***************************************************************************)
(* Every closer comes through, however the closers and the senders         *)
(* interleave, when each sender makes finitely many calls.                 *)
(***************************************************************************)
CloseReturns ==
  \A c \in Closers : pc[c] \in {"add", "wait"} ~> pc[c] = "closed"
=============================================================================
