----------------------- MODULE ASIOConnectAndHandshake -----------------------
(***************************************************************************)
(* Bringing up the connector's end of a connection                         *)
(* (libcore/src/network/ASIOConnectAndHandshake.cpp) while users already   *)
(* send on it (sendBytes, CommitCallbacks and the connection callbacks of  *)
(* MultiplexedSocket.cpp).                                                 *)
(*                                                                         *)
(* The reactor resolves the host, connects every socket, sends a protocol  *)
(* header on each and reads one back; when all the headers are in and      *)
(* agree it changes the connection to CONNECTED and calls the Connected    *)
(* callbacks.  Users may send from the start: until the phase is CONNECTED *)
(* their requests wait in mNewRequests, which the reactor empties partly   *)
(* without and finally with sConnectingMutex held.                         *)
(*                                                                         *)
(* Every handler runs on the one reactor thread, so no handler begins      *)
(* before the CommitCallbacks of the previous one has ended; user threads  *)
(* run in between its steps.                                               *)
(***************************************************************************)
EXTENDS Integers, Sequences, FiniteSets

CONSTANTS
  NumSockets,    \* TCP sockets per connection (3 in the code)
  Addresses,     \* how many addresses the host name resolves to
  Failures,      \* what may go wrong in a run, out of FailureKinds
  Users,         \* threads that call sendBytes
  MaxRequests,   \* bound: requests each user sends
  MaxReceived,   \* bound: packets that arrive during the run
  Clones         \* streams a user clones from the first one

FailureKinds == {"resolve", "connect", "mismatch", "header", "socket"}

ASSUME HandshakeAssumption ==
  /\ NumSockets \in Nat \ {0} /\ Addresses \in Nat \ {0}
  /\ Failures \subseteq FailureKinds
  /\ MaxRequests \in Nat /\ MaxReceived \in Nat

VARIABLES
  sock,                    \* what each socket waits for
  tries,                   \* addresses a socket has not tried yet
  mFinishedCheckCount,     \* headers still to be checked, negative after a failure
  mFirstReceivedHeader,
  header,                  \* the header a socket did receive (history)
  mSocketConnectionPhase,
  mNewRequests,            \* requests waiting for the connection
  mCallbackRegistration,   \* streams whose callbacks wait for the reactor
  mCallbacks,              \* streams whose callbacks the reactor knows
  commit,                  \* the CommitCallbacks the reactor is in
  events,                  \* connection callbacks of each stream, in order
  askedIn,                 \* the phase addCallbacks returned for a stream
  pc, issued,              \* the users, and the requests each has made
  out,                     \* requests given to sendBytesNow
  arrived                  \* packets received so far

handshakeVars == <<sock, tries, mFinishedCheckCount, mFirstReceivedHeader,
                   header, arrived>>
registryVars  == <<mCallbackRegistration, mCallbacks, events>>
userVars      == <<pc, issued>>

vars == <<handshakeVars, mSocketConnectionPhase, mNewRequests, registryVars,
          commit, askedIn, userVars, out>>

-----------------------------------------------------------------------------

Sockets  == 0..(NumSockets - 1)
First    == "first"
Streams  == {First} \cup Clones
NoHeader == "none"

(***************************************************************************)
(* What a buffer for a header may hold: the header the peer answers with,  *)
(* or anything else.                                                       *)
(***************************************************************************)
TheHeader == "header"
Contents  == {TheHeader, "garbage"}

NoCommit == [step |-> "idle", status |-> "PRECONNECTION", set |-> FALSE,
             event |-> "none", batch |-> <<>>, was |-> "PRECONNECTION"]

(***************************************************************************)
(* connectionFailureOrSuccessCallback: CommitCallbacks with a new status,  *)
(* to be followed by the connection callbacks.                             *)
(***************************************************************************)
Report(status, event) ==
  commit' = [NoCommit EXCEPT !.step = "start", !.status = status,
                             !.set = TRUE, !.event = event]

ReactorIdle == commit.step = "idle"
MutexFree   == commit.step # "flush"

Init ==
  /\ sock = [s \in Sockets |-> "resolving"]
  /\ tries = [s \in Sockets |-> Addresses]
  /\ mFinishedCheckCount = NumSockets
  /\ mFirstReceivedHeader = NoHeader
  /\ header = [s \in Sockets |-> NoHeader]
  /\ mSocketConnectionPhase = "PRECONNECTION"
  /\ mNewRequests = <<>>
  /\ mCallbackRegistration = <<First>>
  /\ mCallbacks = {}
  /\ commit = NoCommit
  /\ events = [g \in Streams |-> <<>>]
  /\ askedIn = [g \in Streams |-> IF g = First THEN "PRECONNECTION" ELSE "none"]
  /\ pc = [t \in Users |-> "idle"]
  /\ issued = [t \in Users |-> 0]
  /\ out = <<>>
  /\ arrived = 0

-----------------------------------------------------------------------------
(* The handlers of ASIOConnectAndHandshake *)

handlerRest == <<mSocketConnectionPhase, mNewRequests, registryVars, askedIn,
                 userVars, out>>

(***************************************************************************)
(* handleResolve: every socket tries the first address.                    *)
(***************************************************************************)
Resolved ==
  /\ ReactorIdle
  /\ \A s \in Sockets : sock[s] = "resolving"
  /\ sock' = [s \in Sockets |-> "connecting"]
  /\ tries' = [s \in Sockets |-> Addresses - 1]
  /\ UNCHANGED <<mFinishedCheckCount, mFirstReceivedHeader, header, arrived,
                 commit, handlerRest>>

(***************************************************************************)
(* Mutant: after the failure the sockets are connected all the same.       *)
(***************************************************************************)
ResolveFailsGoesOn ==
  /\ "resolve" \in Failures
  /\ ReactorIdle
  /\ \A s \in Sockets : sock[s] = "resolving"
  /\ sock' = [s \in Sockets |-> "connecting"]
  /\ Report("DISCONNECTED", "ConnectionFailed")
  /\ UNCHANGED <<tries, mFinishedCheckCount, mFirstReceivedHeader, header,
                 arrived, handlerRest>>

ResolveFails ==
  /\ "resolve" \in Failures
  /\ ReactorIdle
  /\ \A s \in Sockets : sock[s] = "resolving"
  /\ sock' = [s \in Sockets |-> "refused"]
  /\ Report("DISCONNECTED", "ConnectionFailed")
  /\ UNCHANGED <<tries, mFinishedCheckCount, mFirstReceivedHeader, header,
                 arrived, handlerRest>>

(***************************************************************************)
(* connectToIPAddress: on success the header goes out and the peer's is    *)
(* awaited; on failure the next address is tried, and the first socket to  *)
(* run out of addresses reports the failure of the connection.             *)
(***************************************************************************)
ConnectSucceeds(s) ==
  /\ ReactorIdle
  /\ sock[s] = "connecting"
  /\ sock' = [sock EXCEPT ![s] = "header"]
  /\ UNCHANGED <<tries, mFinishedCheckCount, mFirstReceivedHeader, header,
                 arrived, commit, handlerRest>>

ConnectFails(s) ==
  /\ "connect" \in Failures
  /\ ReactorIdle
  /\ sock[s] = "connecting"
  /\ IF tries[s] > 0
     THEN /\ tries' = [tries EXCEPT ![s] = @ - 1]
          /\ UNCHANGED <<sock, mFinishedCheckCount, commit>>
     ELSE /\ sock' = [sock EXCEPT ![s] = "refused"]
          /\ IF mFinishedCheckCount >= 1
             THEN /\ mFinishedCheckCount' = mFinishedCheckCount - NumSockets - 1
                  /\ Report("DISCONNECTED", "ConnectionFailed")
             ELSE /\ mFinishedCheckCount' = mFinishedCheckCount - 1
                  /\ UNCHANGED commit
          /\ UNCHANGED tries
  /\ UNCHANGED <<mFirstReceivedHeader, header, arrived, handlerRest>>

(***************************************************************************)
(* checkHeaderContents for the content h of the buffer, whether the read   *)
(* filled it or failed and left it as the heap had it.                     *)
(***************************************************************************)
CheckHeaderContents(s, h) ==
  LET first == IF mFinishedCheckCount = NumSockets THEN h
                                                   ELSE mFirstReceivedHeader
  IN  /\ mFirstReceivedHeader' = first
      /\ IF mFinishedCheckCount < 1
         THEN /\ mFinishedCheckCount' = mFinishedCheckCount - 1
              /\ sock' = [sock EXCEPT ![s] = "dead"]
              /\ UNCHANGED commit
         ELSE IF first # h
         THEN /\ mFinishedCheckCount' = mFinishedCheckCount - NumSockets - 1
              /\ Report("DISCONNECTED", "ConnectionFailed")
              /\ sock' = [sock EXCEPT ![s] = "dead"]
         ELSE /\ mFinishedCheckCount' = mFinishedCheckCount - 1
              /\ IF mFinishedCheckCount = 1 THEN Report("CONNECTED", "Connected")
                                            ELSE UNCHANGED commit
              /\ sock' = [sock EXCEPT ![s] = "reading"]
      /\ UNCHANGED <<tries, arrived, handlerRest>>

(***************************************************************************)
(* The listener answers on all sockets once it has the headers of all of   *)
(* them.  Its answers agree, unless one is damaged ("mismatch").           *)
(***************************************************************************)
PeerComplete == \A s \in Sockets : sock[s] \in {"header", "reading", "dead"}

Answers ==
  {h \in Contents :
     /\ PeerComplete
     /\ \/ "mismatch" \in Failures
        \/ h = TheHeader}

HeaderArrives(s) ==
  /\ ReactorIdle
  /\ sock[s] = "header"
  /\ \E h \in Answers :
       /\ header' = [header EXCEPT ![s] = h]
       /\ CheckHeaderContents(s, h)

(***************************************************************************)
(* The read of the header fails.  checkHeaderContents does not look at the *)
(* error; the buffer is uninitialised and may hold an older header.        *)
(***************************************************************************)
HeaderFails(s) ==
  /\ ReactorIdle
  /\ \/ sock[s] = "header" /\ "header" \in Failures
     \/ sock[s] = "unsent"
  /\ \E h \in Contents : CheckHeaderContents(s, h)
  /\ UNCHANGED header

(***************************************************************************)
(* A connected socket fails to read, or to send its header while the read  *)
(* of the peer's is outstanding (hostDisconnectedCallback).                *)
(***************************************************************************)
SocketFails(s) ==
  /\ "socket" \in Failures
  /\ ReactorIdle
  /\ sock[s] \in {"header", "reading"}
  /\ sock' = [sock EXCEPT ![s] = IF @ = "header" THEN "unsent" ELSE "dead"]
  /\ Report("DISCONNECTED", "Disconnected")
  /\ UNCHANGED <<tries, mFinishedCheckCount, mFirstReceivedHeader, header,
                 arrived, handlerRest>>

(***************************************************************************)
(* receiveFullChunk of a data packet, which commits callbacks with the     *)
(* status CONNECTED whatever the phase is, without setting it.  Nothing    *)
(* arrives on a socket whose read has failed.                              *)
(***************************************************************************)
ReceiveFullChunk(s) ==
  /\ arrived < MaxReceived
  /\ ReactorIdle
  /\ sock[s] = "reading" /\ header[s] # NoHeader
  /\ arrived' = arrived + 1
  /\ commit' = [NoCommit EXCEPT !.step = "start", !.status = "CONNECTED"]
  /\ UNCHANGED <<sock, tries, mFinishedCheckCount, mFirstReceivedHeader, header,
                 handlerRest>>

-----------------------------------------------------------------------------
(* CommitCallbacks, a step for each stretch between two locks *)

commitRest == <<handshakeVars, askedIn, userVars>>

(***************************************************************************)
(* The unlocked test of mCallbackRegistration, and for CONNECTED the swap  *)
(* of the waiting requests.                                                *)
(***************************************************************************)
CommitStart ==
  /\ commit.step = "start"
  /\ IF ~commit.set /\ mCallbackRegistration = <<>>
     THEN commit' = NoCommit /\ UNCHANGED mNewRequests
     ELSE IF commit.status = "CONNECTED"
     THEN /\ commit' = [commit EXCEPT !.step = "drain", !.batch = mNewRequests]
          /\ mNewRequests' = <<>>
     ELSE commit' = [commit EXCEPT !.step = "lock"] /\ UNCHANGED mNewRequests
  /\ UNCHANGED <<commitRest, mSocketConnectionPhase, registryVars, out>>

CommitDrain ==
  /\ commit.step = "drain"
  /\ IF commit.batch = <<>>
     THEN commit' = [commit EXCEPT !.step = "lock"] /\ UNCHANGED out
     ELSE /\ out' = Append(out, Head(commit.batch))
          /\ commit' = [commit EXCEPT !.batch = Tail(@)]
  /\ UNCHANGED <<commitRest, mSocketConnectionPhase, mNewRequests, registryVars>>

(***************************************************************************)
(* Mutant: streams registered just now are not told.                       *)
(***************************************************************************)
CommitRegistrationsLate(changed) ==
  LET fresh == {mCallbackRegistration[i] : i \in 1..Len(mCallbackRegistration)}
  IN  /\ mCallbacks' = mCallbacks \cup fresh
      /\ mCallbackRegistration' = <<>>
      /\ events' = [g \in Streams |->
                      IF commit.set /\ changed /\ g \in mCallbacks
                      THEN Append(events[g], commit.event) ELSE events[g]]
      /\ commit' = NoCommit

(***************************************************************************)
(* The end of CommitCallbacks and, if the status changed, the connection   *)
(* callback of every stream known now.                                     *)
(***************************************************************************)
CommitRegistrations(changed) ==
  LET known == mCallbacks \cup {mCallbackRegistration[i] :
                                  i \in 1..Len(mCallbackRegistration)}
  IN  /\ mCallbacks' = known
      /\ mCallbackRegistration' = <<>>
      /\ events' = [g \in Streams |->
                      IF commit.set /\ changed /\ g \in known
                      THEN Append(events[g], commit.event) ELSE events[g]]
      /\ commit' = NoCommit

(***************************************************************************)
(* Mutant: the phase is CONNECTED while requests are still waiting.        *)
(***************************************************************************)
CommitLockEarly ==
  /\ commit.step = "lock"
  /\ IF commit.set /\ commit.status = "CONNECTED"
     THEN /\ mSocketConnectionPhase' = "CONNECTED"
          /\ commit' = [commit EXCEPT !.step = "flush",
                                      !.was = mSocketConnectionPhase]
          /\ UNCHANGED registryVars
     ELSE /\ mSocketConnectionPhase' = IF commit.set THEN commit.status
                                       ELSE mSocketConnectionPhase
          /\ CommitRegistrations(commit.status # mSocketConnectionPhase)
  /\ UNCHANGED <<commitRest, mNewRequests, out>>

CommitLock ==
  /\ commit.step = "lock"
  /\ IF commit.set /\ commit.status = "CONNECTED"
     THEN /\ mSocketConnectionPhase' = "WAITCONNECTING"
          /\ commit' = [commit EXCEPT !.step = "flush",
                                      !.was = mSocketConnectionPhase]
          /\ UNCHANGED registryVars
     ELSE /\ mSocketConnectionPhase' = IF commit.set THEN commit.status
                                       ELSE mSocketConnectionPhase
          /\ CommitRegistrations(commit.status # mSocketConnectionPhase)
  /\ UNCHANGED <<commitRest, mNewRequests, out>>

CommitFlush ==
  /\ commit.step = "flush"
  /\ IF mNewRequests # <<>>
     THEN /\ out' = Append(out, Head(mNewRequests))
          /\ mNewRequests' = Tail(mNewRequests)
          /\ UNCHANGED <<mSocketConnectionPhase, registryVars, commit>>
     ELSE /\ mSocketConnectionPhase' = "CONNECTED"
          /\ CommitRegistrations(commit.was # commit.status)
          /\ UNCHANGED <<mNewRequests, out>>
  /\ UNCHANGED commitRest

-----------------------------------------------------------------------------
(* The users *)

userRest == <<handshakeVars, mSocketConnectionPhase, registryVars, commit,
              askedIn>>

(***************************************************************************)
(* sendBytes: the phase is read without the mutex first.                   *)
(***************************************************************************)
SendBytes(t) ==
  /\ pc[t] = "idle"
  /\ issued[t] < MaxRequests
  /\ issued' = [issued EXCEPT ![t] = @ + 1]
  /\ pc' = [pc EXCEPT ![t] = IF mSocketConnectionPhase = "CONNECTED" THEN "now"
                             ELSE "lock"]
  /\ UNCHANGED <<userRest, mNewRequests, out>>

Request(t) == [from |-> t, n |-> issued[t]]

(***************************************************************************)
(* Mutant: the phase is not checked again under the mutex.                 *)
(***************************************************************************)
SendBytesLockedStale(t) ==
  /\ pc[t] = "lock"
  /\ MutexFree
  /\ pc' = [pc EXCEPT ![t] = "idle"]
  /\ mNewRequests' = Append(mNewRequests, Request(t))
  /\ UNCHANGED <<userRest, issued, out>>

SendBytesLocked(t) ==
  /\ pc[t] = "lock"
  /\ MutexFree
  /\ IF mSocketConnectionPhase = "CONNECTED"
     THEN pc' = [pc EXCEPT ![t] = "now"] /\ UNCHANGED mNewRequests
     ELSE /\ pc' = [pc EXCEPT ![t] = "idle"]
          /\ mNewRequests' = Append(mNewRequests, Request(t))
  /\ UNCHANGED <<userRest, issued, out>>

SendBytesNow(t) ==
  /\ pc[t] = "now"
  /\ out' = Append(out, Request(t))
  /\ pc' = [pc EXCEPT ![t] = "idle"]
  /\ UNCHANGED <<userRest, issued, mNewRequests>>

(***************************************************************************)
(* cloneFrom: addCallbacks registers the stream and returns the phase, in  *)
(* one critical section.                                                   *)
(***************************************************************************)
AddCallbacks(g) ==
  /\ askedIn[g] = "none"
  /\ MutexFree
  /\ mCallbackRegistration' = Append(mCallbackRegistration, g)
  /\ askedIn' = [askedIn EXCEPT ![g] = mSocketConnectionPhase]
  /\ UNCHANGED <<handshakeVars, mSocketConnectionPhase, mNewRequests, mCallbacks,
                 events, commit, userVars, out>>

-----------------------------------------------------------------------------

Handshake ==
  \/ Resolved \/ ResolveFails
  \/ \E s \in Sockets : \/ ConnectSucceeds(s) \/ ConnectFails(s)
                       \/ HeaderArrives(s) \/ HeaderFails(s)

Commit == CommitStart \/ CommitDrain \/ CommitLock \/ CommitFlush

UserStep(t) == SendBytesLocked(t) \/ SendBytesNow(t)

Next ==
  \/ Handshake
  \/ \E s \in Sockets : SocketFails(s) \/ ReceiveFullChunk(s)
  \/ Commit
  \/ \E t \in Users : SendBytes(t) \/ UserStep(t)
  \/ \E g \in Clones : AddCallbacks(g)

Spec == Init /\ [][Next]_vars

(***************************************************************************)
(* The reactor runs: the operations of the handshake complete one way or   *)
(* the other, and CommitCallbacks goes on.  A user inside sendBytes goes   *)
(* on too.  No socket is obliged to fail later.                            *)
(***************************************************************************)
FairSpec ==
  /\ Spec
  /\ WF_vars(Handshake)
  /\ WF_vars(Commit)
  /\ \A t \in Users : WF_vars(UserStep(t))

-----------------------------------------------------------------------------
(* Properties *)

(***************************************************************************)
(* The requests users have handed over, those given to sendBytesNow first. *)
(***************************************************************************)
Swapped == IF commit.step = "drain" THEN commit.batch ELSE <<>>
Line    == out \o Swapped \o mNewRequests

HandedOver(t) == 1..(IF pc[t] = "idle" THEN issued[t] ELSE issued[t] - 1)

(***************************************************************************)
(* Across the change from queueing to sending directly, the requests of a  *)
(* user are neither lost, nor duplicated, nor reordered.                   *)
(***************************************************************************)
RequestsInOrder ==
  \A t \in Users :
    /\ \A i, j \in DOMAIN Line :
         i < j /\ Line[i].from = t /\ Line[j].from = t => Line[i].n < Line[j].n
    /\ {Line[i].n : i \in {k \in DOMAIN Line : Line[k].from = t}} = HandedOver(t)

Outcomes == {"Connected", "ConnectionFailed"}

ToldConnected ==
  \E g \in Streams : \E i \in 1..Len(events[g]) : events[g][i] = "Connected"

(***************************************************************************)
(* What ASIOConnectAndHandshake.hpp promises for anything that goes wrong, *)
(* a failed read included: Connected means that the headers of all the     *)
(* sockets have been received and agree.                                   *)
(***************************************************************************)
ConnectedMeansHeaders ==
  ToldConnected => \E h \in Contents : \A s \in Sockets : header[s] = h

(***************************************************************************)
(* The handshake has one outcome: a stream is told Connected or            *)
(* ConnectionFailed, at most once and never both, whichever of the sockets *)
(* fail or disagree, and in whatever order; and Connected only when the    *)
(* header of every socket has been read and none of those that arrived     *)
(* disagree.                                                               *)
(***************************************************************************)
HandshakeOutcomeOnce ==
  /\ \A g \in Streams : \A i, j \in DOMAIN events[g] :
       events[g][i] \in Outcomes /\ events[g][j] \in Outcomes => i = j
  /\ ToldConnected =>
       /\ \A s \in Sockets : sock[s] \in {"reading", "dead"}
       /\ \E h \in Contents : \A s \in Sockets : header[s] \in {NoHeader, h}

(***************************************************************************)
(* What MultiplexedSocket.hpp promises of connectionFailureOrSuccess: no   *)
(* Connected is sent out once the connection is DISCONNECTED.              *)
(***************************************************************************)
NothingAfterFailure ==
  \A g \in Streams : \A i, j \in 1..Len(events[g]) :
    i < j => events[g][j] # "Connected"

(***************************************************************************)
(* Every stream registered before the outcome is known is told it: no      *)
(* registration slips between the change of the phase and the callbacks.   *)
(***************************************************************************)
EveryStreamTold ==
  \A g \in Streams : askedIn[g] = "PRECONNECTION" ~> events[g] # <<>>

(***************************************************************************)
(* Requests do not stay behind: each is sent, or the connection fails.     *)
(***************************************************************************)
RequestsSent ==
  []<>(\/ mSocketConnectionPhase = "DISCONNECTED"
       \/ \A t \in Users : \A n \in 1..issued[t] :
            \E i \in DOMAIN out : out[i] = [from |-> t, n |-> n])
=============================================================================
