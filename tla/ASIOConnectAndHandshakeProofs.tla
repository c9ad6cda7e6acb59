-------------------- MODULE ASIOConnectAndHandshakeProofs --------------------
(***************************************************************************)
(* Bringing up a connection: for any number of sockets, users and streams, *)
(* requests stay in order while the connection changes from queueing them  *)
(* to sending them, and a stream is told one outcome of the handshake      *)
(* (ASIOConnectAndHandshake.cpp, sendBytes and CommitCallbacks of          *)
(* MultiplexedSocket.cpp).                                                 *)
(***************************************************************************)
EXTENDS ASIOConnectAndHandshake, FiniteSetTheorems, TLAPS

Requests == [from : Users, n : Nat]

Phases == {"PRECONNECTION", "WAITCONNECTING", "CONNECTED", "DISCONNECTED"}

Told == {"none", "Connected", "ConnectionFailed", "Disconnected"}

CommitType == [step : {"idle", "start", "drain", "lock", "flush"}, status : Phases,
               set : BOOLEAN, event : Told, batch : Seq(Requests), was : Phases]

SockStates == {"resolving", "connecting", "header", "unsent", "reading", "dead", "refused"}

Typed ==
  /\ sock \in [Sockets -> SockStates]
  /\ mFinishedCheckCount \in Int
  /\ mFirstReceivedHeader \in Contents \cup {NoHeader}
  /\ header \in [Sockets -> Contents \cup {NoHeader}]
  /\ commit \in CommitType
  /\ mSocketConnectionPhase \in Phases
  /\ events \in [Streams -> Seq(Told)]
  /\ pc \in [Users -> {"idle", "lock", "now"}]
  /\ issued \in [Users -> Nat]
  /\ out \in Seq(Requests) /\ mNewRequests \in Seq(Requests)

-----------------------------------------------------------------------------
(* Sequences of requests.                                                  *)

Elems(S) == {S[i] : i \in DOMAIN S}

Ordered(S) == \A i, j \in DOMAIN S : i < j /\ S[i].from = S[j].from => S[i].n < S[j].n

Before(X, Y) == \A x \in X, y \in Y : x.from = y.from => x.n < y.n

(***************************************************************************)
(* A request at the end of a line is behind all the others.                *)
(***************************************************************************)
LEMMA AppendOrdered ==
  ASSUME NEW S \in Seq(Requests), Ordered(S),
         NEW r \in Requests, Before(Elems(S), {r})
  PROVE  /\ Append(S, r) \in Seq(Requests) /\ Ordered(Append(S, r))
         /\ Elems(Append(S, r)) = Elems(S) \cup {r}
  <1> DEFINE n == Len(S)
             T == Append(S, r)
  <1>1. n \in Nat /\ DOMAIN S = 1..n
    OBVIOUS
  <1>2. /\ T \in Seq(Requests) /\ DOMAIN T = 1..(n + 1)
        /\ \A i \in 1..n : T[i] = S[i]
        /\ T[n + 1] = r
    OBVIOUS
  <1> HIDE DEF n, T
  <1>3. \A i \in 1..(n + 1) : i \in 1..n \/ i = n + 1
    BY <1>1
  <1>4. \A i \in 1..n : i \in 1..(n + 1) /\ S[i] \in Elems(S)
    BY <1>1 DEF Elems
  <1>5. Ordered(T)
    <2> SUFFICES ASSUME NEW i \in 1..(n + 1), NEW j \in 1..(n + 1), i < j, T[i].from = T[j].from
                 PROVE  T[i].n < T[j].n
      BY <1>2 DEF Ordered
    <2>1. i \in 1..n
      BY <1>1
    <2>2. CASE j = n + 1
      BY <1>2, <1>4, <2>1, <2>2 DEF Before
    <2>3. CASE j \in 1..n
      BY <1>1, <1>2, <2>1, <2>3 DEF Ordered
    <2> QED
      BY <1>3, <2>2, <2>3
  <1>6. Elems(T) = Elems(S) \cup {r}
    <2>1. n + 1 \in 1..(n + 1)
      BY <1>1
    <2> QED
      BY <1>1, <1>2, <1>3, <1>4, <2>1 DEF Elems
  <1> QED
    BY <1>2, <1>5, <1>6 DEF T

(***************************************************************************)
(* The first request of a line is in front of the rest.                    *)
(***************************************************************************)
LEMMA HeadFirst ==
  ASSUME NEW S \in Seq(Requests), Ordered(S), S # <<>>
  PROVE  /\ Head(S) \in Requests /\ Tail(S) \in Seq(Requests) /\ Ordered(Tail(S))
         /\ Elems(S) = {Head(S)} \cup Elems(Tail(S))
         /\ Before({Head(S)}, Elems(Tail(S)))
  <1> DEFINE n == Len(S)
             T == Tail(S)
  <1>1. n \in Nat /\ n >= 1 /\ DOMAIN S = 1..n /\ Head(S) = S[1]
    OBVIOUS
  <1>2. /\ T \in Seq(Requests) /\ DOMAIN T = 1..(n - 1)
        /\ \A i \in 1..(n - 1) : T[i] = S[i + 1]
    OBVIOUS
  <1> HIDE DEF n, T
  <1>3. \A i \in 1..n : i = 1 \/ (i - 1 \in 1..(n - 1) /\ S[i] = T[i - 1])
    BY <1>1, <1>2
  <1>4. \A i \in 1..(n - 1) : i + 1 \in 1..n /\ 1 < i + 1 /\ 1 \in 1..n
    BY <1>1
  <1>5. Ordered(T)
    <2> SUFFICES ASSUME NEW i \in 1..(n - 1), NEW j \in 1..(n - 1), i < j, T[i].from = T[j].from
                 PROVE  T[i].n < T[j].n
      BY <1>2 DEF Ordered
    <2>1. i + 1 < j + 1
      BY <1>1
    <2> QED
      BY <1>1, <1>2, <1>4, <2>1 DEF Ordered
  <1>6. Elems(S) = {Head(S)} \cup Elems(T)
    <2>1. 1 \in 1..n
      BY <1>1
    <2>2. ASSUME NEW x \in Elems(S)
          PROVE  x \in {Head(S)} \cup Elems(T)
      <3>1. PICK i \in 1..n : x = S[i]
        BY <1>1 DEF Elems
      <3>2. CASE i = 1
        BY <1>1, <3>1, <3>2
      <3>3. CASE i # 1
        BY <1>2, <1>3, <3>1, <3>3 DEF Elems
      <3> QED
        BY <3>2, <3>3
    <2>3. ASSUME NEW x \in Elems(T)
          PROVE  x \in Elems(S)
      BY <1>1, <1>2, <1>4 DEF Elems
    <2>4. Head(S) \in Elems(S)
      BY <1>1, <2>1 DEF Elems
    <2> QED
      BY <2>2, <2>3, <2>4
  <1>7. Before({Head(S)}, Elems(T))
    BY <1>1, <1>2, <1>4 DEF Elems, Before, Ordered
  <1> QED
    BY <1>1, <1>2, <1>5, <1>6, <1>7 DEF T

(***************************************************************************)
(* Two lines, one in front of the other, make one line.                    *)
(***************************************************************************)
LEMMA ConcatOrdered ==
  ASSUME NEW S \in Seq(Requests), NEW T \in Seq(Requests),
         Ordered(S), Ordered(T), Before(Elems(S), Elems(T))
  PROVE  /\ S \o T \in Seq(Requests) /\ Ordered(S \o T)
         /\ Elems(S \o T) = Elems(S) \cup Elems(T)
  <1> DEFINE m == Len(S)
             n == Len(T)
             U == S \o T
  <1>1. m \in Nat /\ n \in Nat /\ DOMAIN S = 1..m /\ DOMAIN T = 1..n
    OBVIOUS
  <1>2. /\ U \in Seq(Requests) /\ DOMAIN U = 1..(m + n)
        /\ \A i \in 1..m : U[i] = S[i]
        /\ \A i \in 1..n : U[m + i] = T[i]
    OBVIOUS
  <1> HIDE DEF m, n, U
  <1>3. \A i \in 1..(m + n) : i \in 1..m \/ (i - m \in 1..n /\ U[i] = T[i - m] /\ i > m)
    <2> SUFFICES ASSUME NEW i \in 1..(m + n), i \notin 1..m
                 PROVE  i - m \in 1..n /\ U[i] = T[i - m] /\ i > m
      OBVIOUS
    <2>1. i - m \in 1..n /\ m + (i - m) = i /\ i > m
      BY <1>1
    <2>2. U[m + (i - m)] = T[i - m]
      BY <1>2, <2>1
    <2> QED
      BY <2>1, <2>2
  <1>4. /\ \A i \in 1..m : i \in 1..(m + n)
        /\ \A i \in 1..n : m + i \in 1..(m + n)
    BY <1>1
  <1>5. Ordered(U)
    <2> SUFFICES ASSUME NEW i \in 1..(m + n), NEW j \in 1..(m + n), i < j, U[i].from = U[j].from
                 PROVE  U[i].n < U[j].n
      BY <1>2 DEF Ordered
    <2>1. CASE j \in 1..m
      <3>1. i \in 1..m
        BY <1>1, <2>1
      <3> QED
        BY <1>1, <1>2, <2>1, <3>1 DEF Ordered
    <2>2. CASE i \in 1..m /\ j \notin 1..m
      BY <1>1, <1>2, <1>3, <2>2 DEF Before, Elems
    <2>3. CASE i \notin 1..m /\ j \notin 1..m
      <3>1. i - m < j - m
        BY <1>1
      <3> QED
        BY <1>1, <1>3, <2>3, <3>1 DEF Ordered
    <2>4. i \notin 1..m => j \notin 1..m
      BY <1>1
    <2> QED
      BY <2>1, <2>2, <2>3, <2>4
  <1>6. Elems(U) = Elems(S) \cup Elems(T)
    BY <1>1, <1>2, <1>3, <1>4 DEF Elems
  <1> QED
    BY <1>2, <1>5, <1>6 DEF U

-----------------------------------------------------------------------------
(* The fields of the commit record.                                        *)

(***************************************************************************)
(* What the reactor reports is a new CommitCallbacks with nothing swapped  *)
(* out yet.                                                                *)
(***************************************************************************)
LEMMA ReportFields ==
  ASSUME NEW status \in Phases, NEW event \in Told, Report(status, event)
  PROVE  /\ commit' \in CommitType /\ commit'.step = "start" /\ commit'.set
         /\ commit'.status = status /\ commit'.event = event /\ commit'.batch = <<>>
  <1> DEFINE none == <<>>
  <1>1. commit' = [step |-> "start", status |-> status, set |-> TRUE, event |-> event,
                   batch |-> none, was |-> "PRECONNECTION"]
    BY DEF Report, NoCommit
  <1>2. none \in Seq(Requests)
    OBVIOUS
  <1> HIDE DEF none
  <1>3. /\ commit' \in CommitType /\ commit'.step = "start" /\ commit'.set
        /\ commit'.status = status /\ commit'.event = event /\ commit'.batch = none
    BY <1>1, <1>2 DEF CommitType, Phases, Told
  <1> QED
    BY <1>3 DEF none

(***************************************************************************)
(* Outside CommitCallbacks there is no event.                              *)
(***************************************************************************)
LEMMA NoCommitFields ==
  /\ NoCommit \in CommitType /\ NoCommit.step = "idle" /\ NoCommit.batch = <<>>
  /\ NoCommit.event = "none"
  <1> DEFINE none == <<>>
  <1>1. NoCommit = [step |-> "idle", status |-> "PRECONNECTION", set |-> FALSE,
                    event |-> "none", batch |-> none, was |-> "PRECONNECTION"]
    BY DEF NoCommit
  <1>2. none \in Seq(Requests)
    OBVIOUS
  <1> HIDE DEF none
  <1>3. /\ NoCommit \in CommitType /\ NoCommit.step = "idle" /\ NoCommit.batch = none
        /\ NoCommit.event = "none"
    BY <1>1, <1>2 DEF CommitType, Phases, Told
  <1> QED
    BY <1>3 DEF none

(***************************************************************************)
(* A step of CommitCallbacks changes the fields it names and no other.     *)
(***************************************************************************)
LEMMA CommitFields ==
  ASSUME commit \in CommitType
  PROVE  /\ \A st \in {"idle", "start", "drain", "lock", "flush"} :
              LET c == [commit EXCEPT !.step = st]
              IN  /\ c \in CommitType /\ c.step = st /\ c.batch = commit.batch
                  /\ c.event = commit.event /\ c.status = commit.status
                  /\ c.set = commit.set /\ c.was = commit.was
         /\ \A b \in Seq(Requests) :
              LET c == [commit EXCEPT !.batch = b]
              IN  /\ c \in CommitType /\ c.step = commit.step /\ c.batch = b
                  /\ c.event = commit.event /\ c.status = commit.status
                  /\ c.set = commit.set /\ c.was = commit.was
         /\ \A w \in Phases :
              LET c == [commit EXCEPT !.was = w]
              IN  /\ c \in CommitType /\ c.step = commit.step /\ c.batch = commit.batch
                  /\ c.event = commit.event /\ c.status = commit.status
                  /\ c.set = commit.set /\ c.was = w
  BY DEF CommitType

-----------------------------------------------------------------------------
(* The variables keep their types.                                         *)

HandlerStep ==
  \/ Handshake
  \/ \E s \in Sockets : SocketFails(s) \/ ReceiveFullChunk(s)

(***************************************************************************)
(* A handler of the reactor leaves requests, users and callbacks alone,    *)
(* and may begin a CommitCallbacks.                                        *)
(***************************************************************************)
LEMMA HandlerCommits ==
  ASSUME Typed, HandlerStep
  PROVE  /\ UNCHANGED handlerRest /\ ReactorIdle
         /\ \/ commit' = commit
            \/ commit' \in CommitType /\ commit'.step = "start" /\ commit'.batch = <<>>
  <1>1. UNCHANGED handlerRest /\ ReactorIdle
    BY DEF HandlerStep, Handshake, Resolved, ResolveFails, ConnectSucceeds, ConnectFails,
           HeaderArrives, HeaderFails, CheckHeaderContents, SocketFails, ReceiveFullChunk
  <1> DEFINE Reported == \/ Report("DISCONNECTED", "ConnectionFailed")
                         \/ Report("CONNECTED", "Connected")
                         \/ Report("DISCONNECTED", "Disconnected")
  <1>2. CASE \E s \in Sockets : ReceiveFullChunk(s)
    <2> DEFINE none == <<>>
    <2>1. commit' = [step |-> "start", status |-> "CONNECTED", set |-> FALSE,
                     event |-> "none", batch |-> none, was |-> "PRECONNECTION"]
      BY <1>2 DEF ReceiveFullChunk, NoCommit
    <2>2. none \in Seq(Requests)
      OBVIOUS
    <2> HIDE DEF none
    <2>3. commit' \in CommitType /\ commit'.step = "start" /\ commit'.batch = none
      BY <2>1, <2>2 DEF CommitType, Phases, Told
    <2> QED
      BY <1>1, <2>3 DEF none
  <1>3. CASE ~\E s \in Sockets : ReceiveFullChunk(s)
    <2>1. commit' = commit \/ Reported
      BY <1>3 DEF HandlerStep, Handshake, Resolved, ResolveFails, ConnectSucceeds,
                  ConnectFails, HeaderArrives, HeaderFails, CheckHeaderContents, SocketFails
    <2>2. CASE Reported
      <3>1. /\ "DISCONNECTED" \in Phases /\ "CONNECTED" \in Phases
            /\ "ConnectionFailed" \in Told /\ "Connected" \in Told /\ "Disconnected" \in Told
        BY DEF Phases, Told
      <3> QED
        BY <1>1, <2>2, <3>1, ReportFields
    <2> QED
      BY <1>1, <2>1, <2>2
  <1> QED
    BY <1>2, <1>3

(***************************************************************************)
(* The variables have their types at the start.                            *)
(***************************************************************************)
LEMMA InitTyped ==
  ASSUME Init
  PROVE  Typed
  <1>1. NumSockets \in Nat
    BY HandshakeAssumption
  <1>2. <<>> \in Seq(Requests) /\ <<>> \in Seq(Told)
    OBVIOUS
  <1>3. commit \in CommitType /\ out \in Seq(Requests) /\ mNewRequests \in Seq(Requests)
    BY <1>2, NoCommitFields DEF Init
  <1>4. events \in [Streams -> Seq(Told)]
    BY <1>2 DEF Init
  <1>5. /\ sock \in [Sockets -> SockStates]
        /\ mFinishedCheckCount \in Int
        /\ mFirstReceivedHeader \in Contents \cup {NoHeader}
        /\ header \in [Sockets -> Contents \cup {NoHeader}]
        /\ mSocketConnectionPhase \in Phases
        /\ pc \in [Users -> {"idle", "lock", "now"}]
        /\ issued \in [Users -> Nat]
    BY <1>1 DEF Init, SockStates, Phases
  <1> QED
    BY <1>3, <1>4, <1>5 DEF Typed

(***************************************************************************)
(* What the handlers do to the state of the handshake keeps its types.     *)
(***************************************************************************)
LEMMA HandlerTyped ==
  ASSUME Typed, HandlerStep
  PROVE  Typed'
  <1> DEFINE Kept == /\ sock' \in [Sockets -> SockStates]
                     /\ mFinishedCheckCount' \in Int
                     /\ mFirstReceivedHeader' \in Contents \cup {NoHeader}
                     /\ header' \in [Sockets -> Contents \cup {NoHeader}]
  <1>1. Kept
    <2>0. NumSockets \in Nat
      BY HandshakeAssumption
    <2>1. CASE Resolved \/ ResolveFails
      BY <2>1 DEF Typed, Resolved, ResolveFails, SockStates
    <2>2. ASSUME NEW s \in Sockets, ConnectSucceeds(s) \/ ConnectFails(s)
          PROVE  Kept
      BY <2>0, <2>2 DEF Typed, ConnectSucceeds, ConnectFails, SockStates
    <2>3. ASSUME NEW s \in Sockets, NEW h \in Contents, CheckHeaderContents(s, h),
                 header' \in [Sockets -> Contents \cup {NoHeader}]
          PROVE  Kept
      <3>1. mFirstReceivedHeader' \in {h, mFirstReceivedHeader}
        BY <2>3 DEF CheckHeaderContents
      <3>2. mFinishedCheckCount' \in {mFinishedCheckCount - 1, mFinishedCheckCount - NumSockets - 1}
        BY <2>3 DEF CheckHeaderContents
      <3>3. \E st \in {"dead", "reading"} : sock' = [sock EXCEPT ![s] = st]
        BY <2>3 DEF CheckHeaderContents
      <3>4. mFinishedCheckCount' \in Int
        BY <2>0, <3>2 DEF Typed
      <3>5. sock' \in [Sockets -> SockStates]
        BY <3>3 DEF Typed, SockStates
      <3> QED
        BY <2>3, <3>1, <3>4, <3>5 DEF Typed
    <2>4. ASSUME NEW s \in Sockets, HeaderArrives(s)
          PROVE  Kept
      BY <2>3, <2>4 DEF Typed, HeaderArrives, Answers
    <2>5. ASSUME NEW s \in Sockets, HeaderFails(s)
          PROVE  Kept
      BY <2>3, <2>5 DEF Typed, HeaderFails
    <2>6. ASSUME NEW s \in Sockets, SocketFails(s) \/ ReceiveFullChunk(s)
          PROVE  Kept
      BY <2>6 DEF Typed, SocketFails, ReceiveFullChunk, SockStates
    <2> QED
      BY <2>1, <2>2, <2>4, <2>5, <2>6 DEF HandlerStep, Handshake
  <1>2. commit' \in CommitType /\ UNCHANGED handlerRest
    BY HandlerCommits DEF Typed
  <1> QED
    BY <1>1, <1>2 DEF Typed, handlerRest, registryVars, userVars

(***************************************************************************)
(* CommitRegistrations tells every stream the event, or none of them, and  *)
(* ends the CommitCallbacks.                                               *)
(***************************************************************************)
LEMMA RegistrationsTyped ==
  ASSUME Typed, NEW changed, CommitRegistrations(changed)
  PROVE  /\ commit' = NoCommit /\ events' \in [Streams -> Seq(Told)]
         /\ \A g \in Streams : events'[g] = events[g] \/ events'[g] = Append(events[g], commit.event)
  <1>1. commit.event \in Told /\ \A g \in Streams : events[g] \in Seq(Told)
    BY DEF Typed, CommitType
  <1>2. PICK known : events' = [g \in Streams |->
                                  IF commit.set /\ changed /\ g \in known
                                  THEN Append(events[g], commit.event) ELSE events[g]]
    BY DEF CommitRegistrations
  <1>3. \A g \in Streams : /\ Append(events[g], commit.event) \in Seq(Told)
                           /\ events'[g] \in {events[g], Append(events[g], commit.event)}
    BY <1>1, <1>2
  <1>4. events' \in [Streams -> Seq(Told)]
    BY <1>1, <1>2, <1>3
  <1> QED
    BY <1>3, <1>4 DEF CommitRegistrations

(***************************************************************************)
(* A step of CommitCallbacks keeps the types.                              *)
(***************************************************************************)
LEMMA CommitTyped ==
  ASSUME Typed, Commit
  PROVE  Typed'
  <1>1. commit \in CommitType /\ mSocketConnectionPhase \in Phases
    BY DEF Typed
  <1>2. UNCHANGED <<sock, mFinishedCheckCount, mFirstReceivedHeader, header, pc, issued>>
    BY DEF Commit, CommitStart, CommitDrain, CommitLock, CommitFlush, commitRest,
           handshakeVars, userVars
  <1> DEFINE Kept == /\ commit' \in CommitType /\ mSocketConnectionPhase' \in Phases
                     /\ events' \in [Streams -> Seq(Told)]
                     /\ out' \in Seq(Requests) /\ mNewRequests' \in Seq(Requests)
  <1> SUFFICES Kept
    BY <1>2 DEF Typed
  <1>3. CASE CommitStart
    <2>1. UNCHANGED <<mSocketConnectionPhase, events, out>>
      BY <1>3 DEF CommitStart, registryVars
    <2>2. mNewRequests' \in Seq(Requests)
      <3>1. mNewRequests' = mNewRequests \/ mNewRequests' = <<>>
        BY <1>3 DEF CommitStart
      <3>2. mNewRequests \in Seq(Requests)
        BY DEF Typed
      <3>3. <<>> \in Seq(Requests)
        OBVIOUS
      <3> QED
        BY <3>1, <3>2, <3>3, Zenon
    <2>3. commit' \in CommitType
      <3> DEFINE c == [commit EXCEPT !.step = "drain"]
      <3>1. c \in CommitType /\ [commit EXCEPT !.step = "lock"] \in CommitType
        BY <1>1, CommitFields
      <3>2. \/ commit' = NoCommit
            \/ commit' = [c EXCEPT !.batch = mNewRequests]
            \/ commit' = [commit EXCEPT !.step = "lock"]
        BY <1>3 DEF CommitStart
      <3>3. mNewRequests \in Seq(Requests)
        BY DEF Typed
      <3> HIDE DEF c
      <3>4. [c EXCEPT !.batch = mNewRequests] \in CommitType
        BY <3>1, <3>3 DEF CommitType
      <3> QED
        BY <3>1, <3>2, <3>4, NoCommitFields
    <2> QED
      BY <2>1, <2>2, <2>3 DEF Typed
  <1>4. CASE CommitDrain
    <2>1. UNCHANGED <<mSocketConnectionPhase, events, mNewRequests>>
      BY <1>4 DEF CommitDrain, registryVars
    <2>2. commit.batch \in Seq(Requests) /\ out \in Seq(Requests)
      BY DEF Typed, CommitType
    <2>3. CASE commit.batch = <<>>
      <3>1. commit' = [commit EXCEPT !.step = "lock"] /\ out' = out
        BY <1>4, <2>3 DEF CommitDrain
      <3> QED
        BY <1>1, <2>1, <2>2, <3>1, CommitFields DEF Typed
    <2>4. CASE commit.batch # <<>>
      <3> DEFINE b == Tail(commit.batch)
                 r == Head(commit.batch)
      <3>1. commit' = [commit EXCEPT !.batch = b] /\ out' = Append(out, r)
        BY <1>4, <2>4 DEF CommitDrain
      <3>2. b \in Seq(Requests) /\ r \in Requests
        BY <2>2, <2>4
      <3> HIDE DEF b, r
      <3>3. commit' \in CommitType /\ out' \in Seq(Requests)
        BY <1>1, <2>2, <3>1, <3>2, CommitFields
      <3> QED
        BY <2>1, <3>3 DEF Typed
    <2> QED
      BY <2>3, <2>4
  <1>5. CASE CommitLock
    <2>1. UNCHANGED <<out, mNewRequests>>
      BY <1>5 DEF CommitLock
    <2>2. mSocketConnectionPhase' \in Phases
      BY <1>1, <1>5 DEF CommitLock, CommitType, Phases
    <2>3. CASE commit.set /\ commit.status = "CONNECTED"
      <3> DEFINE c == [commit EXCEPT !.step = "flush"]
      <3>1. c \in CommitType
        BY <1>1, CommitFields
      <3>2. commit' = [c EXCEPT !.was = mSocketConnectionPhase] /\ events' = events
        BY <1>5, <2>3 DEF CommitLock, registryVars
      <3> HIDE DEF c
      <3>3. commit' \in CommitType
        BY <1>1, <3>1, <3>2 DEF CommitType
      <3> QED
        BY <2>1, <2>2, <3>2, <3>3 DEF Typed
    <2>4. CASE ~(commit.set /\ commit.status = "CONNECTED")
      <3>1. CommitRegistrations(commit.status # mSocketConnectionPhase)
        BY <1>5, <2>4 DEF CommitLock
      <3>2. commit' = NoCommit /\ events' \in [Streams -> Seq(Told)]
        BY <3>1, RegistrationsTyped
      <3> QED
        BY <2>1, <2>2, <3>2, NoCommitFields DEF Typed
    <2> QED
      BY <2>3, <2>4
  <1>6. CASE CommitFlush
    <2>1. CASE mNewRequests # <<>>
      <3> DEFINE r == Head(mNewRequests)
                 b == Tail(mNewRequests)
      <3>1. /\ out' = Append(out, r) /\ mNewRequests' = b
            /\ UNCHANGED <<mSocketConnectionPhase, events, commit>>
        BY <1>6, <2>1 DEF CommitFlush, registryVars
      <3>2. r \in Requests /\ b \in Seq(Requests) /\ out \in Seq(Requests)
        BY <2>1 DEF Typed
      <3> HIDE DEF r, b
      <3>3. out' \in Seq(Requests) /\ mNewRequests' \in Seq(Requests)
        BY <3>1, <3>2
      <3> QED
        BY <3>1, <3>3 DEF Typed
    <2>2. CASE mNewRequests = <<>>
      <3>1. /\ CommitRegistrations(commit.was # commit.status)
            /\ mSocketConnectionPhase' = "CONNECTED" /\ UNCHANGED <<mNewRequests, out>>
        BY <1>6, <2>2 DEF CommitFlush
      <3>2. commit' = NoCommit /\ events' \in [Streams -> Seq(Told)]
        BY <3>1, RegistrationsTyped
      <3> QED
        BY <3>1, <3>2, NoCommitFields DEF Typed, Phases
    <2> QED
      BY <2>1, <2>2
  <1> QED
    BY <1>3, <1>4, <1>5, <1>6 DEF Commit

(***************************************************************************)
(* So does a step of a user.                                               *)
(***************************************************************************)
LEMMA UserTyped ==
  ASSUME Typed, NEW t \in Users, SendBytes(t) \/ UserStep(t)
  PROVE  Typed'
  <1>1. UNCHANGED userRest
    BY DEF SendBytes, UserStep, SendBytesLocked, SendBytesNow
  <1>2. pc' \in [Users -> {"idle", "lock", "now"}]
    BY DEF Typed, SendBytes, UserStep, SendBytesLocked, SendBytesNow
  <1>6. issued' \in [Users -> Nat]
    <2>1. issued' = issued \/ issued' = [issued EXCEPT ![t] = @ + 1]
      BY DEF SendBytes, UserStep, SendBytesLocked, SendBytesNow
    <2>2. issued \in [Users -> Nat]
      BY DEF Typed
    <2> QED
      BY <2>1, <2>2
  <1>3. Request(t) \in Requests
    BY DEF Request, Requests, Typed
  <1>4. /\ out' \in {out, Append(out, Request(t))}
        /\ mNewRequests' \in {mNewRequests, Append(mNewRequests, Request(t))}
    BY DEF SendBytes, UserStep, SendBytesLocked, SendBytesNow
  <1>5. out' \in Seq(Requests) /\ mNewRequests' \in Seq(Requests)
    <2> DEFINE r == Request(t)
    <2>1. out \in Seq(Requests) /\ mNewRequests \in Seq(Requests) /\ r \in Requests
      BY <1>3 DEF Typed
    <2> HIDE DEF r
    <2>2. Append(out, r) \in Seq(Requests) /\ Append(mNewRequests, r) \in Seq(Requests)
      BY <2>1
    <2> QED
      BY <1>4, <2>1, <2>2 DEF r
  <1> QED
    BY <1>1, <1>2, <1>5, <1>6 DEF Typed, userRest, handshakeVars, registryVars

(***************************************************************************)
(* The variables have their types in every step.                           *)
(***************************************************************************)
LEMMA StepTyped ==
  ASSUME Typed, [Next]_vars
  PROVE  Typed'
  <1>1. CASE HandlerStep
    BY <1>1, HandlerTyped
  <1>2. CASE Commit
    BY <1>2, CommitTyped
  <1>3. ASSUME NEW t \in Users, SendBytes(t) \/ UserStep(t)
        PROVE  Typed'
    BY <1>3, UserTyped
  <1>4. CASE (\E g \in Clones : AddCallbacks(g)) \/ UNCHANGED vars
    BY <1>4 DEF AddCallbacks, Typed, vars, handshakeVars, userVars, registryVars
  <1> QED
    BY <1>1, <1>2, <1>3, <1>4 DEF Next, HandlerStep

-----------------------------------------------------------------------------
(***************************************************************************)
(* Requests.  The three places a request can be in form one line; a user   *)
(* that is about to send directly has nothing waiting, because it saw the  *)
(* phase CONNECTED, and in that phase nothing waits at all.                *)
(***************************************************************************)
batch == commit.batch

NothingWaits ==
  /\ mSocketConnectionPhase = "CONNECTED" => mNewRequests = <<>> /\ batch = <<>>
  /\ commit.step # "drain" => batch = <<>>
  /\ \A t \in Users : pc[t] # "idle" => issued[t] >= 1
  /\ \A t \in Users : pc[t] = "now" =>
       \A r \in Elems(batch) \cup Elems(mNewRequests) : r.from # t

InLine ==
  /\ Ordered(out) /\ Ordered(batch) /\ Ordered(mNewRequests)
  /\ Before(Elems(out), Elems(batch)) /\ Before(Elems(out), Elems(mNewRequests))
  /\ Before(Elems(batch), Elems(mNewRequests))
  /\ Elems(out) \cup Elems(batch) \cup Elems(mNewRequests) =
       {r \in Requests : r.n \in HandedOver(r.from)}

RInv == Typed /\ NothingWaits /\ InLine

(***************************************************************************)
(* An empty line is in order and holds nothing.                            *)
(***************************************************************************)
LEMMA EmptyLine == Elems(<<>>) = {} /\ Ordered(<<>>)
  BY DEF Elems, Ordered

(***************************************************************************)
(* Handlers and registrations do not touch the requests.                   *)
(***************************************************************************)
LEMMA RequestsUntouched ==
  ASSUME RInv, UNCHANGED <<mSocketConnectionPhase, mNewRequests, out, pc, issued>>,
         \/ commit' = commit
         \/ batch = <<>> /\ batch' = <<>>
  PROVE  (NothingWaits /\ InLine)'
  <1>1. batch' = batch
    BY DEF batch
  <1>2. commit'.step # "drain" => batch' = <<>>
    BY DEF RInv, NothingWaits, batch
  <1>3. InLine'
    BY <1>1 DEF RInv, InLine, HandedOver, Ordered, Before, Elems
  <1>4. NothingWaits'
    BY <1>1, <1>2 DEF RInv, NothingWaits, Elems
  <1> QED
    BY <1>3, <1>4

(***************************************************************************)
(* The first request of a waiting line T goes to the end of the line of    *)
(* those sent; U is the rest of the line.                                  *)
(***************************************************************************)
LEMMA MoveFirst ==
  ASSUME NEW S \in Seq(Requests), NEW T \in Seq(Requests), NEW U, T # <<>>,
         Ordered(S), Ordered(T), Before(Elems(S), Elems(T)), Before(Elems(S), U),
         Before(Elems(T), U)
  PROVE  LET A == Append(S, Head(T)) IN
         /\ Ordered(A) /\ Ordered(Tail(T))
         /\ Before(Elems(A), Elems(Tail(T))) /\ Before(Elems(A), U)
         /\ Before(Elems(Tail(T)), U)
         /\ Elems(A) \cup Elems(Tail(T)) = Elems(S) \cup Elems(T)
         /\ Elems(Tail(T)) \subseteq Elems(T)
  <1> DEFINE h == Head(T)
             R == Tail(T)
  <1>1. /\ h \in Requests /\ R \in Seq(Requests) /\ Ordered(R)
        /\ Elems(T) = {h} \cup Elems(R) /\ Before({h}, Elems(R))
    BY HeadFirst
  <1> HIDE DEF h, R
  <1>2. Before(Elems(S), {h})
    BY <1>1 DEF Before
  <1>3. Ordered(Append(S, h)) /\ Elems(Append(S, h)) = Elems(S) \cup {h}
    BY <1>1, <1>2, AppendOrdered
  <1>4. /\ Before(Elems(Append(S, h)), Elems(R)) /\ Before(Elems(Append(S, h)), U)
        /\ Before(Elems(R), U)
    BY <1>1, <1>3 DEF Before
  <1> QED
    BY <1>1, <1>3, <1>4 DEF h, R

(***************************************************************************)
(* CommitCallbacks moves requests along the line and changes the phase to  *)
(* CONNECTED only when none waits.                                         *)
(***************************************************************************)
LEMMA CommitInLine ==
  ASSUME RInv, Commit
  PROVE  (NothingWaits /\ InLine)'
  <1>1. /\ commit \in CommitType /\ batch \in Seq(Requests)
        /\ out \in Seq(Requests) /\ mNewRequests \in Seq(Requests)
    BY DEF RInv, Typed, CommitType, batch
  <1>2. pc' = pc /\ issued' = issued
    BY DEF Commit, CommitStart, CommitDrain, CommitLock, CommitFlush, commitRest, userVars
  <1>3. {r \in Requests : r.n \in HandedOver(r.from)}' = {r \in Requests : r.n \in HandedOver(r.from)}
    BY <1>2 DEF HandedOver
  <1>4. CASE CommitStart
    <2>1. UNCHANGED <<mSocketConnectionPhase, out>> /\ batch = <<>>
      BY <1>4 DEF CommitStart, RInv, NothingWaits
    <2>2. CASE commit' = NoCommit /\ mNewRequests' = mNewRequests
      <3>1. batch' = <<>>
        BY <2>2, NoCommitFields DEF batch
      <3> QED
        BY <1>2, <2>1, <2>2, <3>1, RequestsUntouched
    <2>3. CASE commit' = [commit EXCEPT !.step = "lock"] /\ mNewRequests' = mNewRequests
      <3>1. batch' = <<>>
        BY <1>1, <2>1, <2>3, CommitFields DEF batch
      <3> QED
        BY <1>2, <2>1, <2>3, <3>1, RequestsUntouched
    <2>4. CASE /\ commit' = [commit EXCEPT !.step = "drain", !.batch = mNewRequests]
               /\ mNewRequests' = <<>>
      <3> DEFINE c == [commit EXCEPT !.step = "drain"]
      <3>1. c \in CommitType /\ c.step = "drain" /\ commit' = [c EXCEPT !.batch = mNewRequests]
        BY <1>1, <2>4, CommitFields
      <3> HIDE DEF c
      <3>2. batch' = mNewRequests /\ commit'.step = "drain"
        BY <1>1, <3>1 DEF CommitType, batch
      <3>3. InLine'
        BY <1>3, <2>1, <2>4, <3>2, EmptyLine DEF RInv, InLine, Before
      <3>4. NothingWaits'
        BY <1>2, <2>1, <2>4, <3>2, EmptyLine DEF RInv, NothingWaits
      <3> QED
        BY <3>3, <3>4
    <2> QED
      BY <1>4, <2>2, <2>3, <2>4 DEF CommitStart
  <1>5. CASE CommitDrain
    <2>1. UNCHANGED <<mSocketConnectionPhase, mNewRequests>>
      BY <1>5 DEF CommitDrain
    <2>2. CASE batch = <<>>
      <3>1. commit' = [commit EXCEPT !.step = "lock"] /\ out' = out
        BY <1>5, <2>2 DEF CommitDrain, batch
      <3>2. batch' = <<>>
        BY <1>1, <2>2, <3>1, CommitFields DEF batch
      <3> QED
        BY <1>2, <2>1, <2>2, <3>1, <3>2, RequestsUntouched
    <2>3. CASE batch # <<>>
      <3>1. commit' = [commit EXCEPT !.batch = Tail(batch)] /\ out' = Append(out, Head(batch))
        BY <1>5, <2>3 DEF CommitDrain, batch
      <3>2. Tail(batch) \in Seq(Requests)
        BY <1>1, <2>3
      <3>3. batch' = Tail(batch) /\ commit'.step = "drain"
        BY <1>1, <1>5, <3>1, <3>2, CommitFields DEF batch, CommitDrain
      <3>4. /\ Ordered(out') /\ Ordered(batch') /\ Before(Elems(out'), Elems(batch'))
            /\ Before(Elems(out'), Elems(mNewRequests)) /\ Before(Elems(batch'), Elems(mNewRequests))
            /\ Elems(out') \cup Elems(batch') = Elems(out) \cup Elems(batch)
            /\ Elems(batch') \subseteq Elems(batch)
        BY <1>1, <2>3, <3>1, <3>3, MoveFirst DEF RInv, InLine
      <3>5. InLine'
        BY <1>3, <2>1, <3>4 DEF RInv, InLine
      <3>6. NothingWaits'
        BY <1>2, <2>1, <2>3, <3>3, <3>4 DEF RInv, NothingWaits
      <3> QED
        BY <3>5, <3>6
    <2> QED
      BY <2>2, <2>3
  <1>6. CASE CommitLock
    <2>1. UNCHANGED <<out, mNewRequests>> /\ batch = <<>>
      BY <1>6 DEF CommitLock, RInv, NothingWaits
    <2>2. /\ batch' = <<>>
          /\ mSocketConnectionPhase' = "CONNECTED" => mSocketConnectionPhase = "CONNECTED"
      <3>1. CASE commit.set /\ commit.status = "CONNECTED"
        <4> DEFINE c == [commit EXCEPT !.step = "flush"]
        <4>1. c \in CommitType /\ c.batch = <<>>
          BY <1>1, <2>1, CommitFields DEF batch
        <4>2. /\ commit' = [c EXCEPT !.was = mSocketConnectionPhase]
              /\ mSocketConnectionPhase' = "WAITCONNECTING"
          BY <1>6, <3>1 DEF CommitLock
        <4> HIDE DEF c
        <4> QED
          BY <4>1, <4>2 DEF CommitType, batch
      <3>2. CASE ~(commit.set /\ commit.status = "CONNECTED")
        <4>1. commit' = NoCommit
          BY <1>6, <3>2 DEF CommitLock, CommitRegistrations
        <4>2. mSocketConnectionPhase' = IF commit.set THEN commit.status ELSE mSocketConnectionPhase
          BY <1>6, <3>2 DEF CommitLock
        <4> QED
          BY <3>2, <4>1, <4>2, NoCommitFields DEF batch
      <3> QED
        BY <3>1, <3>2
    <2>3. InLine'
      BY <1>3, <2>1, <2>2 DEF RInv, InLine
    <2>4. NothingWaits'
      BY <1>2, <2>1, <2>2 DEF RInv, NothingWaits
    <2> QED
      BY <2>3, <2>4
  <1>7. CASE CommitFlush
    <2>1. batch = <<>>
      BY <1>7 DEF CommitFlush, RInv, NothingWaits
    <2>2. CASE mNewRequests # <<>>
      <3>1. /\ out' = Append(out, Head(mNewRequests)) /\ mNewRequests' = Tail(mNewRequests)
            /\ UNCHANGED <<mSocketConnectionPhase, commit>> /\ batch' = batch
        BY <1>7, <2>2 DEF CommitFlush, batch
      <3>2. Before(Elems(out), {}) /\ Before(Elems(mNewRequests), {})
        BY DEF Before
      <3>3. /\ Ordered(out') /\ Ordered(mNewRequests') /\ Before(Elems(out'), Elems(mNewRequests'))
            /\ Elems(out') \cup Elems(mNewRequests') = Elems(out) \cup Elems(mNewRequests)
            /\ Elems(mNewRequests') \subseteq Elems(mNewRequests)
        BY <1>1, <2>2, <3>1, <3>2, MoveFirst DEF RInv, InLine
      <3>4. InLine'
        <4>1. Elems(batch) = {} /\ Elems(batch') = {}
          BY <2>1, <3>1, EmptyLine
        <4> QED
          BY <1>3, <3>1, <3>3, <4>1 DEF RInv, InLine, Before
      <3>5. NothingWaits'
        BY <1>2, <2>1, <2>2, <3>1, <3>3 DEF RInv, NothingWaits
      <3> QED
        BY <3>4, <3>5
    <2>3. CASE mNewRequests = <<>>
      <3>1. commit' = NoCommit /\ UNCHANGED <<mNewRequests, out>>
        BY <1>7, <2>3 DEF CommitFlush, CommitRegistrations
      <3>2. batch' = <<>>
        BY <3>1, NoCommitFields DEF batch
      <3>3. InLine'
        BY <1>3, <2>1, <3>1, <3>2 DEF RInv, InLine
      <3>4. NothingWaits'
        BY <1>2, <2>1, <2>3, <3>1, <3>2 DEF RInv, NothingWaits
      <3> QED
        BY <3>3, <3>4
    <2> QED
      BY <2>2, <2>3
  <1> QED
    BY <1>4, <1>5, <1>6, <1>7 DEF Commit

(***************************************************************************)
(* A user that goes on in sendBytes does so behind all of its own          *)
(* requests, whether it queues the next one or sends it past those of      *)
(* others.                                                                 *)
(***************************************************************************)
LEMMA UserInLine ==
  ASSUME RInv, NEW t \in Users, SendBytes(t) \/ UserStep(t)
  PROVE  (NothingWaits /\ InLine)'
  <1> DEFINE r == Request(t)
  <1>1. /\ batch \in Seq(Requests) /\ out \in Seq(Requests) /\ mNewRequests \in Seq(Requests)
        /\ pc \in [Users -> {"idle", "lock", "now"}] /\ issued \in [Users -> Nat]
    BY DEF RInv, Typed, CommitType, batch
  <1>2. commit' = commit /\ batch' = batch /\ mSocketConnectionPhase' = mSocketConnectionPhase
    BY DEF SendBytes, UserStep, SendBytesLocked, SendBytesNow, userRest, batch
  <1>3. r.from = t /\ r.n = issued[t] /\ r \in Requests
    BY <1>1 DEF Request, Requests
  <1>4. \A x \in Requests : x.from = t /\ x.n = issued[t] => x = r
    BY <1>3 DEF Request, Requests
  <1> HIDE DEF r
  <1>5. ASSUME pc[t] # "idle"
        PROVE  /\ \A x \in Elems(out) \cup Elems(batch) \cup Elems(mNewRequests) :
                    x.from = t => x.n < issued[t]
               /\ Before(Elems(out), {r}) /\ Before(Elems(batch), {r})
               /\ Before(Elems(mNewRequests), {r})
    <2>1. \A x \in Elems(out) \cup Elems(batch) \cup Elems(mNewRequests) :
            x.from = t => x.n < issued[t]
      <3> SUFFICES ASSUME NEW x \in Requests, x.from = t, x.n \in HandedOver(t)
                   PROVE  x.n < issued[t]
        BY DEF RInv, InLine
      <3> QED
        BY <1>1, <1>5 DEF HandedOver
    <2> QED
      BY <1>3, <2>1 DEF Before
  <1>6. CASE SendBytes(t)
    <2>1. /\ pc[t] = "idle" /\ UNCHANGED <<out, mNewRequests>>
          /\ issued' = [issued EXCEPT ![t] = @ + 1]
          /\ pc' = [pc EXCEPT ![t] = IF mSocketConnectionPhase = "CONNECTED" THEN "now" ELSE "lock"]
      BY <1>6 DEF SendBytes
    <2>2. \A u \in Users : HandedOver(u)' = HandedOver(u)
      <3> SUFFICES ASSUME NEW u \in Users
                   PROVE  HandedOver(u)' = HandedOver(u)
        OBVIOUS
      <3>1. CASE u = t
        BY <1>1, <2>1, <3>1 DEF HandedOver
      <3>2. CASE u # t
        BY <1>1, <2>1, <3>2 DEF HandedOver
      <3> QED
        BY <3>1, <3>2
    <2>3. InLine'
      <3>1. {x \in Requests : x.n \in HandedOver(x.from)}' = {x \in Requests : x.n \in HandedOver(x.from)}
        BY <2>2 DEF Requests
      <3> QED
        BY <1>2, <2>1, <3>1 DEF RInv, InLine
    <2>4. \A u \in Users : pc'[u] # "idle" => issued'[u] >= 1
      BY <1>1, <2>1 DEF RInv, NothingWaits
    <2>5. ASSUME NEW u \in Users, pc'[u] = "now"
          PROVE  \A x \in Elems(batch) \cup Elems(mNewRequests) : x.from # u
      <3>1. CASE u = t
        <4>1. mSocketConnectionPhase = "CONNECTED"
          BY <1>1, <2>1, <2>5, <3>1
        <4> QED
          BY <4>1, EmptyLine DEF RInv, NothingWaits
      <3>2. CASE u # t
        BY <1>1, <2>1, <2>5, <3>2 DEF RInv, NothingWaits
      <3> QED
        BY <3>1, <3>2
    <2>6. NothingWaits'
      BY <1>2, <2>1, <2>4, <2>5 DEF RInv, NothingWaits
    <2> QED
      BY <2>3, <2>6
  <1>7. CASE SendBytesLocked(t) /\ mSocketConnectionPhase = "CONNECTED"
    <2>1. /\ pc[t] = "lock" /\ UNCHANGED <<out, mNewRequests, issued>>
          /\ pc' = [pc EXCEPT ![t] = "now"]
      BY <1>7 DEF SendBytesLocked
    <2>2. \A u \in Users : HandedOver(u)' = HandedOver(u)
      BY <1>1, <2>1 DEF HandedOver
    <2>3. InLine'
      <3>1. {x \in Requests : x.n \in HandedOver(x.from)}' = {x \in Requests : x.n \in HandedOver(x.from)}
        BY <2>2 DEF Requests
      <3> QED
        BY <1>2, <2>1, <3>1 DEF RInv, InLine
    <2>4. Elems(batch) = {} /\ Elems(mNewRequests) = {}
      BY <1>7, EmptyLine DEF RInv, NothingWaits
    <2>5. \A u \in Users : pc'[u] # "idle" => issued'[u] >= 1
      BY <1>1, <2>1 DEF RInv, NothingWaits
    <2>6. NothingWaits'
      BY <1>2, <2>1, <2>4, <2>5 DEF RInv, NothingWaits
    <2> QED
      BY <2>3, <2>6
  <1>8. ASSUME pc[t] # "idle", issued' = issued, pc' = [pc EXCEPT ![t] = "idle"]
        PROVE  /\ {x \in Requests : x.n \in HandedOver(x.from)}' =
                    {x \in Requests : x.n \in HandedOver(x.from)} \cup {r}
               /\ \A u \in Users : pc'[u] # "idle" => issued'[u] >= 1
               /\ \A u \in Users : pc'[u] = "now" => pc[u] = "now" /\ u # t
    <2>1. issued[t] >= 1
      BY <1>8 DEF RInv, NothingWaits
    <2>2. HandedOver(t)' = HandedOver(t) \cup {issued[t]}
      <3>1. HandedOver(t)' = 1..issued[t] /\ HandedOver(t) = 1..(issued[t] - 1)
        BY <1>1, <1>8 DEF HandedOver
      <3> QED
        BY <1>1, <2>1, <3>1
    <2>3. \A u \in Users : u # t => HandedOver(u)' = HandedOver(u)
      BY <1>1, <1>8 DEF HandedOver
    <2>4. \A x \in Requests : x.n \in HandedOver(x.from)' <=> x.n \in HandedOver(x.from) \/ x = r
      <3> SUFFICES ASSUME NEW x \in Requests
                   PROVE  x.n \in HandedOver(x.from)' <=> x.n \in HandedOver(x.from) \/ x = r
        OBVIOUS
      <3>1. CASE x.from = t
        BY <1>3, <1>4, <2>2, <3>1
      <3>2. CASE x.from # t
        <4>1. x.from \in Users
          BY DEF Requests
        <4> QED
          BY <1>3, <2>3, <3>2, <4>1
      <3> QED
        BY <3>1, <3>2
    <2>5. /\ \A u \in Users : pc'[u] # "idle" => issued'[u] >= 1
          /\ \A u \in Users : pc'[u] = "now" => pc[u] = "now" /\ u # t
      BY <1>1, <1>8 DEF RInv, NothingWaits
    <2> QED
      BY <1>3, <2>4, <2>5
  <1>9. CASE SendBytesLocked(t) /\ mSocketConnectionPhase # "CONNECTED"
    <2>1. /\ pc[t] = "lock" /\ UNCHANGED <<out, issued>>
          /\ pc' = [pc EXCEPT ![t] = "idle"] /\ mNewRequests' = Append(mNewRequests, r)
      BY <1>9 DEF SendBytesLocked, r
    <2>2. Ordered(mNewRequests') /\ Elems(mNewRequests') = Elems(mNewRequests) \cup {r}
      BY <1>1, <1>3, <1>5, <2>1, AppendOrdered DEF RInv, InLine
    <2>3. InLine'
      BY <1>2, <1>5, <1>8, <2>1, <2>2 DEF RInv, InLine, Before
    <2>4. NothingWaits'
      BY <1>2, <1>3, <1>8, <1>9, <2>1, <2>2 DEF RInv, NothingWaits
    <2> QED
      BY <2>3, <2>4
  <1>10. CASE SendBytesNow(t)
    <2>1. /\ pc[t] = "now" /\ UNCHANGED <<mNewRequests, issued>>
          /\ pc' = [pc EXCEPT ![t] = "idle"] /\ out' = Append(out, r)
      BY <1>10 DEF SendBytesNow, r
    <2>2. Ordered(out') /\ Elems(out') = Elems(out) \cup {r}
      BY <1>1, <1>3, <1>5, <2>1, AppendOrdered DEF RInv, InLine
    <2>3. \A x \in Elems(batch) \cup Elems(mNewRequests) : x.from # t
      BY <2>1 DEF RInv, NothingWaits
    <2>4. Before(Elems(out'), Elems(batch)) /\ Before(Elems(out'), Elems(mNewRequests))
      BY <1>3, <2>2, <2>3 DEF RInv, InLine, Before
    <2>5. InLine'
      BY <1>2, <1>8, <2>1, <2>2, <2>4 DEF RInv, InLine
    <2>6. NothingWaits'
      BY <1>2, <1>8, <2>1 DEF RInv, NothingWaits
    <2> QED
      BY <2>5, <2>6
  <1> QED
    BY <1>6, <1>7, <1>9, <1>10 DEF UserStep

(***************************************************************************)
(* The requests of every user stay in line.                                *)
(***************************************************************************)
LEMMA RequestsInvariant == Spec => []RInv
  <1>1. Init => RInv
    <2> SUFFICES ASSUME Init
                 PROVE  RInv
      OBVIOUS
    <2>1. commit = NoCommit /\ batch = <<>> /\ out = <<>> /\ mNewRequests = <<>>
      BY NoCommitFields DEF Init, batch
    <2>2. Typed
      BY InitTyped
    <2>3. NothingWaits
      BY <2>1 DEF Init, NothingWaits
    <2>4. \A t \in Users : HandedOver(t) = {}
      BY DEF Init, HandedOver
    <2>5. InLine
      <3>1. {r \in Requests : r.n \in HandedOver(r.from)} = {}
        BY <2>4 DEF Requests
      <3> QED
        BY <2>1, <3>1, EmptyLine DEF InLine, Before
    <2> QED
      BY <2>2, <2>3, <2>5 DEF RInv
  <1>2. RInv /\ [Next]_vars => RInv'
    <2> SUFFICES ASSUME RInv, [Next]_vars
                 PROVE  RInv'
      OBVIOUS
    <2>1. Typed'
      BY StepTyped DEF RInv
    <2>2. CASE HandlerStep
      <3>1. /\ UNCHANGED handlerRest /\ ReactorIdle
            /\ commit' = commit \/ (commit' \in CommitType /\ commit'.batch = <<>>)
        BY <2>2, HandlerCommits DEF RInv
      <3>2. batch = <<>>
        BY <3>1 DEF RInv, NothingWaits, ReactorIdle
      <3> QED
        BY <2>1, <3>1, <3>2, RequestsUntouched DEF RInv, batch, handlerRest, userVars
    <2>3. CASE Commit
      BY <2>1, <2>3, CommitInLine DEF RInv
    <2>4. ASSUME NEW t \in Users, SendBytes(t) \/ UserStep(t)
          PROVE  RInv'
      BY <2>1, <2>4, UserInLine DEF RInv
    <2>5. CASE (\E g \in Clones : AddCallbacks(g)) \/ UNCHANGED vars
      <3>1. UNCHANGED <<mSocketConnectionPhase, mNewRequests, out, pc, issued, commit>>
        BY <2>5 DEF AddCallbacks, vars, userVars
      <3> QED
        BY <2>1, <3>1, RequestsUntouched DEF RInv
    <2> QED
      BY <2>2, <2>3, <2>4, <2>5 DEF Next, HandlerStep
  <1> QED
    BY <1>1, <1>2, PTL DEF Spec

(***************************************************************************)
(* Whatever the phase of the connection does meanwhile, the requests of a  *)
(* user are sent in the order of its calls, none twice and none left out.  *)
(***************************************************************************)
THEOREM RequestsStayInOrder == Spec => []RequestsInOrder
  <1>1. RInv => RequestsInOrder
    <2> SUFFICES ASSUME RInv, NEW t \in Users
                 PROVE  /\ \A i, j \in DOMAIN Line :
                             i < j /\ Line[i].from = t /\ Line[j].from = t => Line[i].n < Line[j].n
                        /\ {Line[i].n : i \in {k \in DOMAIN Line : Line[k].from = t}} = HandedOver(t)
      BY DEF RequestsInOrder
    <2>1. Swapped = batch
      BY DEF Swapped, batch, RInv, NothingWaits
    <2>2. /\ batch \in Seq(Requests) /\ out \in Seq(Requests) /\ mNewRequests \in Seq(Requests)
          /\ issued \in [Users -> Nat]
      BY DEF RInv, Typed, CommitType, batch
    <2> DEFINE S == out \o batch
    <2>3. S \in Seq(Requests) /\ Ordered(S) /\ Elems(S) = Elems(out) \cup Elems(batch)
      BY <2>2, ConcatOrdered DEF RInv, InLine
    <2> HIDE DEF S
    <2>4. Before(Elems(S), Elems(mNewRequests))
      BY <2>3 DEF RInv, InLine, Before
    <2>5. /\ S \o mNewRequests \in Seq(Requests) /\ Ordered(S \o mNewRequests)
          /\ Elems(S \o mNewRequests) = Elems(S) \cup Elems(mNewRequests)
      BY <2>2, <2>3, <2>4, ConcatOrdered DEF RInv, InLine
    <2>6. /\ Ordered(Line) /\ Elems(Line) = {r \in Requests : r.n \in HandedOver(r.from)}
      BY <2>1, <2>3, <2>5 DEF Line, S, RInv, InLine
    <2>7. \A n \in HandedOver(t) : [from |-> t, n |-> n] \in Elems(Line)
      BY <2>2, <2>6 DEF HandedOver, Requests
    <2>8. \A n \in HandedOver(t) : \E i \in DOMAIN Line : Line[i].from = t /\ Line[i].n = n
      BY <2>7 DEF Elems
    <2>9. \A i \in DOMAIN Line : Line[i].from = t => Line[i].n \in HandedOver(t)
      BY <2>6 DEF Elems
    <2> QED
      BY <2>6, <2>8, <2>9 DEF Ordered
  <1> QED
    BY <1>1, RequestsInvariant, PTL

-----------------------------------------------------------------------------
(***************************************************************************)
(* The outcome.  As long as nothing has gone wrong mFinishedCheckCount is  *)
(* the number of sockets whose header is still to be checked; it is        *)
(* negative for good once a socket was refused or a header disagreed; and  *)
(* when the host was not found no socket goes on.                          *)
(***************************************************************************)
Waiting == {s \in Sockets : sock[s] \in {"resolving", "connecting", "header", "unsent"}}

ResolveFailed == mFinishedCheckCount = NumSockets /\ \A s \in Sockets : sock[s] = "refused"

EventsClean == \A g \in Streams : \A i \in DOMAIN events[g] : events[g][i] \notin Outcomes

InProgress ==
  /\ mFinishedCheckCount = Cardinality(Waiting)
  /\ \A s \in Sockets : sock[s] # "refused"
  /\ \A s \in Sockets : header[s] \in {NoHeader, mFirstReceivedHeader}
  /\ mFinishedCheckCount > 0 => commit.event \notin Outcomes /\ EventsClean

Counted ==
  /\ ResolveFailed \/ InProgress \/ mFinishedCheckCount < 0
  /\ (\E s \in Sockets : sock[s] = "resolving") =>
       mFinishedCheckCount = NumSockets /\ \A s \in Sockets : sock[s] = "resolving"
  /\ \A s \in Waiting : header[s] = NoHeader
  /\ 0 <= mFinishedCheckCount /\ mFinishedCheckCount < NumSockets =>
       mFirstReceivedHeader \in Contents

ToldOnce ==
  /\ commit.event = "Connected" \/ ToldConnected => mFinishedCheckCount = 0
  /\ commit.event \in Outcomes => EventsClean
  /\ commit.step = "idle" => commit.event = "none"
  /\ \A g \in Streams : \A i, j \in DOMAIN events[g] :
       events[g][i] \in Outcomes /\ events[g][j] \in Outcomes => i = j

OInv == Typed /\ Counted /\ ToldOnce

(***************************************************************************)
(* There are NumSockets sockets, and some of them wait.                    *)
(***************************************************************************)
LEMMA WaitingFinite ==
  /\ NumSockets \in Nat \ {0} /\ IsFiniteSet(Sockets) /\ Cardinality(Sockets) = NumSockets
  /\ IsFiniteSet(Waiting) /\ Cardinality(Waiting) \in Nat /\ Cardinality(Waiting) <= NumSockets
  /\ Cardinality(Waiting) = NumSockets => Waiting = Sockets
  /\ Cardinality(Waiting) = 0 <=> Waiting = {}
  <1>1. NumSockets \in Nat \ {0}
    BY HandshakeAssumption
  <1>2. IsFiniteSet(Sockets) /\ Cardinality(Sockets) = NumSockets
    <2>1. 0 \in Int /\ NumSockets - 1 \in Int /\ 0 <= NumSockets - 1
      BY <1>1
    <2>2. IsFiniteSet(Sockets) /\ Cardinality(Sockets) = (NumSockets - 1) - 0 + 1
      BY <2>1, FS_Interval DEF Sockets
    <2> QED
      BY <1>1, <2>2
  <1>3. Waiting \subseteq Sockets
    BY DEF Waiting
  <1>4. IsFiniteSet(Waiting) /\ Cardinality(Waiting) <= NumSockets
        /\ (Cardinality(Waiting) = NumSockets => Waiting = Sockets)
    BY <1>2, <1>3, FS_Subset
  <1> QED
    BY <1>1, <1>2, <1>4, FS_CardinalityType, FS_EmptySet

(***************************************************************************)
(* CommitCallbacks keeps the event, or tells it to streams and ends.       *)
(***************************************************************************)
LEMMA CommitTells ==
  ASSUME Typed, Commit
  PROVE  /\ UNCHANGED <<sock, mFinishedCheckCount, mFirstReceivedHeader, header>>
         /\ \/ events' = events /\ commit'.event = commit.event /\ commit'.step # "idle"
            \/ /\ commit'.event = "none"
               /\ \A g \in Streams : events'[g] \in {events[g], Append(events[g], commit.event)}
  <1>1. UNCHANGED <<sock, mFinishedCheckCount, mFirstReceivedHeader, header>>
    BY DEF Commit, CommitStart, CommitDrain, CommitLock, CommitFlush, commitRest, handshakeVars
  <1>2. commit \in CommitType
    BY DEF Typed
  <1>3. CASE CommitStart
    <2>1. events' = events
      BY <1>3 DEF CommitStart, registryVars
    <2> DEFINE c == [commit EXCEPT !.step = "drain"]
    <2>2. /\ c \in CommitType /\ c.step = "drain" /\ c.event = commit.event
          /\ [commit EXCEPT !.step = "lock"].event = commit.event
          /\ [commit EXCEPT !.step = "lock"].step = "lock"
      BY <1>2, CommitFields
    <2>3. \/ commit' = NoCommit
          \/ commit' = [c EXCEPT !.batch = mNewRequests]
          \/ commit' = [commit EXCEPT !.step = "lock"]
      BY <1>3 DEF CommitStart
    <2> HIDE DEF c
    <2>4. [c EXCEPT !.batch = mNewRequests].event = c.event
          /\ [c EXCEPT !.batch = mNewRequests].step = c.step
      BY <2>2 DEF CommitType
    <2> QED
      BY <1>1, <2>1, <2>2, <2>3, <2>4, NoCommitFields
  <1>4. CASE CommitDrain
    <2>1. events' = events /\ commit.step = "drain"
      BY <1>4 DEF CommitDrain, registryVars
    <2>2. commit' = [commit EXCEPT !.step = "lock"]
          \/ commit' = [commit EXCEPT !.batch = Tail(commit.batch)]
      BY <1>4 DEF CommitDrain
    <2>3. commit'.event = commit.event /\ commit'.step \in {"lock", "drain"}
      BY <1>2, <2>1, <2>2 DEF CommitType
    <2> QED
      BY <1>1, <2>1, <2>3
  <1>5. ASSUME NEW changed, CommitRegistrations(changed)
        PROVE  /\ commit'.event = "none"
               /\ \A g \in Streams : events'[g] \in {events[g], Append(events[g], commit.event)}
    BY <1>5, RegistrationsTyped, NoCommitFields
  <1>6. CASE CommitLock
    <2>1. CASE commit.set /\ commit.status = "CONNECTED"
      <3> DEFINE c == [commit EXCEPT !.step = "flush"]
      <3>1. c \in CommitType /\ c.step = "flush" /\ c.event = commit.event
        BY <1>2, CommitFields
      <3>2. commit' = [c EXCEPT !.was = mSocketConnectionPhase] /\ events' = events
        BY <1>6, <2>1 DEF CommitLock, registryVars
      <3> HIDE DEF c
      <3>3. commit'.event = c.event /\ commit'.step = c.step
        BY <3>1, <3>2 DEF CommitType
      <3> QED
        BY <1>1, <3>1, <3>2, <3>3
    <2>2. CASE ~(commit.set /\ commit.status = "CONNECTED")
      BY <1>1, <1>5, <1>6, <2>2 DEF CommitLock
    <2> QED
      BY <2>1, <2>2
  <1>7. CASE CommitFlush
    <2>1. CASE mNewRequests # <<>>
      BY <1>1, <1>7, <2>1 DEF CommitFlush, registryVars
    <2>2. CASE mNewRequests = <<>>
      BY <1>1, <1>5, <1>7, <2>2 DEF CommitFlush
    <2> QED
      BY <2>1, <2>2
  <1> QED
    BY <1>3, <1>4, <1>6, <1>7 DEF Commit

(***************************************************************************)
(* Telling an event to streams keeps the count of outcomes.                *)
(***************************************************************************)
LEMMA CommitTellsOnce ==
  ASSUME OInv, Commit
  PROVE  (Counted /\ ToldOnce)'
  <1>1. /\ sock' = sock /\ mFinishedCheckCount' = mFinishedCheckCount /\ header' = header
        /\ mFirstReceivedHeader' = mFirstReceivedHeader
    BY CommitTells DEF OInv
  <1>2. \A g \in Streams : events[g] \in Seq(Told)
    BY DEF OInv, Typed
  <1>3. CASE events' = events /\ commit'.event = commit.event /\ commit'.step # "idle"
    BY <1>1, <1>3 DEF OInv, Counted, ResolveFailed, InProgress, Waiting, ToldOnce, ToldConnected,
                      EventsClean
  <1>4. CASE /\ commit'.event = "none"
             /\ \A g \in Streams : events'[g] \in {events[g], Append(events[g], commit.event)}
    <2>1. ASSUME NEW g \in Streams
          PROVE  LET n == Len(events[g]) IN
                 /\ n \in Nat /\ DOMAIN events[g] = 1..n
                 /\ \A i \in DOMAIN events'[g] :
                      \/ i \in 1..n /\ events'[g][i] = events[g][i]
                      \/ i = n + 1 /\ events'[g][i] = commit.event
      <3>1. events[g] \in Seq(Told) /\ events'[g] \in {events[g], Append(events[g], commit.event)}
        BY <1>2, <1>4
      <3>2. commit.event \in Told
        BY DEF OInv, Typed, CommitType
      <3> QED
        BY <3>1, <3>2
    <2>2. "none" \notin Outcomes
      BY DEF Outcomes
    <2>3. commit.event \notin Outcomes /\ EventsClean => EventsClean'
      BY <2>1 DEF EventsClean
    <2>4. ToldConnected' => commit.event = "Connected" \/ ToldConnected
      <3> SUFFICES ASSUME NEW g \in Streams, NEW i \in 1..Len(events'[g]), events'[g][i] = "Connected"
                   PROVE  commit.event = "Connected" \/ ToldConnected
        BY DEF ToldConnected
      <3>1. i \in DOMAIN events'[g]
        <4>1. events'[g] \in Seq(Told)
          BY StepTyped DEF OInv, Typed, Next
        <4> QED
          BY <4>1
      <3> QED
        BY <2>1, <3>1 DEF ToldConnected
    <2>5. ASSUME NEW g \in Streams, NEW i \in DOMAIN events'[g], NEW j \in DOMAIN events'[g],
                 events'[g][i] \in Outcomes, events'[g][j] \in Outcomes
          PROVE  i = j
      <3>1. CASE commit.event \in Outcomes
        <4>1. EventsClean
          BY <3>1 DEF OInv, ToldOnce
        <4> QED
          BY <2>1, <2>5, <4>1 DEF EventsClean
      <3>2. CASE commit.event \notin Outcomes
        BY <2>1, <2>5, <3>2 DEF OInv, ToldOnce
      <3> QED
        BY <3>1, <3>2
    <2>6. ToldOnce'
      <3>1. commit'.event # "Connected" /\ commit'.event \notin Outcomes
        BY <1>4, <2>2
      <3>2. ToldConnected' => mFinishedCheckCount' = 0
        BY <1>1, <2>4 DEF OInv, ToldOnce
      <3> QED
        BY <1>4, <2>5, <3>1, <3>2 DEF ToldOnce
    <2>7. Counted'
      <3>1. InProgress => InProgress'
        BY <1>1, <1>4, <2>2, <2>3 DEF InProgress, Waiting
      <3> QED
        BY <1>1, <3>1 DEF OInv, Counted, ResolveFailed, Waiting
    <2> QED
      BY <2>6, <2>7
  <1> QED
    BY <1>3, <1>4, CommitTells DEF OInv

(***************************************************************************)
(* A socket that still waits means that the outcome is not known, or that  *)
(* it was a failure.                                                       *)
(***************************************************************************)
LEMMA StillWaiting ==
  ASSUME OInv, NEW s \in Waiting
  PROVE  /\ mFinishedCheckCount \in Int /\ NumSockets \in Nat \ {0}
         /\ \/ InProgress /\ mFinishedCheckCount >= 1 /\ EventsClean
            \/ mFinishedCheckCount < 0
         /\ ~ToldConnected /\ s \in Sockets /\ sock[s] # "refused" /\ header[s] = NoHeader
  <1>1. mFinishedCheckCount \in Int /\ NumSockets \in Nat \ {0} /\ Cardinality(Waiting) \in Nat
    BY WaitingFinite DEF OInv, Typed
  <1>2. s \in Sockets /\ sock[s] # "refused" /\ Waiting # {} /\ header[s] = NoHeader
    BY DEF Waiting, OInv, Counted
  <1>3. InProgress => mFinishedCheckCount >= 1 /\ EventsClean
    BY <1>1, <1>2, WaitingFinite DEF InProgress
  <1>4. InProgress \/ mFinishedCheckCount < 0
    BY <1>2 DEF OInv, Counted, ResolveFailed
  <1>5. ~ToldConnected
    BY <1>1, <1>3, <1>4 DEF OInv, ToldOnce
  <1> QED
    BY <1>1, <1>2, <1>3, <1>4, <1>5

(***************************************************************************)
(* A handler that reports no outcome leaves what streams are told alone.   *)
(***************************************************************************)
LEMMA NoOutcome ==
  ASSUME OInv, events' = events,
         commit' = commit \/ (commit'.step = "start" /\ commit'.event \notin Outcomes),
         ReactorIdle, ToldConnected => mFinishedCheckCount' = mFinishedCheckCount
  PROVE  ToldOnce' /\ commit'.event \notin Outcomes
  <1>1. commit.event = "none"
    BY DEF OInv, ToldOnce, ReactorIdle
  <1>2. commit'.event \notin Outcomes /\ "Connected" \in Outcomes
    BY <1>1 DEF Outcomes
  <1>3. ToldConnected' <=> ToldConnected
    BY DEF ToldConnected
  <1>4. commit'.step = "idle" => commit'.event = "none"
    BY <1>1
  <1> QED
    BY <1>2, <1>3, <1>4 DEF OInv, ToldOnce

(***************************************************************************)
(* A handler may report an outcome when streams have been told none.       *)
(***************************************************************************)
LEMMA AnOutcome ==
  ASSUME OInv, events' = events, EventsClean, commit'.step = "start",
         \/ commit'.event = "ConnectionFailed"
         \/ commit'.event = "Connected" /\ mFinishedCheckCount' = 0
  PROVE  ToldOnce'
  <1>1. EventsClean' /\ ~ToldConnected'
    <2>1. \A g \in Streams : events[g] \in Seq(Told)
      BY DEF OInv, Typed
    <2>2. \A g \in Streams : DOMAIN events[g] = 1..Len(events[g])
      BY <2>1
    <2>3. EventsClean'
      BY DEF EventsClean
    <2> QED
      BY <2>2, <2>3 DEF EventsClean, ToldConnected, Outcomes
  <1> QED
    BY <1>1 DEF ToldOnce, OInv

(***************************************************************************)
(* Once the count is negative it says no more than that the handshake has  *)
(* failed.                                                                 *)
(***************************************************************************)
LEMMA Negative ==
  ASSUME OInv, NEW s \in Waiting, NEW st \in {"dead", "refused"},
         sock' = [sock EXCEPT ![s] = st],
         mFinishedCheckCount' \in Int, mFinishedCheckCount' < 0, sock[s] # "resolving",
         header' = header \/ \E h : header' = [header EXCEPT ![s] = h]
  PROVE  Counted'
  <1>1. s \in Sockets /\ sock \in [Sockets -> SockStates]
        /\ header \in [Sockets -> Contents \cup {NoHeader}]
    BY DEF Waiting, OInv, Typed
  <1>2. ~\E u \in Sockets : sock[u] = "resolving"
    BY <1>1 DEF OInv, Counted
  <1>3. \A u \in Sockets : sock'[u] = IF u = s THEN st ELSE sock[u]
    BY <1>1
  <1>4. \A u \in Sockets : sock'[u] # "resolving"
    BY <1>2, <1>3
  <1>5. \A u \in Sockets : u # s => header'[u] = header[u]
    BY <1>1
  <1>6. \A u \in Waiting' : u \in Waiting /\ u # s
    BY <1>3 DEF Waiting
  <1>7. \A u \in Waiting' : header'[u] = NoHeader
    BY <1>5, <1>6 DEF OInv, Counted, Waiting
  <1>8. ~(0 <= mFinishedCheckCount')
    OBVIOUS
  <1> QED
    BY <1>4, <1>7, <1>8 DEF Counted

(***************************************************************************)
(* The same for the sockets that go on while the count stays.              *)
(***************************************************************************)
LEMMA GoesOn ==
  ASSUME OInv, NEW s \in Sockets, NEW st \in {"header", "unsent", "dead"},
         sock' = [sock EXCEPT ![s] = st],
         sock[s] # "resolving", sock[s] # "refused", st = "dead" <=> s \notin Waiting,
         UNCHANGED <<mFinishedCheckCount, mFirstReceivedHeader, header, events>>,
         commit'.event \notin Outcomes
  PROVE  Counted'
  <1>1. sock \in [Sockets -> SockStates]
    BY DEF OInv, Typed
  <1>2. \A u \in Sockets : sock'[u] = IF u = s THEN st ELSE sock[u]
    BY <1>1
  <1>3. Waiting' = Waiting
    BY <1>2 DEF Waiting
  <1>4. ~ResolveFailed /\ \A u \in Sockets : sock[u] # "resolving"
    BY DEF OInv, Counted, ResolveFailed
  <1>5. \A u \in Sockets : sock'[u] # "resolving" /\ (sock[u] # "refused" => sock'[u] # "refused")
    BY <1>2, <1>4
  <1>6. InProgress => InProgress'
    BY <1>3, <1>5 DEF InProgress, EventsClean
  <1> QED
    BY <1>3, <1>4, <1>5, <1>6 DEF OInv, Counted

(***************************************************************************)
(* Checking the header of a socket.                                        *)
(***************************************************************************)
LEMMA CheckTellsOnce ==
  ASSUME OInv, ReactorIdle, NEW s \in Sockets, sock[s] \in {"header", "unsent"},
         NEW h \in Contents, CheckHeaderContents(s, h),
         header' = header \/ header' = [header EXCEPT ![s] = h]
  PROVE  (Counted /\ ToldOnce)'
  <1>1. s \in Waiting /\ sock[s] # "resolving"
    BY DEF Waiting
  <1>2. /\ mFinishedCheckCount \in Int /\ NumSockets \in Nat \ {0}
        /\ \/ InProgress /\ mFinishedCheckCount >= 1 /\ EventsClean
           \/ mFinishedCheckCount < 0
        /\ ~ToldConnected /\ header[s] = NoHeader
    BY <1>1, StillWaiting
  <1>3. events' = events
    BY DEF CheckHeaderContents, handlerRest, registryVars
  <1> DEFINE first == IF mFinishedCheckCount = NumSockets THEN h ELSE mFirstReceivedHeader
  <1>4. mFirstReceivedHeader' = first
    BY DEF CheckHeaderContents
  <1> HIDE DEF first
  <1>5. CASE mFinishedCheckCount < 1
    <2>1. /\ mFinishedCheckCount' = mFinishedCheckCount - 1 /\ sock' = [sock EXCEPT ![s] = "dead"]
          /\ commit' = commit
      BY <1>5 DEF CheckHeaderContents
    <2>2. mFinishedCheckCount' \in Int /\ mFinishedCheckCount' < 0
      BY <1>2, <1>5, <2>1
    <2>3. Counted'
      BY <1>1, <2>1, <2>2, Negative
    <2> QED
      BY <1>2, <1>3, <2>1, <2>3, NoOutcome
  <1>6. CASE mFinishedCheckCount >= 1 /\ first # h
    <2>1. /\ mFinishedCheckCount' = mFinishedCheckCount - NumSockets - 1
          /\ sock' = [sock EXCEPT ![s] = "dead"]
          /\ Report("DISCONNECTED", "ConnectionFailed")
      BY <1>2, <1>6 DEF CheckHeaderContents, first
    <2>2. mFinishedCheckCount' \in Int /\ mFinishedCheckCount' < 0
      <3>1. mFinishedCheckCount <= NumSockets
        BY <1>2, <1>6, WaitingFinite DEF InProgress
      <3> QED
        BY <1>2, <2>1, <3>1
    <2>3. Counted'
      BY <1>1, <2>1, <2>2, Negative
    <2>4. commit'.step = "start" /\ commit'.event = "ConnectionFailed"
      BY <2>1, ReportFields DEF Phases, Told
    <2> QED
      BY <1>2, <1>3, <1>6, <2>3, <2>4, AnOutcome
  <1>7. CASE mFinishedCheckCount >= 1 /\ first = h
    <2>0. InProgress /\ EventsClean
      BY <1>2, <1>7
    <2>1. /\ mFinishedCheckCount' = mFinishedCheckCount - 1
          /\ sock' = [sock EXCEPT ![s] = "reading"]
          /\ mFinishedCheckCount = 1 => Report("CONNECTED", "Connected")
          /\ mFinishedCheckCount # 1 => commit' = commit
      BY <1>2, <1>7 DEF CheckHeaderContents, first
    <2>2. sock \in [Sockets -> SockStates] /\ header \in [Sockets -> Contents \cup {NoHeader}]
      BY DEF OInv, Typed
    <2>3. \A u \in Sockets : sock'[u] = IF u = s THEN "reading" ELSE sock[u]
      BY <2>1, <2>2
    <2>4. Waiting' = Waiting \ {s}
      BY <2>3 DEF Waiting
    <2>5. /\ mFinishedCheckCount = Cardinality(Waiting)
          /\ Cardinality(Waiting') = Cardinality(Waiting) - 1
      BY <1>1, <2>0, <2>4, WaitingFinite, FS_RemoveElement DEF InProgress
    <2>6. \A u \in Sockets : header'[u] \in {NoHeader, mFirstReceivedHeader'}
      <3>1. \A u \in Sockets : header[u] \in {NoHeader, h}
        <4>1. CASE mFinishedCheckCount = NumSockets
          <5>1. Waiting = Sockets
            BY <2>5, <4>1, WaitingFinite
          <5> QED
            BY <5>1 DEF OInv, Counted
        <4>2. CASE mFinishedCheckCount # NumSockets
          BY <1>7, <2>0, <4>2 DEF InProgress, first
        <4> QED
          BY <4>1, <4>2
      <3> QED
        BY <1>4, <1>7, <2>2, <3>1
    <2>7. \A u \in Sockets : sock'[u] # "refused" /\ sock'[u] # "resolving"
      <3>1. \A u \in Sockets : sock[u] # "refused" /\ sock[u] # "resolving"
        BY <1>1, <2>0 DEF OInv, Counted, InProgress
      <3> QED
        BY <2>3, <3>1
    <2>8. \A u \in Waiting' : header'[u] = NoHeader
      <3>1. \A u \in Waiting' : u \in Waiting /\ u # s /\ u \in Sockets
        BY <2>4 DEF Waiting
      <3> QED
        BY <2>2, <3>1 DEF OInv, Counted
    <2>9. mFirstReceivedHeader' \in Contents
      BY <1>4, <1>7
    <2>10. mFinishedCheckCount' \in Int /\ mFinishedCheckCount' >= 0
      BY <1>2, <1>7, <2>1
    <2>11. CASE mFinishedCheckCount = 1
      <3>1. mFinishedCheckCount' = 0
        BY <2>1, <2>11
      <3>2. commit'.step = "start" /\ commit'.event = "Connected"
        BY <2>1, <2>11, ReportFields DEF Phases, Told
      <3>3. InProgress'
        BY <2>1, <2>5, <2>6, <2>7, <3>1 DEF InProgress
      <3>4. Counted'
        BY <2>7, <2>8, <2>9, <3>3 DEF Counted
      <3> QED
        BY <1>3, <2>0, <3>1, <3>2, <3>4, AnOutcome
    <2>12. CASE mFinishedCheckCount # 1
      <3>1. commit' = commit
        BY <2>1, <2>12
      <3>2. ToldOnce' /\ commit'.event \notin Outcomes
        BY <1>2, <1>3, <3>1, NoOutcome
      <3>3. InProgress'
        BY <1>3, <2>0, <2>1, <2>5, <2>6, <2>7, <3>2 DEF InProgress, EventsClean
      <3>4. Counted'
        BY <2>7, <2>8, <2>9, <3>3 DEF Counted
      <3> QED
        BY <3>2, <3>4
    <2> QED
      BY <2>11, <2>12
  <1> QED
    BY <1>2, <1>5, <1>6, <1>7

(***************************************************************************)
(* The other handlers: none reports a second outcome.                      *)
(***************************************************************************)
LEMMA HandlerTellsOnce ==
  ASSUME OInv, HandlerStep
  PROVE  (Counted /\ ToldOnce)'
  <1>1. events' = events /\ ReactorIdle
    BY HandlerCommits DEF OInv, handlerRest, registryVars
  <1>2. /\ sock \in [Sockets -> SockStates] /\ mFinishedCheckCount \in Int
        /\ NumSockets \in Nat \ {0} /\ 0 \in Sockets
    BY WaitingFinite DEF OInv, Typed, Sockets
  <1>3. CASE Resolved \/ ResolveFails
    <2>1. /\ \A s \in Sockets : sock[s] = "resolving"
          /\ UNCHANGED <<mFinishedCheckCount, mFirstReceivedHeader, header>>
      BY <1>3 DEF Resolved, ResolveFails
    <2>2. Waiting = Sockets /\ mFinishedCheckCount = NumSockets
      BY <1>2, <2>1 DEF Waiting, OInv, Counted
    <2>3. InProgress /\ EventsClean
      BY <1>2, <2>2, StillWaiting
    <2>4. CASE Resolved
      <3>1. commit' = commit /\ \A s \in Sockets : sock'[s] = "connecting"
        BY <2>4 DEF Resolved
      <3>2. Waiting' = Sockets
        BY <3>1 DEF Waiting
      <3>3. ToldOnce' /\ commit'.event \notin Outcomes
        BY <1>1, <2>1, <3>1, NoOutcome
      <3>4. InProgress'
        BY <1>1, <2>1, <2>2, <2>3, <3>1, <3>2, <3>3 DEF InProgress, EventsClean
      <3>5. Counted'
        BY <2>1, <2>2, <3>1, <3>2, <3>4 DEF OInv, Counted
      <3> QED
        BY <3>3, <3>5
    <2>5. CASE ResolveFails
      <3>1. /\ Report("DISCONNECTED", "ConnectionFailed")
            /\ \A s \in Sockets : sock'[s] = "refused"
        BY <2>5 DEF ResolveFails
      <3>2. commit'.step = "start" /\ commit'.event = "ConnectionFailed"
        BY <3>1, ReportFields DEF Phases, Told
      <3>3. ToldOnce'
        BY <1>1, <2>3, <3>2, AnOutcome
      <3>4. Waiting' = {} /\ ResolveFailed'
        BY <2>1, <2>2, <3>1 DEF Waiting, ResolveFailed
      <3>5. Counted'
        BY <1>2, <2>1, <2>2, <3>1, <3>4 DEF Counted
      <3> QED
        BY <3>3, <3>5
    <2> QED
      BY <1>3, <2>4, <2>5
  <1>4. ASSUME NEW s \in Sockets, ConnectSucceeds(s)
        PROVE  (Counted /\ ToldOnce)'
    <2>1. /\ sock[s] = "connecting" /\ sock' = [sock EXCEPT ![s] = "header"] /\ commit' = commit
          /\ UNCHANGED <<mFinishedCheckCount, mFirstReceivedHeader, header>>
      BY <1>4 DEF ConnectSucceeds
    <2>2. s \in Waiting
      BY <2>1 DEF Waiting
    <2>3. ToldOnce' /\ commit'.event \notin Outcomes
      BY <1>1, <2>1, NoOutcome
    <2>4. Counted'
      BY <1>1, <2>1, <2>2, <2>3, GoesOn
    <2> QED
      BY <2>3, <2>4
  <1>5. ASSUME NEW s \in Sockets, ConnectFails(s)
        PROVE  (Counted /\ ToldOnce)'
    <2>1. sock[s] = "connecting" /\ UNCHANGED <<mFirstReceivedHeader, header>>
      BY <1>5 DEF ConnectFails
    <2>2. s \in Waiting
      BY <2>1 DEF Waiting
    <2>3. CASE tries[s] > 0
      <3>1. UNCHANGED <<sock, mFinishedCheckCount, commit>>
        BY <1>5, <2>3 DEF ConnectFails
      <3>2. Counted'
        BY <1>1, <2>1, <3>1 DEF OInv, Counted, ResolveFailed, InProgress, Waiting, EventsClean
      <3> QED
        BY <1>1, <3>1, <3>2, NoOutcome
    <2>4. CASE ~(tries[s] > 0) /\ mFinishedCheckCount >= 1
      <3>1. /\ sock' = [sock EXCEPT ![s] = "refused"]
            /\ mFinishedCheckCount' = mFinishedCheckCount - NumSockets - 1
            /\ Report("DISCONNECTED", "ConnectionFailed")
        BY <1>5, <2>4 DEF ConnectFails
      <3>2. InProgress /\ EventsClean
        BY <1>2, <2>2, <2>4, StillWaiting
      <3>3. mFinishedCheckCount' \in Int /\ mFinishedCheckCount' < 0
        BY <1>2, <3>1, <3>2, WaitingFinite DEF InProgress
      <3>4. Counted'
        BY <2>1, <2>2, <3>1, <3>3, Negative
      <3>5. commit'.step = "start" /\ commit'.event = "ConnectionFailed"
        BY <3>1, ReportFields DEF Phases, Told
      <3> QED
        BY <1>1, <3>2, <3>4, <3>5, AnOutcome
    <2>5. CASE ~(tries[s] > 0) /\ ~(mFinishedCheckCount >= 1)
      <3>1. /\ sock' = [sock EXCEPT ![s] = "refused"] /\ commit' = commit
            /\ mFinishedCheckCount' = mFinishedCheckCount - 1
        BY <1>5, <2>5 DEF ConnectFails
      <3>2. mFinishedCheckCount' \in Int /\ mFinishedCheckCount' < 0
        BY <1>2, <2>5, <3>1
      <3>3. Counted'
        BY <2>1, <2>2, <3>1, <3>2, Negative
      <3> QED
        BY <1>1, <2>2, <3>1, <3>3, StillWaiting, NoOutcome
    <2> QED
      BY <2>3, <2>4, <2>5
  <1>6. ASSUME NEW s \in Sockets, HeaderArrives(s)
        PROVE  (Counted /\ ToldOnce)'
    <2>1. /\ sock[s] = "header"
          /\ \E h \in Contents : header' = [header EXCEPT ![s] = h] /\ CheckHeaderContents(s, h)
      BY <1>6 DEF HeaderArrives, Answers
    <2> QED
      BY <1>1, <2>1, CheckTellsOnce
  <1>7. ASSUME NEW s \in Sockets, HeaderFails(s)
        PROVE  (Counted /\ ToldOnce)'
    <2>1. /\ sock[s] \in {"header", "unsent"} /\ header' = header
          /\ \E h \in Contents : CheckHeaderContents(s, h)
      BY <1>7 DEF HeaderFails
    <2> QED
      BY <1>1, <2>1, CheckTellsOnce
  <1>8. ASSUME NEW s \in Sockets, SocketFails(s)
        PROVE  (Counted /\ ToldOnce)'
    <2>1. /\ sock[s] \in {"header", "reading"} /\ Report("DISCONNECTED", "Disconnected")
          /\ UNCHANGED <<mFinishedCheckCount, mFirstReceivedHeader, header>>
      BY <1>8 DEF SocketFails
    <2>2. \/ sock[s] = "header" /\ sock' = [sock EXCEPT ![s] = "unsent"]
          \/ sock[s] = "reading" /\ sock' = [sock EXCEPT ![s] = "dead"]
      BY <1>8 DEF SocketFails
    <2>3. s \in Waiting <=> sock[s] = "header"
      BY <2>1 DEF Waiting
    <2>4. commit'.step = "start" /\ commit'.event = "Disconnected"
      BY <2>1, ReportFields DEF Phases, Told
    <2>5. ToldOnce' /\ commit'.event \notin Outcomes
      BY <1>1, <2>1, <2>4, NoOutcome DEF Outcomes
    <2>6. CASE sock[s] = "header" /\ sock' = [sock EXCEPT ![s] = "unsent"]
      BY <1>1, <2>1, <2>3, <2>5, <2>6, GoesOn
    <2>7. CASE sock[s] = "reading" /\ sock' = [sock EXCEPT ![s] = "dead"]
      BY <1>1, <2>1, <2>3, <2>5, <2>7, GoesOn
    <2> QED
      BY <2>2, <2>6, <2>7
  <1>9. ASSUME NEW s \in Sockets, ReceiveFullChunk(s)
        PROVE  (Counted /\ ToldOnce)'
    <2>1. UNCHANGED <<sock, mFinishedCheckCount, mFirstReceivedHeader, header>>
      BY <1>9 DEF ReceiveFullChunk
    <2>2. commit'.step = "start" /\ commit'.event = "none"
      BY <1>9 DEF ReceiveFullChunk, NoCommit
    <2>3. ToldOnce' /\ commit'.event \notin Outcomes
      BY <1>1, <2>1, <2>2, NoOutcome DEF Outcomes
    <2>4. Counted'
      BY <1>1, <2>1, <2>3 DEF OInv, Counted, ResolveFailed, InProgress, Waiting, EventsClean
    <2> QED
      BY <2>3, <2>4
  <1> QED
    BY <1>3, <1>4, <1>5, <1>6, <1>7, <1>8, <1>9 DEF HandlerStep, Handshake

(***************************************************************************)
(* The count, the sockets and the events agree throughout.                 *)
(***************************************************************************)
LEMMA OutcomeInvariant == Spec => []OInv
  <1>1. Init => OInv
    <2> SUFFICES ASSUME Init
                 PROVE  OInv
      OBVIOUS
    <2>1. Typed
      BY InitTyped
    <2>2. /\ Waiting = Sockets /\ mFinishedCheckCount = NumSockets
          /\ commit.event = "none" /\ \A s \in Sockets : sock[s] = "resolving" /\ header[s] = NoHeader
      BY NoCommitFields DEF Init, Waiting
    <2>3. EventsClean /\ ~ToldConnected
      BY DEF Init, EventsClean, ToldConnected
    <2>4. InProgress
      BY <2>2, <2>3, WaitingFinite DEF InProgress, Outcomes
    <2>5. Counted
      BY <2>2, <2>4, WaitingFinite DEF Counted
    <2>6. ToldOnce
      BY <2>2, <2>3 DEF ToldOnce, EventsClean, Outcomes
    <2> QED
      BY <2>1, <2>5, <2>6 DEF OInv
  <1>2. OInv /\ [Next]_vars => OInv'
    <2> SUFFICES ASSUME OInv, [Next]_vars
                 PROVE  OInv'
      OBVIOUS
    <2>1. Typed'
      BY StepTyped DEF OInv
    <2>2. CASE HandlerStep
      BY <2>1, <2>2, HandlerTellsOnce DEF OInv
    <2>3. CASE Commit
      BY <2>1, <2>3, CommitTellsOnce DEF OInv
    <2>4. CASE \/ \E t \in Users : SendBytes(t) \/ UserStep(t)
               \/ \E g \in Clones : AddCallbacks(g)
               \/ UNCHANGED vars
      <3>1. UNCHANGED <<sock, mFinishedCheckCount, mFirstReceivedHeader, header, commit, events>>
        BY <2>4 DEF SendBytes, UserStep, SendBytesLocked, SendBytesNow, AddCallbacks, userRest,
                    handshakeVars, registryVars, vars
      <3> QED
        BY <2>1, <3>1 DEF OInv, Counted, ResolveFailed, InProgress, Waiting, ToldOnce,
                          ToldConnected, EventsClean
    <2> QED
      BY <2>2, <2>3, <2>4 DEF Next, HandlerStep
  <1> QED
    BY <1>1, <1>2, PTL DEF Spec

(***************************************************************************)
(* A stream is told one outcome of the handshake, and Connected only when  *)
(* every header has been checked and none that arrived disagrees.          *)
(***************************************************************************)
THEOREM OneOutcome == Spec => []HandshakeOutcomeOnce
  <1>1. OInv => HandshakeOutcomeOnce
    <2> SUFFICES ASSUME OInv, ToldConnected
                 PROVE  /\ \A s \in Sockets : sock[s] \in {"reading", "dead"}
                        /\ \E h \in Contents : \A s \in Sockets : header[s] \in {NoHeader, h}
      BY DEF HandshakeOutcomeOnce, OInv, ToldOnce
    <2>1. mFinishedCheckCount = 0 /\ NumSockets \in Nat \ {0}
      BY WaitingFinite DEF OInv, ToldOnce
    <2>2. InProgress /\ mFirstReceivedHeader \in Contents
      BY <2>1 DEF OInv, Counted, ResolveFailed
    <2>3. Waiting = {}
      BY <2>1, <2>2, WaitingFinite DEF InProgress
    <2>4. sock \in [Sockets -> SockStates]
      BY DEF OInv, Typed
    <2> QED
      BY <2>2, <2>3, <2>4 DEF InProgress, Waiting, SockStates
  <1> QED
    BY <1>1, OutcomeInvariant, PTL
=============================================================================
