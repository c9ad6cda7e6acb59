--------------------------- MODULE TCPStreamProofs ---------------------------
(***************************************************************************)
(* Proofs about TCPStream, for any number of senders (below the flag) and  *)
(* up to three closers, any number of sends.                               *)
(*                                                                         *)
(* The word mSendStatus is taken apart: it is the number of senders inside *)
(* send() plus k times the flag, where k is at least 1 once a closer has   *)
(* passed the test of the flag and at most the number of those that have.  *)
(* A closer that reads a pure multiple of the flag therefore knows that    *)
(* nobody is inside, and nobody who comes later gets to send.              *)
(*                                                                         *)
(* The second part is about the other end of a TCPStream's life: the       *)
(* sockets of which ASIOStreamBuilder makes the connection that carries it *)
(* belong together, for any number of clients and sockets.                 *)
(***************************************************************************)
EXTENDS TCPStream, ASIOStreamBuilder, FiniteSetTheorems, SequenceTheorems, TLAPS

Inside == {t \in Senders : pc[t] \in {"send", "leave"}}

Past == {c \in Closers : pc[c] \in {"wait", "announce", "closed"}}

(***************************************************************************)
(* The word holds k flags.                                                 *)
(***************************************************************************)
Flags(k) ==
  /\ mSendStatus = Cardinality(Inside) + k * SendStatusClosing
  /\ k <= Cardinality(Past)
  /\ Past # {} => k >= 1

StatusInv == \E k \in 0..3 : Flags(k)

AnnouncedInv ==
  \A i \in 1..Len(out) :
    out[i] \in Closers => \E c \in Closers : pc[c] = "closed"

TypeInv ==
  /\ pc \in [Threads -> Labels]
  /\ \A t \in Senders : pc[t] \in {"idle", "send", "leave"}
  /\ \A c \in Closers : pc[c] \in {"idle", "add", "wait", "announce", "closed"}
  /\ sends \in [Senders -> 0..MaxSends]
  /\ out \in Seq(Threads)

IInv ==
  /\ TypeInv
  /\ StatusInv
  /\ ClosedMeansQuiet
  /\ AnnouncedInv
  /\ NoDataAfterClose

-----------------------------------------------------------------------------
(* Arithmetic on the word *)

(***************************************************************************)
(* The flags above a count that stays below them can be read off by        *)
(* division, the way send() tests the word.                                *)
(***************************************************************************)
LEMMA FlagsReadable ==
  ASSUME NEW n \in Nat, NEW k \in 0..3, n < SendStatusClosing
  PROVE  Closing(n + k * SendStatusClosing) <=> k # 0
<1>1. (n + k * 536870912) \div 536870912 = k
  <2>1. CASE k = 0  BY <2>1 DEF SendStatusClosing
  <2>2. CASE k = 1  BY <2>2 DEF SendStatusClosing
  <2>3. CASE k = 2  BY <2>3 DEF SendStatusClosing
  <2>4. CASE k = 3  BY <2>4 DEF SendStatusClosing
  <2> QED  BY <2>1, <2>2, <2>3, <2>4
<1>2. k % 4 = k  OBVIOUS
<1> QED  BY <1>1, <1>2 DEF Closing, SendStatusClosing

(***************************************************************************)
(* A pure multiple of the flag, as closeSendStatus waits for, leaves no    *)
(* room for a sender.                                                      *)
(***************************************************************************)
LEMMA PureMeansZero ==
  ASSUME NEW n \in Nat, NEW k \in 0..3, n < SendStatusClosing,
         n + k * SendStatusClosing \in
           {SendStatusClosing, 2 * SendStatusClosing, 3 * SendStatusClosing}
  PROVE  n = 0
BY DEF SendStatusClosing

(***************************************************************************)
(* Both sets of threads are finite, and their sizes stay within bounds.    *)
(***************************************************************************)
LEMMA Sizes ==
  /\ IsFiniteSet(Inside) /\ Cardinality(Inside) \in Nat
  /\ Cardinality(Inside) < SendStatusClosing
  /\ IsFiniteSet(Past) /\ Cardinality(Past) \in 0..3
  /\ \A t \in Senders \ Inside : Cardinality(Inside) + 1 < SendStatusClosing
<1>1. IsFiniteSet(Senders) /\ Cardinality(Senders) \in Nat
      /\ Cardinality(Senders) < SendStatusClosing
  BY StreamAssumption, FS_CardinalityType
<1>2. IsFiniteSet(Closers) /\ Cardinality(Closers) \in 0..3
  BY ClosersAssumption, FS_CardinalityType
<1>3. Inside \subseteq Senders /\ Past \subseteq Closers
  BY DEF Inside, Past
<1>4. /\ IsFiniteSet(Inside) /\ Cardinality(Inside) \in Nat
      /\ Cardinality(Inside) <= Cardinality(Senders)
  BY <1>1, <1>3, FS_Subset, FS_CardinalityType
<1>5. /\ IsFiniteSet(Past) /\ Cardinality(Past) \in Nat
      /\ Cardinality(Past) <= Cardinality(Closers)
  BY <1>2, <1>3, FS_Subset, FS_CardinalityType
<1>6. ASSUME NEW t \in Senders \ Inside
      PROVE  Cardinality(Inside) + 1 < SendStatusClosing
  <2>1. Inside \cup {t} \subseteq Senders  BY <1>3
  <2>2. Cardinality(Inside \cup {t}) = Cardinality(Inside) + 1
    BY <1>4, FS_AddElement
  <2>3. Cardinality(Inside \cup {t}) <= Cardinality(Senders)
    BY <2>1, <1>1, FS_Subset
  <2> QED  BY <2>2, <2>3, <1>1, <1>4 DEF SendStatusClosing
<1>7. Cardinality(Inside) < SendStatusClosing
  BY <1>1, <1>4 DEF SendStatusClosing
<1>8. Cardinality(Past) \in 0..3  BY <1>2, <1>5
<1> QED  BY <1>4, <1>5, <1>6, <1>7, <1>8

-----------------------------------------------------------------------------
(* The invariant is inductive *)

LEMMA InitIInv == Init => IInv
<1> SUFFICES ASSUME Init PROVE IInv  OBVIOUS
<1>1. TypeInv
  BY StreamAssumption DEF Init, TypeInv, Threads, Labels
<1>2. Inside = {} /\ Past = {}
  BY DEF Init, Inside, Past, Threads
<1>3. Flags(0)
  BY <1>2, FS_EmptySet DEF Init, Flags, SendStatusClosing
<1>4. StatusInv  BY <1>3 DEF StatusInv
<1>5. ClosedMeansQuiet /\ AnnouncedInv /\ NoDataAfterClose
  BY DEF Init, ClosedMeansQuiet, AnnouncedInv, NoDataAfterClose, Threads
<1> QED  BY <1>1, <1>4, <1>5 DEF IInv

(***************************************************************************)
(* A thread is a sender or a closer, and never both.                       *)
(***************************************************************************)
LEMMA Roles ==
  /\ \A t \in Senders : t \in Threads /\ t \notin Closers
  /\ \A c \in Closers : c \in Threads /\ c \notin Senders
BY StreamAssumption DEF Threads

(***************************************************************************)
(* send() counts in: it goes on to send only if no flag is there.          *)
(***************************************************************************)
LEMMA EnterSendStep ==
  ASSUME IInv, NEW t \in Senders, EnterSend(t)
  PROVE  IInv'
<1> USE DEF IInv
<1>1. PICK k \in 0..3 : Flags(k)  BY DEF StatusInv
<1>2. t \notin Inside  BY DEF EnterSend, Inside
<1>3. Inside' = Inside \cup {t} /\ Past' = Past
  BY Roles DEF EnterSend, Goto, Inside, Past, TypeInv
<1>4. Cardinality(Inside') = Cardinality(Inside) + 1
  BY <1>2, <1>3, Sizes, FS_AddElement
<1>5. mSendStatus + 1 = (Cardinality(Inside) + 1) + k * SendStatusClosing
  BY <1>1, Sizes DEF Flags, SendStatusClosing
<1>6. Closing(mSendStatus + 1) <=> k # 0
  BY <1>5, <1>2, Sizes, FlagsReadable
<1>7. Flags(k)'
  BY <1>1, <1>3, <1>4, <1>5 DEF Flags, EnterSend
<1>8. StatusInv'  BY <1>7 DEF StatusInv
<1>9. TypeInv'
  <2>1. sends' \in [Senders -> 0..MaxSends]
    BY StreamAssumption DEF EnterSend, TypeInv
  <2> QED  BY <2>1, Roles DEF EnterSend, Goto, TypeInv, Labels
<1>10. ClosedMeansQuiet'
  <2>1. CASE k = 0
    <3>1. Past = {}  BY <1>1, <2>1 DEF Flags
    <3> QED  BY <3>1, <1>3 DEF Past, ClosedMeansQuiet
  <2>2. CASE k # 0
    <3>1. pc'[t] = "leave"  BY <1>6, <2>2, Roles DEF EnterSend, Goto, TypeInv
    <3> QED  BY <3>1, Roles DEF EnterSend, Goto, TypeInv, ClosedMeansQuiet
  <2> QED  BY <2>1, <2>2
<1>11. AnnouncedInv' /\ NoDataAfterClose'
  BY Roles DEF EnterSend, Goto, TypeInv, AnnouncedInv, NoDataAfterClose
<1> QED  BY <1>8, <1>9, <1>10, <1>11

(***************************************************************************)
(* The packet goes out: no closer has announced anything yet.              *)
(***************************************************************************)
LEMMA SendBytesStep ==
  ASSUME IInv, NEW t \in Senders, SendBytes(t)
  PROVE  IInv'
<1> USE DEF IInv
<1>1. Inside' = Inside /\ Past' = Past
  BY Roles DEF SendBytes, Goto, Inside, Past, TypeInv
<1>2. StatusInv'
  <2>1. PICK k \in 0..3 : Flags(k)  BY DEF StatusInv
  <2>2. Flags(k)'  BY <2>1, <1>1 DEF Flags, SendBytes
  <2> QED  BY <2>2 DEF StatusInv
<1>3. TypeInv'
  BY Roles DEF SendBytes, Goto, TypeInv, Labels
<1>4. ClosedMeansQuiet'
  BY Roles DEF SendBytes, Goto, TypeInv, ClosedMeansQuiet
<1>5. \A c \in Closers : pc[c] \notin {"announce", "closed"}
  BY DEF SendBytes, ClosedMeansQuiet
<1>6. \A i \in 1..Len(out) : out[i] \notin Closers
  BY <1>5 DEF AnnouncedInv
<1>7. out \in Seq(Threads) /\ out' = Append(out, t)
  BY DEF SendBytes, TypeInv
<1>8. \A i \in 1..Len(out') : out'[i] \notin Closers
  BY <1>6, <1>7, Roles
<1>9. AnnouncedInv' /\ NoDataAfterClose'
  BY <1>8 DEF AnnouncedInv, NoDataAfterClose
<1> QED  BY <1>2, <1>3, <1>4, <1>9

(***************************************************************************)
(* send() counts out.                                                      *)
(***************************************************************************)
LEMMA LeaveSendStep ==
  ASSUME IInv, NEW t \in Senders, LeaveSend(t)
  PROVE  IInv'
<1> USE DEF IInv
<1>1. PICK k \in 0..3 : Flags(k)  BY DEF StatusInv
<1>2. t \in Inside  BY DEF LeaveSend, Inside
<1>3. Inside' = Inside \ {t} /\ Past' = Past
  BY Roles DEF LeaveSend, Goto, Inside, Past, TypeInv
<1>4. Cardinality(Inside') = Cardinality(Inside) - 1
  BY <1>2, <1>3, Sizes, FS_RemoveElement
<1>5. Flags(k)'
  BY <1>1, <1>3, <1>4, Sizes DEF Flags, LeaveSend, SendStatusClosing
<1>6. StatusInv'  BY <1>5 DEF StatusInv
<1>7. TypeInv'
  BY Roles DEF LeaveSend, Goto, TypeInv, Labels
<1>8. ClosedMeansQuiet'
  BY Roles DEF LeaveSend, Goto, TypeInv, ClosedMeansQuiet
<1>9. AnnouncedInv' /\ NoDataAfterClose'
  BY Roles DEF LeaveSend, Goto, TypeInv, AnnouncedInv, NoDataAfterClose
<1> QED  BY <1>6, <1>7, <1>8, <1>9
(***************************************************************************)
(* A closer that sees the flag, set by another, goes on to wait.           *)
(***************************************************************************)
LEMMA ReadStatusStep ==
  ASSUME IInv, NEW c \in Closers, ReadStatus(c)
  PROVE  IInv'
<1> USE DEF IInv
<1>1. PICK k \in 0..3 : Flags(k)  BY DEF StatusInv
<1>2. Closing(mSendStatus) <=> k # 0
  BY <1>1, Sizes, FlagsReadable DEF Flags
<1>3. Inside' = Inside
  BY Roles DEF ReadStatus, Goto, Inside, TypeInv
<1>4. c \notin Past  BY DEF ReadStatus, Past
<1>5. Flags(k)'
  <2>1. CASE k = 0
    <3>1. Past' = Past  BY <1>2, <2>1, Roles DEF ReadStatus, Goto, Past, TypeInv
    <3> QED  BY <3>1, <1>1, <1>3 DEF Flags, ReadStatus
  <2>2. CASE k # 0
    <3>1. Past' = Past \cup {c}
      BY <1>2, <2>2, Roles DEF ReadStatus, Goto, Past, TypeInv
    <3>2. Cardinality(Past') = Cardinality(Past) + 1
      BY <3>1, <1>4, Sizes, FS_AddElement
    <3> QED  BY <3>2, <2>2, <1>1, <1>3, Sizes DEF Flags, ReadStatus
  <2> QED  BY <2>1, <2>2
<1>6. StatusInv'  BY <1>5 DEF StatusInv
<1>7. TypeInv'  BY Roles DEF ReadStatus, Goto, TypeInv, Labels
<1>8. ClosedMeansQuiet'
  BY Roles DEF ReadStatus, Goto, TypeInv, ClosedMeansQuiet
<1>9. AnnouncedInv' /\ NoDataAfterClose'
  BY Roles DEF ReadStatus, Goto, TypeInv, AnnouncedInv, NoDataAfterClose
<1> QED  BY <1>6, <1>7, <1>8, <1>9

(***************************************************************************)
(* One more flag, by a closer that had not passed yet.                     *)
(***************************************************************************)
LEMMA AddClosingStep ==
  ASSUME IInv, NEW c \in Closers, AddClosing(c)
  PROVE  IInv'
<1> USE DEF IInv
<1>1. PICK k \in 0..3 : Flags(k)  BY DEF StatusInv
<1>2. Inside' = Inside /\ Past' = Past \cup {c} /\ c \notin Past
  BY Roles DEF AddClosing, Goto, Inside, Past, TypeInv
<1>3. Cardinality(Past') = Cardinality(Past) + 1
  BY <1>2, Sizes, FS_AddElement
<1>4. Cardinality(Past') <= 3
  <2>1. Past' \subseteq Closers  BY <1>2 DEF Past
  <2>2. Cardinality(Past') <= Cardinality(Closers)
    BY <2>1, ClosersAssumption, FS_Subset
  <2> QED  BY <2>2, <1>3, Sizes, ClosersAssumption, FS_CardinalityType
<1>5. k + 1 \in 0..3  BY <1>1, <1>3, <1>4, Sizes DEF Flags
<1>6. Flags(k + 1)'
  BY <1>1, <1>2, <1>3, Sizes DEF Flags, AddClosing, SendStatusClosing
<1>7. StatusInv'  BY <1>5, <1>6 DEF StatusInv
<1>8. TypeInv'  BY Roles DEF AddClosing, Goto, TypeInv, Labels
<1>9. ClosedMeansQuiet'
  BY Roles DEF AddClosing, Goto, TypeInv, ClosedMeansQuiet
<1>10. AnnouncedInv' /\ NoDataAfterClose'
  BY Roles DEF AddClosing, Goto, TypeInv, AnnouncedInv, NoDataAfterClose
<1> QED  BY <1>7, <1>8, <1>9, <1>10

(***************************************************************************)
(* A closer comes out of the loop: the word is flags only, so nobody is    *)
(* inside send().                                                          *)
(***************************************************************************)
LEMMA WaitForSendersStep ==
  ASSUME IInv, NEW c \in Closers, WaitForSenders(c)
  PROVE  IInv'
<1> USE DEF IInv
<1>1. PICK k \in 0..3 : Flags(k)  BY DEF StatusInv
<1>2. Cardinality(Inside) = 0
  BY <1>1, Sizes, PureMeansZero DEF Flags, WaitForSenders
<1>3. Inside = {}  BY <1>2, Sizes, FS_EmptySet
<1>4. Inside' = Inside /\ Past' = Past
  BY Roles DEF WaitForSenders, Goto, Inside, Past, TypeInv
<1>5. Flags(k)'  BY <1>1, <1>4 DEF Flags, WaitForSenders
<1>6. StatusInv'  BY <1>5 DEF StatusInv
<1>7. TypeInv'  BY Roles DEF WaitForSenders, Goto, TypeInv, Labels
<1>8. ClosedMeansQuiet'  BY <1>3, <1>4 DEF Inside, ClosedMeansQuiet
<1>9. AnnouncedInv' /\ NoDataAfterClose'
  BY Roles DEF WaitForSenders, Goto, TypeInv, AnnouncedInv, NoDataAfterClose
<1> QED  BY <1>6, <1>7, <1>8, <1>9

(***************************************************************************)
(* A control packet goes out after everything sent so far.                 *)
(***************************************************************************)
LEMMA AnnounceStep ==
  ASSUME IInv, NEW c \in Closers, Announce(c)
  PROVE  IInv'
<1> USE DEF IInv
<1>1. PICK k \in 0..3 : Flags(k)  BY DEF StatusInv
<1>2. Inside' = Inside /\ Past' = Past
  BY Roles DEF Announce, Goto, Inside, Past, TypeInv
<1>3. Flags(k)'  BY <1>1, <1>2 DEF Flags, Announce
<1>4. StatusInv'  BY <1>3 DEF StatusInv
<1>5. TypeInv'  BY Roles DEF Announce, Goto, TypeInv, Labels
<1>6. ClosedMeansQuiet'
  BY Roles DEF Announce, Goto, TypeInv, ClosedMeansQuiet
<1>7. AnnouncedInv'
  BY Roles DEF Announce, Goto, TypeInv, AnnouncedInv
<1>8. NoDataAfterClose'
  <2>1. out \in Seq(Threads) /\ out' = Append(out, c)
    BY DEF Announce, TypeInv
  <2>2. SUFFICES ASSUME NEW i \in 1..Len(out'), NEW j \in 1..Len(out'),
                        i < j, out'[i] \in Closers
                 PROVE  out'[j] \notin Senders
    BY DEF NoDataAfterClose
  <2>3. CASE j = Len(out')  BY <2>1, <2>3, Roles
  <2>4. CASE j # Len(out')
    <3>1. i \in 1..Len(out) /\ j \in 1..Len(out)  BY <2>1, <2>2, <2>4
    <3>2. out'[i] = out[i] /\ out'[j] = out[j]  BY <2>1, <3>1
    <3> QED  BY <2>2, <3>1, <3>2 DEF NoDataAfterClose
  <2> QED  BY <2>3, <2>4
<1> QED  BY <1>4, <1>5, <1>6, <1>7, <1>8

LEMMA NextIInv == IInv /\ [Next]_vars => IInv'
<1> SUFFICES ASSUME IInv, [Next]_vars PROVE IInv'  OBVIOUS
<1>1. ASSUME NEW t \in Senders, EnterSend(t) \/ SenderStep(t) PROVE IInv'
  BY <1>1, EnterSendStep, SendBytesStep, LeaveSendStep DEF SenderStep
<1>2. ASSUME NEW c \in Closers, ReadStatus(c) \/ CloserStep(c) PROVE IInv'
  BY <1>2, ReadStatusStep, AddClosingStep, WaitForSendersStep, AnnounceStep
     DEF CloserStep
<1>3. CASE UNCHANGED vars
  BY <1>3 DEF vars, IInv, TypeInv, StatusInv, Flags, Inside, Past,
     ClosedMeansQuiet, AnnouncedInv, NoDataAfterClose
<1> QED  BY <1>1, <1>2, <1>3 DEF Next

-----------------------------------------------------------------------------
(* The theorems *)

(***************************************************************************)
(* The decomposition of the word holds in every reachable state.           *)
(***************************************************************************)
THEOREM Invariance == Spec => []IInv
BY InitIInv, NextIInv, PTL DEF Spec

(***************************************************************************)
(* The word never becomes negative and every variable keeps its type.      *)
(***************************************************************************)
THEOREM TypeCorrect == Spec => []TypeOK
<1>1. IInv => TypeOK
  <2> SUFFICES ASSUME IInv PROVE TypeOK  OBVIOUS
  <2>1. PICK k \in 0..3 : Flags(k)  BY DEF IInv, StatusInv
  <2>2. mSendStatus \in Nat  BY <2>1, Sizes DEF Flags, SendStatusClosing
  <2> QED  BY <2>2 DEF IInv, TypeInv, TypeOK
<1> QED  BY <1>1, Invariance, PTL

(***************************************************************************)
(* When closeSendStatus has returned in any thread, no thread is between   *)
(* the test of mSendStatus in send() and the end of its sendBytes.         *)
(***************************************************************************)
THEOREM ClosingIsQuiet == Spec => []ClosedMeansQuiet
<1>1. IInv => ClosedMeansQuiet  BY DEF IInv
<1> QED  BY <1>1, Invariance, PTL

(***************************************************************************)
(* No data packet of a stream is given to the sockets after a control      *)
(* packet that closes it.                                                  *)
(***************************************************************************)
THEOREM CloseIsLast == Spec => []NoDataAfterClose
<1>1. IInv => NoDataAfterClose  BY DEF IInv
<1> QED  BY <1>1, Invariance, PTL

-----------------------------------------------------------------------------
(***************************************************************************)
(* The listener's end: ASIOStreamBuilder, for any clients, any numbers of  *)
(* sockets and whatever numbers the clients announce.  Every connection is *)
(* made of the sockets of one client, and a client that announces the      *)
(* number of its sockets on each of them gets one connection.              *)
(***************************************************************************)
SocketStates == {"connecting", "header", "paired", "dropped"}

Connections == [client : Clients, sockets : Seq(Nat), open : BOOLEAN]

BuilderTypeOK ==
  /\ DOMAIN sock = Clients /\ sock = [c \in Clients |-> sock[c]]
  /\ \A c \in Clients : sock[c] \in [SocketsOf(c) -> SocketStates]
  /\ DOMAIN sIncompleteStreams \subseteq Clients
  /\ \A c \in DOMAIN sIncompleteStreams : sIncompleteStreams[c].mNumSockets \in Nat
  /\ built \in Seq(Connections)

(***************************************************************************)
(* s are different sockets of client c, paired in k, that announce n.      *)
(***************************************************************************)
Together(k, c, s, n) ==
  /\ s \in Seq(SocketsOf(c))
  /\ \A i, j \in DOMAIN s : s[i] = s[j] => i = j
  /\ \A i \in DOMAIN s : k[c][s[i]] = "paired" /\ Announces[c][s[i]] % 100 = n

Waiting ==
  \A c \in DOMAIN sIncompleteStreams :
    Together(sock, c, sIncompleteStreams[c].mSockets, sIncompleteStreams[c].mNumSockets)

Whole ==
  \A b \in DOMAIN built :
    /\ built[b].sockets # <<>>
    /\ Together(sock, built[b].client, built[b].sockets, Len(built[b].sockets))

OneEach ==
  \A b, d \in DOMAIN built :
    b # d /\ Honest(built[b].client) /\ Opens[built[b].client] < 100 =>
      built[b].client # built[d].client

BuilderInv == BuilderTypeOK /\ Waiting /\ Whole /\ OneEach

(***************************************************************************)
(* The two digits of the header carry the number modulo 100.               *)
(***************************************************************************)
LEMMA TwoDigits ==
  ASSUME NEW n \in Nat
  PROVE  NumConnections(CopyHeader(n)) = n % 100 /\ n % 100 \in Nat
  <1>1. PICK q \in Nat, u \in 0..9 : q = n \div 10 /\ u = n % 10 /\ n = 10 * q + u
    OBVIOUS
  <1>2. PICK h \in Nat, t \in 0..9 : h = q \div 10 /\ t = q % 10 /\ q = 10 * h + t
    BY <1>1
  <1>3. n = 100 * h + (10 * t + u) /\ 10 * t + u \in 0..99
    BY <1>1, <1>2
  <1>4. n % 100 = t * 10 + u /\ n % 100 \in Nat
    BY <1>1, <1>2, <1>3
  <1>5. CopyHeader(n) = <<t, u>>
    BY <1>1, <1>2 DEF CopyHeader
  <1>6. NumConnections(<<t, u>>) = t * 10 + u
    BY DEF NumConnections
  <1> QED
    BY <1>4, <1>5, <1>6

(***************************************************************************)
(* A connection belongs to a client.                                       *)
(***************************************************************************)
LEMMA ClientsKnown ==
  ASSUME BuilderTypeOK
  PROVE  \A b \in DOMAIN built : built[b].client \in Clients
  <1>1. \A b \in DOMAIN built : built[b] \in Connections
    BY DEF BuilderTypeOK
  <1> QED
    BY <1>1 DEF Connections

(***************************************************************************)
(* A socket changes its state, but not from paired.                        *)
(***************************************************************************)
LEMMA SocketStep ==
  ASSUME BuilderTypeOK, NEW c \in Clients, NEW i \in SocketsOf(c), NEW v \in SocketStates,
         sock[c][i] # "paired", sock' = [sock EXCEPT ![c][i] = v]
  PROVE  /\ DOMAIN sock' = Clients /\ sock' = [d \in Clients |-> sock'[d]]
         /\ \A d \in Clients : sock'[d] \in [SocketsOf(d) -> SocketStates]
         /\ sock'[c][i] = v
         /\ \A d \in Clients : \A s, n : Together(sock, d, s, n) => Together(sock', d, s, n)
  <1>1. /\ DOMAIN sock' = Clients /\ sock' = [d \in Clients |-> sock'[d]]
        /\ sock'[c] = [sock[c] EXCEPT ![i] = v]
        /\ \A d \in Clients \ {c} : sock'[d] = sock[d]
    BY DEF BuilderTypeOK
  <1>2. /\ sock'[c] \in [SocketsOf(c) -> SocketStates] /\ sock'[c][i] = v
        /\ \A k \in SocketsOf(c) : k # i => sock'[c][k] = sock[c][k]
    BY <1>1 DEF BuilderTypeOK
  <1>3. \A d \in Clients : sock'[d] \in [SocketsOf(d) -> SocketStates]
    BY <1>1, <1>2 DEF BuilderTypeOK
  <1>4. \A d \in Clients : \A k \in SocketsOf(d) : sock[d][k] = "paired" => sock'[d][k] = "paired"
    BY <1>1, <1>2
  <1>5. ASSUME NEW d \in Clients, NEW s, NEW n, Together(sock, d, s, n)
        PROVE  Together(sock', d, s, n)
    <2>1. s \in Seq(SocketsOf(d)) /\ \A k \in DOMAIN s : s[k] \in SocketsOf(d)
      BY <1>5 DEF Together
    <2> QED
      BY <1>4, <1>5, <2>1 DEF Together
  <1> QED
    BY <1>1, <1>2, <1>3, <1>5

(***************************************************************************)
(* One more socket joins: it is new, since it was not paired before.       *)
(***************************************************************************)
LEMMA Joined ==
  ASSUME NEW c \in Clients, NEW i \in SocketsOf(c), NEW s, NEW n,
         Together(sock, c, s, n), sock[c][i] # "paired", Together(sock', c, s, n), sock'[c][i] = "paired",
         Announces[c][i] % 100 = n
  PROVE  Together(sock', c, Append(s, i), n) /\ Len(Append(s, i)) = Len(s) + 1
  <1> DEFINE t == Append(s, i)
             m == Len(s)
  <1>1. s \in Seq(SocketsOf(c)) /\ m \in Nat /\ DOMAIN s = 1..m
    BY DEF Together
  <1>2. /\ t \in Seq(SocketsOf(c)) /\ DOMAIN t = 1..(m + 1) /\ t[m + 1] = i /\ Len(t) = m + 1
        /\ \A k \in 1..m : t[k] = s[k]
    BY <1>1
  <1>3. \A k \in 1..m : s[k] # i
    BY <1>1 DEF Together
  <1> HIDE DEF t, m
  <1>4. \A k \in 1..(m + 1) : k \in 1..m \/ k = m + 1
    BY <1>1
  <1>5. \A k, l \in DOMAIN t : t[k] = t[l] => k = l
    BY <1>1, <1>2, <1>3, <1>4 DEF Together
  <1>6. \A k \in DOMAIN t : sock'[c][t[k]] = "paired" /\ Announces[c][t[k]] % 100 = n
    BY <1>1, <1>2, <1>4 DEF Together
  <1>7. Together(sock', c, t, n)
    BY <1>2, <1>5, <1>6 DEF Together
  <1> QED
    BY <1>2, <1>7 DEF t, m

(***************************************************************************)
(* A count below a hundred is what its two digits say.                     *)
(***************************************************************************)
LEMMA BelowHundred == ASSUME NEW k \in Nat, k < 100 PROVE k % 100 = k
  OBVIOUS

(***************************************************************************)
(* The connection of an honest client has all of its sockets.              *)
(***************************************************************************)
LEMMA NothingLeft ==
  ASSUME NEW c \in Clients, Honest(c), Opens[c] < 100, NEW s, s # <<>>, Together(sock, c, s, Len(s))
  PROVE  \A i \in SocketsOf(c) : sock[c][i] = "paired"
  <1> DEFINE n == Opens[c]
  <1>1. n \in Nat
    BY BuilderAssumption
  <1>2. s \in Seq(1..n) /\ Len(s) \in Nat /\ DOMAIN s = 1..Len(s) /\ 1 \in DOMAIN s /\ s[1] \in 1..n
    <2>1. s \in Seq(1..n)
      BY DEF Together, SocketsOf
    <2>2. Len(s) \in Nat /\ DOMAIN s = 1..Len(s) /\ Len(s) # 0
      BY <2>1
    <2>3. 1 \in DOMAIN s
      BY <2>2
    <2>4. s[1] \in 1..n
      BY <2>1, <2>2, <2>3, ElementOfSeq
    <2> QED
      BY <2>1, <2>2, <2>3, <2>4
  <1>3. Len(s) = n
    <2>1. Announces[c][s[1]] = n /\ Announces[c][s[1]] % 100 = Len(s)
      BY <1>2 DEF Together, Honest, SocketsOf
    <2>2. n % 100 = n
      BY <1>1, BelowHundred
    <2> QED
      BY <2>1, <2>2
  <1>4. s \in [1..n -> 1..n] /\ \A i, j \in 1..n : s[i] = s[j] => i = j
    BY <1>2, <1>3, LenProperties DEF Together
  <1>5. s \in Surjection(1..n, 1..n)
    <2>1. s \in Injection(1..n, 1..n)
      BY <1>4 DEF Injection, IsInjective
    <2>2. IsFiniteSet(1..n)
      BY <1>1, FS_Interval
    <2> QED
      BY <2>1, <2>2, FS_Injection
  <1>6. \A i \in 1..n : \E k \in 1..n : s[k] = i
    BY <1>5 DEF Surjection
  <1> QED
    <2>1. \A k \in 1..n : sock[c][s[k]] = "paired"
      BY <1>2, <1>3 DEF Together
    <2> QED
      BY <1>6, <2>1 DEF SocketsOf

(***************************************************************************)
(* buildStream.                                                            *)
(***************************************************************************)
LEMMA BuildStep ==
  ASSUME BuilderInv, NEW c \in Clients, NEW i \in SocketsOf(c), BuildStream(c, i)
  PROVE  BuilderInv'
  <1>1. PICK num : num = NumConnections(CopyHeader(Announces[c][i]))
    OBVIOUS
  <1>2. Announces[c][i] \in Nat
    BY BuilderAssumption DEF SocketsOf
  <1>3. num = Announces[c][i] % 100 /\ num \in Nat
    BY <1>1, <1>2, TwoDigits
  <1>4. PICK old : old = EntryOf(c, num).mSockets
    OBVIOUS
  <1>5. PICK s : s = Append(old, i)
    OBVIOUS
  <1>6. /\ sock[c][i] = "header"
        /\ \/ Discard(c, i)
           \/ num = EntryOf(c, num).mNumSockets /\ num = Len(s) /\ Complete(c, i, s)
           \/ num = EntryOf(c, num).mNumSockets /\ Collect(c, i, num, s)
    BY <1>1, <1>4, <1>5 DEF BuildStream
  <1>7. \A d \in Clients : \A t, n : Together(sock, d, t, n) => Together(sock', d, t, n)
    BY <1>6, SocketStep DEF BuilderInv, Discard, Complete, Collect, SocketStates
  <1>8. /\ DOMAIN sock' = Clients /\ sock' = [d \in Clients |-> sock'[d]]
        /\ \A d \in Clients : sock'[d] \in [SocketsOf(d) -> SocketStates]
    BY <1>6, SocketStep DEF BuilderInv, Discard, Complete, Collect, SocketStates
  <1>9. ASSUME num = EntryOf(c, num).mNumSockets, sock' = [sock EXCEPT ![c][i] = "paired"]
        PROVE  Together(sock', c, s, num) /\ Len(s) = Len(old) + 1
    <2>1. Together(sock, c, old, num)
      <3>1. CASE c \in DOMAIN sIncompleteStreams
        BY <1>4, <1>9, <3>1 DEF BuilderInv, Waiting, EntryOf
      <3>2. CASE c \notin DOMAIN sIncompleteStreams
        <4>1. old = <<>>
          BY <1>4, <3>2 DEF EntryOf
        <4>2. <<>> \in Seq(SocketsOf(c)) /\ DOMAIN <<>> = {}
          OBVIOUS
        <4> QED
          BY <4>1, <4>2 DEF Together
      <3> QED
        BY <3>1, <3>2
    <2>2. Together(sock', c, old, num) /\ sock'[c][i] = "paired"
      BY <1>6, <1>7, <1>9, <2>1, SocketStep DEF BuilderInv, SocketStates
    <2> QED
      BY <1>3, <1>5, <1>6, <2>1, <2>2, Joined
  <1>10. \A b \in DOMAIN built : built[b].client \in Clients
    BY ClientsKnown DEF BuilderInv
  <1>11. ASSUME Discard(c, i) \/ Complete(c, i, s)
         PROVE  /\ DOMAIN sIncompleteStreams' \subseteq Clients /\ Waiting'
                /\ \A d \in DOMAIN sIncompleteStreams' : sIncompleteStreams'[d].mNumSockets \in Nat
    <2>1. /\ DOMAIN sIncompleteStreams' = DOMAIN sIncompleteStreams \ {c}
          /\ \A d \in DOMAIN sIncompleteStreams' : sIncompleteStreams'[d] = sIncompleteStreams[d]
      BY <1>11 DEF Discard, Complete, Without
    <2> QED
      BY <1>7, <2>1 DEF BuilderInv, BuilderTypeOK, Waiting
  <1>12. CASE Discard(c, i)
    <2>1. built' = built
      BY <1>12 DEF Discard
    <2>2. BuilderTypeOK'
      BY <1>8, <1>11, <1>12, <2>1 DEF BuilderInv, BuilderTypeOK
    <2>3. Whole' /\ OneEach'
      BY <1>7, <1>10, <2>1 DEF BuilderInv, Whole, OneEach
    <2> QED
      BY <1>11, <1>12, <2>2, <2>3 DEF BuilderInv
  <1>13. CASE num = EntryOf(c, num).mNumSockets /\ num = Len(s) /\ Complete(c, i, s)
    <2> DEFINE new == [client |-> c, sockets |-> s, open |-> c \notin Refused]
               m == Len(built)
    <2>1. Together(sock', c, s, Len(s)) /\ s # <<>>
      <3>1. sock' = [sock EXCEPT ![c][i] = "paired"]
        BY <1>13 DEF Complete
      <3>3. Together(sock', c, s, num) /\ num = Len(s)
        BY <1>9, <1>13, <3>1
      <3>2. s # <<>>
        BY <1>5
      <3> QED
        BY <3>2, <3>3
    <2>2. new \in Connections /\ new.client = c /\ new.sockets = s
      <3>1. s \in Seq(SocketsOf(c)) /\ SocketsOf(c) \subseteq Nat
        BY <2>1 DEF Together, SocketsOf
      <3>2. s \in Seq(Nat)
        BY <3>1, SeqMonotonic
      <3> QED
        BY <3>2 DEF Connections
    <2>3. /\ built \in Seq(Connections) /\ built' = Append(built, new)
          /\ m \in Nat /\ DOMAIN built = 1..m
      BY <1>13 DEF Complete, BuilderInv, BuilderTypeOK
    <2> HIDE DEF new
    <2>4. /\ built' \in Seq(Connections) /\ DOMAIN built' = 1..(m + 1) /\ built'[m + 1] = new
          /\ \A b \in 1..m : built'[b] = built[b]
      BY <2>2, <2>3
    <2> HIDE DEF m
    <2>5. \A b \in 1..(m + 1) : b \in 1..m \/ b = m + 1
      BY <2>3
    <2>6. BuilderTypeOK'
      BY <1>8, <1>11, <1>13, <2>4 DEF BuilderInv, BuilderTypeOK
    <2>7. Whole'
      <3>1. ASSUME NEW b \in 1..m
            PROVE  /\ built'[b].sockets # <<>>
                   /\ Together(sock', built'[b].client, built'[b].sockets, Len(built'[b].sockets))
        BY <1>7, <1>10, <2>3, <2>4 DEF BuilderInv, Whole
      <3> QED
        BY <2>1, <2>2, <2>4, <2>5, <3>1 DEF Whole
    <2>8. ASSUME NEW b \in 1..m, Honest(c), Opens[c] < 100
          PROVE  built[b].client # c
      <3> SUFFICES ASSUME built[b].client = c
                   PROVE  FALSE
        OBVIOUS
      <3>1. PICK t : t = built[b].sockets
        OBVIOUS
      <3>2. Together(sock, c, t, Len(t)) /\ t # <<>>
        BY <2>3, <3>1 DEF BuilderInv, Whole
      <3> QED
        BY <1>6, <2>8, <3>2, NothingLeft
    <2>9. OneEach'
      BY <2>2, <2>3, <2>4, <2>5, <2>8 DEF BuilderInv, OneEach
    <2> QED
      BY <1>11, <1>13, <2>6, <2>7, <2>9 DEF BuilderInv
  <1>14. CASE num = EntryOf(c, num).mNumSockets /\ Collect(c, i, num, s)
    <2>1. /\ DOMAIN sIncompleteStreams' = DOMAIN sIncompleteStreams \cup {c}
          /\ sIncompleteStreams'[c].mNumSockets = num /\ sIncompleteStreams'[c].mSockets = s
          /\ \A d \in DOMAIN sIncompleteStreams : d # c => sIncompleteStreams'[d] = sIncompleteStreams[d]
          /\ built' = built
      BY <1>14 DEF Collect, With
    <2>2. Together(sock', c, s, num)
      BY <1>9, <1>14 DEF Collect
    <2>3. Waiting'
      <3>1. ASSUME NEW d \in DOMAIN sIncompleteStreams'
            PROVE  Together(sock', d, sIncompleteStreams'[d].mSockets, sIncompleteStreams'[d].mNumSockets)
        <4>1. CASE d = c
          BY <2>1, <2>2, <4>1
        <4>2. CASE d # c
          BY <1>7, <2>1, <4>2 DEF BuilderInv, Waiting, BuilderTypeOK
        <4> QED
          BY <4>1, <4>2
      <3> QED
        BY <3>1 DEF Waiting
    <2>4. BuilderTypeOK'
      BY <1>3, <1>8, <2>1 DEF BuilderInv, BuilderTypeOK
    <2>5. Whole' /\ OneEach'
      BY <1>7, <1>10, <2>1 DEF BuilderInv, Whole, OneEach
    <2> QED
      BY <2>3, <2>4, <2>5 DEF BuilderInv
  <1> QED
    BY <1>6, <1>12, <1>13, <1>14

(***************************************************************************)
(* Every connection has the sockets that belong together, and no others,   *)
(* however the headers of the clients interleave.                          *)
(***************************************************************************)
THEOREM SocketsBelongTogether ==
  BuilderSpec => []ConnectionsWhole
  <1>1. BuilderInit => BuilderInv
    <2> SUFFICES ASSUME BuilderInit
                 PROVE  BuilderInv
      OBVIOUS
    <2>1. DOMAIN <<>> = {} /\ <<>> \in Seq(Connections)
      OBVIOUS
    <2>2. BuilderTypeOK
      BY <2>1 DEF BuilderInit, BuilderTypeOK, SocketStates
    <2> QED
      BY <2>1, <2>2 DEF BuilderInit, BuilderInv, Waiting, Whole, OneEach
  <1>2. BuilderInv /\ [BuilderNext]_builderVars => BuilderInv'
    <2> SUFFICES ASSUME BuilderInv, [BuilderNext]_builderVars
                 PROVE  BuilderInv'
      OBVIOUS
    <2>1. ASSUME NEW c \in Clients, NEW i \in SocketsOf(c), HandleAccept(c, i) \/ BadHeader(c, i)
          PROVE  BuilderInv'
      <3>1. /\ sock[c][i] # "paired" /\ UNCHANGED <<sIncompleteStreams, built>>
            /\ \E v \in SocketStates : sock' = [sock EXCEPT ![c][i] = v]
        BY <2>1 DEF HandleAccept, BadHeader, SocketStates
      <3>2. /\ DOMAIN sock' = Clients /\ sock' = [d \in Clients |-> sock'[d]]
            /\ \A d \in Clients : sock'[d] \in [SocketsOf(d) -> SocketStates]
            /\ \A d \in Clients : \A s, n : Together(sock, d, s, n) => Together(sock', d, s, n)
        BY <3>1, SocketStep DEF BuilderInv
      <3>3. \A b \in DOMAIN built : built[b].client \in Clients
        BY ClientsKnown DEF BuilderInv
      <3>4. BuilderTypeOK'
        BY <3>1, <3>2 DEF BuilderInv, BuilderTypeOK
      <3>5. Waiting' /\ Whole' /\ OneEach'
        BY <3>1, <3>2, <3>3 DEF BuilderInv, BuilderTypeOK, Waiting, Whole, OneEach
      <3> QED
        BY <3>4, <3>5 DEF BuilderInv
    <2>2. CASE AcceptFails \/ UNCHANGED builderVars
      <3>1. UNCHANGED <<sock, sIncompleteStreams, built>>
        BY <2>2 DEF AcceptFails, builderVars
      <3>2. BuilderTypeOK'
        BY <3>1 DEF BuilderInv, BuilderTypeOK
      <3>3. Waiting' /\ Whole' /\ OneEach'
        BY <3>1 DEF BuilderInv, Waiting, Whole, OneEach
      <3> QED
        BY <3>2, <3>3 DEF BuilderInv
    <2> QED
      BY <2>1, <2>2, BuildStep DEF BuilderNext, Handler
  <1>3. BuilderInv => ConnectionsWhole
    <2> SUFFICES ASSUME BuilderInv
                 PROVE  ConnectionsWhole
      OBVIOUS
    <2>1. built \in Seq(Connections) /\ DOMAIN built = 1..Len(built)
      BY DEF BuilderInv, BuilderTypeOK
    <2>2. ASSUME NEW b \in 1..Len(built)
          PROVE  /\ \A i, j \in 1..Len(built[b].sockets) : built[b].sockets[i] = built[b].sockets[j] => i = j
                 /\ \A i \in 1..Len(built[b].sockets) :
                      /\ sock[built[b].client][built[b].sockets[i]] = "paired"
                      /\ Announces[built[b].client][built[b].sockets[i]] % 100 = Len(built[b].sockets)
      BY <2>1 DEF BuilderInv, Whole, Together
    <2> QED
      BY <2>1, <2>2 DEF BuilderInv, OneEach, ConnectionsWhole
  <1> QED
    BY <1>1, <1>2, <1>3, PTL DEF BuilderSpec
=============================================================================
