----------------------- MODULE ASIOSocketWrapperProofs -----------------------
(***************************************************************************)
(* Proofs about ASIOSocketWrapper, for any number of senders (below the    *)
(* flag), any number of chunks, with and without failing sends.            *)
(*                                                                         *)
(* The word mSendingStatus is taken apart: the number of threads that have *)
(* counted themselves in, plus one flag if the torch is held, plus the     *)
(* other if its holder is checking the queue.  The thread that reads 1     *)
(* therefore knows that nobody holds the torch and that nobody else is in, *)
(* and everybody who comes later sees that it is not alone.                *)
(*                                                                         *)
(* The order of the chunks rests on it: the chosen thread bypasses the     *)
(* queue, and while nobody keeps the queue it only holds chunks of threads *)
(* that are still inside rawSend.                                          *)
(***************************************************************************)
EXTENDS ASIOSocketWrapper, FiniteSetTheorems, SequenceTheorems, TLAPS

CountedLabels == {"commit", "push", "leave", "back", "torch"}

CheckLabels == {"swap", "release", "promise"}

HoldLabels == CheckLabels \cup {"finish", "wire"}

Counted == {t \in Senders : pc[t] \in CountedLabels}

Checking == \E a \in Agents : pc[a] \in CheckLabels

(***************************************************************************)
(* The send flag is set on somebody's account: an agent's, that of the     *)
(* outstanding async_send, or that of the one that failed.                 *)
(***************************************************************************)
Holding ==
  \/ \E a \in Agents : pc[a] \in HoldLabels
  \/ inFlight # {}
  \/ leaked # <<>>

StatusInv ==
  mSendingStatus = Cardinality(Counted)
                     + (IF Holding THEN ASYNCHRONOUS_SEND_FLAG ELSE 0)
                     + (IF Checking THEN QUEUE_CHECK_FLAG ELSE 0)

ReactorInv == pc[Reactor] \in HoldLabels \cup {"idle"}

(***************************************************************************)
(* One torch, also against the send that failed.                           *)
(***************************************************************************)
Exclusive ==
  /\ OneTorch
  /\ leaked # <<>> => inFlight = {} /\ \A a \in Agents : pc[a] \notin TorchLabels

BatchInv ==
  /\ \A b \in inFlight : b # <<>>
  /\ \A a \in Agents : pc[a] \in {"commit", "promise", "wire"} => toSend[a] # <<>>
  /\ \A t \in Senders :
       pc[t] = "push" => toSend[t] = <<[from |-> t, n |-> issued[t]]>>

IssuedInv == \A t \in Senders : pc[t] # "idle" => issued[t] >= 1

NoFailure == \A a \in Agents : pc[a] # "assert_failed"

IInv ==
  /\ TypeOK
  /\ ReactorInv
  /\ Exclusive
  /\ BatchInv
  /\ IssuedInv
  /\ NoFailure
  /\ StatusInv
  /\ QueuedChunkHasKeeper

-----------------------------------------------------------------------------
(* Arithmetic on the word *)

(***************************************************************************)
(* Both flags can be read off a word whose count stays below them.         *)
(***************************************************************************)
LEMMA FlagsReadable ==
  ASSUME NEW n \in Nat, n < ASYNCHRONOUS_SEND_FLAG,
         NEW s \in {0, 1}, NEW q \in {0, 1}
  PROVE  LET w == n + s * ASYNCHRONOUS_SEND_FLAG + q * QUEUE_CHECK_FLAG
         IN  (Sending(w) <=> s = 1) /\ (QueueCheck(w) <=> q = 1)
<1> DEFINE w == n + s * ASYNCHRONOUS_SEND_FLAG + q * QUEUE_CHECK_FLAG
<1>1. n \in Nat /\ n < 536870912  BY SMT DEF ASYNCHRONOUS_SEND_FLAG
<1>2. w = n + s * 536870912 + q * 1073741824
  BY SMT DEF ASYNCHRONOUS_SEND_FLAG, QUEUE_CHECK_FLAG
<1> HIDE DEF w
<1>3. (w \div 536870912) % 2 = s
  <2>1. CASE s = 0 /\ q = 0
    <3>1. w \div 536870912 = 0  BY <2>1, <1>1, <1>2, SMT
    <3> QED  BY <2>1, <3>1, SMT
  <2>2. CASE s = 0 /\ q = 1
    <3>1. w \div 536870912 = 2  BY <2>2, <1>1, <1>2, SMT
    <3> QED  BY <2>2, <3>1, SMT
  <2>3. CASE s = 1 /\ q = 0
    <3>1. w \div 536870912 = 1  BY <2>3, <1>1, <1>2, SMT
    <3> QED  BY <2>3, <3>1, SMT
  <2>4. CASE s = 1 /\ q = 1
    <3>1. w \div 536870912 = 3  BY <2>4, <1>1, <1>2, SMT
    <3> QED  BY <2>4, <3>1, SMT
  <2> QED  BY <2>1, <2>2, <2>3, <2>4
<1>4. (w \div 1073741824) % 2 = q
  <2>1. w \div 1073741824 = q  BY <1>1, <1>2, SMT
  <2> QED  BY <2>1, SMT
<1> QED
  BY <1>3, <1>4, SMT
     DEF w, Sending, QueueCheck, HasFlag, ASYNCHRONOUS_SEND_FLAG, QUEUE_CHECK_FLAG

(***************************************************************************)
(* What is known of the flags without their values.                        *)
(***************************************************************************)
LEMMA FlagsAreLarge ==
  /\ ASYNCHRONOUS_SEND_FLAG \in Nat /\ ASYNCHRONOUS_SEND_FLAG > 2
  /\ QUEUE_CHECK_FLAG \in Nat /\ QUEUE_CHECK_FLAG > 2
BY SMT DEF ASYNCHRONOUS_SEND_FLAG, QUEUE_CHECK_FLAG

(***************************************************************************)
(* What a thread decides at the head of the loop of retryQueuedSend.       *)
(***************************************************************************)
LEMMA RetryDecides ==
  ASSUME NEW n \in Nat, n < ASYNCHRONOUS_SEND_FLAG,
         NEW w, Checking => Holding,
         w = n + (IF Holding THEN ASYNCHRONOUS_SEND_FLAG ELSE 0)
               + (IF Checking THEN QUEUE_CHECK_FLAG ELSE 0)
  PROVE  RetryLabel(w) = IF Holding THEN IF Checking THEN "reread" ELSE "idle"
                                    ELSE "volunteer"
<1>1. PICK s \in {0, 1} : s = 1 <=> Holding
  <2>1. CASE Holding  BY <2>1
  <2>2. CASE ~Holding  BY <2>2
  <2> QED  BY <2>1, <2>2
<1>2. PICK q \in {0, 1} : q = 1 <=> Checking
  <2>1. CASE Checking  BY <2>1
  <2>2. CASE ~Checking  BY <2>2
  <2> QED  BY <2>1, <2>2
<1>3. w = n + s * ASYNCHRONOUS_SEND_FLAG + q * QUEUE_CHECK_FLAG
  BY <1>1, <1>2, FlagsAreLarge, SMT
<1>4. (Sending(w) <=> Holding) /\ (QueueCheck(w) <=> Checking)
  BY <1>1, <1>2, <1>3, FlagsReadable
<1> QED  BY <1>4 DEF RetryLabel

-----------------------------------------------------------------------------
(* The set of threads counted in *)

LEMMA Sizes ==
  /\ IsFiniteSet(Counted) /\ Cardinality(Counted) \in Nat
  /\ Cardinality(Counted) < ASYNCHRONOUS_SEND_FLAG
<1>1. IsFiniteSet(Senders) /\ Cardinality(Senders) \in Nat
  BY SendersAssumption, FS_CardinalityType
<1>2. Counted \subseteq Senders  BY DEF Counted
<1>3. /\ IsFiniteSet(Counted) /\ Cardinality(Counted) \in Nat
      /\ Cardinality(Counted) <= Cardinality(Senders)
  BY <1>1, <1>2, FS_Subset, FS_CardinalityType
<1>4. Cardinality(Counted) < ASYNCHRONOUS_SEND_FLAG
  BY <1>1, <1>3, SendersAssumption, FlagsAreLarge
<1> QED  BY <1>3, <1>4

LEMMA Roles == \A t \in Senders : t \in Agents /\ t # Reactor
BY SendersAssumption DEF Agents

(***************************************************************************)
(* How the count changes when a sender goes from one label to another.     *)
(***************************************************************************)
LEMMA CountMoves ==
  ASSUME pc \in [Agents -> Labels], NEW t \in Senders, NEW l \in Labels,
         pc' = [pc EXCEPT ![t] = l]
  PROVE  /\ pc[t] \in CountedLabels /\ l \in CountedLabels =>
              Cardinality(Counted') = Cardinality(Counted)
         /\ pc[t] \notin CountedLabels /\ l \notin CountedLabels =>
              Cardinality(Counted') = Cardinality(Counted)
         /\ pc[t] \notin CountedLabels /\ l \in CountedLabels =>
              Cardinality(Counted') = Cardinality(Counted) + 1
         /\ pc[t] \in CountedLabels /\ l \notin CountedLabels =>
              Cardinality(Counted') = Cardinality(Counted) - 1
<1>1. /\ pc'[t] = l
      /\ \A u \in Senders : u # t => pc'[u] = pc[u]
  BY Roles
<1>2. ASSUME pc[t] \in CountedLabels <=> l \in CountedLabels
      PROVE  Counted' = Counted
  BY <1>1, <1>2 DEF Counted
<1>3. ASSUME pc[t] \notin CountedLabels, l \in CountedLabels
      PROVE  Cardinality(Counted') = Cardinality(Counted) + 1
  <2>1. Counted' = Counted \cup {t} /\ t \notin Counted
    BY <1>1, <1>3 DEF Counted
  <2> QED  BY <2>1, Sizes, FS_AddElement
<1>4. ASSUME pc[t] \in CountedLabels, l \notin CountedLabels
      PROVE  Cardinality(Counted') = Cardinality(Counted) - 1
  <2>1. Counted' = Counted \ {t} /\ t \in Counted
    BY <1>1, <1>4 DEF Counted
  <2> QED  BY <2>1, Sizes, FS_RemoveElement
<1> QED  BY <1>2, <1>3, <1>4

(***************************************************************************)
(* A step of an agent that is not counted in leaves the count alone.       *)
(***************************************************************************)
LEMMA CountStays ==
  ASSUME pc \in [Agents -> Labels], NEW a \in Agents, NEW l,
         pc[a] \notin CountedLabels, l \notin CountedLabels,
         pc' = [pc EXCEPT ![a] = l]
  PROVE  Counted' = Counted
BY Roles DEF Counted

-----------------------------------------------------------------------------
(* The invariant is inductive *)

LEMMA InitIInv == Init => IInv
<1> SUFFICES ASSUME Init PROVE IInv  OBVIOUS
<1>1. TypeOK
  BY DEF Init, TypeOK, NothingSeen, Labels
<1>2. ReactorInv /\ Exclusive /\ BatchInv /\ IssuedInv /\ NoFailure
  BY DEF Init, Agents, ReactorInv, Exclusive, OneTorch, TorchLabels, BatchInv,
     IssuedInv, NoFailure
<1>3. Counted = {} /\ ~Holding /\ ~Checking
  BY Roles DEF Init, Counted, CountedLabels, Holding, HoldLabels, Checking, CheckLabels
<1>4. StatusInv
  BY <1>3, FS_EmptySet, SMT DEF Init, StatusInv
<1>5. QueuedChunkHasKeeper  BY DEF Init, QueuedChunkHasKeeper
<1> QED  BY <1>1, <1>2, <1>4, <1>5 DEF IInv

(***************************************************************************)
(* Nobody checks the queue without holding the torch.                      *)
(***************************************************************************)
LEMMA CheckersHold == Checking => Holding
BY DEF Checking, Holding, HoldLabels

(***************************************************************************)
(* A thread that adds 1 and reads 1 was alone, with no flag set.           *)
(***************************************************************************)
LEMMA ReadsOne ==
  ASSUME StatusInv, mSendingStatus + 1 = 1
  PROVE  Counted = {} /\ ~Holding /\ ~Checking
<1>1. Cardinality(Counted) = 0 /\ ~Holding /\ ~Checking
  BY Sizes, FlagsAreLarge, SMT DEF StatusInv
<1> QED  BY <1>1, Sizes, FS_EmptySet

(***************************************************************************)
(* The chosen one: nobody else is counted in, and nobody holds the torch.  *)
(***************************************************************************)
LEMMA NobodyElse ==
  ASSUME Counted = {}, ~Holding, ReactorInv
  PROVE  /\ \A a \in Agents : pc[a] \notin TorchLabels
         /\ inFlight = {} /\ leaked = <<>>
BY DEF Counted, CountedLabels, Holding, HoldLabels, CheckLabels, ReactorInv,
   TorchLabels, Agents

LEMMA RawSendStep ==
  ASSUME IInv, NEW t \in Senders, RawSend(t)
  PROVE  IInv'
<1> USE DEF IInv
<1>1. PICK l \in {"commit", "push"} :
        /\ pc' = [pc EXCEPT ![t] = l]
        /\ l = "commit" <=> mSendingStatus + 1 = 1
  BY DEF RawSend
<1>2. /\ pc \in [Agents -> Labels] /\ t \in Agents /\ l \in Labels
      /\ t # Reactor /\ pc[t] = "idle"
      /\ issued' = [issued EXCEPT ![t] = @ + 1]
      /\ toSend' = [toSend EXCEPT ![t] = <<[from |-> t, n |-> issued[t] + 1]>>]
      /\ mSendingStatus' = mSendingStatus + 1
      /\ UNCHANGED <<mSendQueue, inFlight, wire, leaked>>
  BY Roles DEF RawSend, TypeOK, Labels, AddStatus
<1>3. TypeOK'
  <2>1. issued[t] \in Nat /\ [from |-> t, n |-> issued[t] + 1] \in Chunk
    BY DEF TypeOK, Chunk
  <2>2. toSend' \in [Agents -> Seq(Chunk)] /\ issued' \in [Senders -> Nat]
    BY <1>2, <2>1 DEF TypeOK
  <2>3. [u \in Senders |-> Returned(u)] \in [Senders -> Nat]
    <3> SUFFICES ASSUME NEW u \in Senders PROVE Returned(u) \in Nat
      OBVIOUS
    <3>1. issued[u] \in Nat  BY DEF TypeOK
    <3> QED  BY <3>1 DEF Returned, IssuedInv
  <2>4. seen' \in [Agents -> [Senders -> Nat]]
    BY <1>2, <2>3 DEF RawSend, TypeOK
  <2> QED  BY <1>1, <1>2, <2>2, <2>4 DEF TypeOK
<1>4. ReactorInv' /\ IssuedInv' /\ NoFailure'
  BY <1>1, <1>2, Roles DEF TypeOK, ReactorInv, IssuedInv, NoFailure
<1>5. BatchInv'
  BY <1>1, <1>2, Roles DEF TypeOK, BatchInv
<1>6. Exclusive'
  <2>1. CASE l = "commit"
    <3>1. /\ \A a \in Agents : pc[a] \notin TorchLabels
          /\ inFlight = {} /\ leaked = <<>>
      BY <2>1, <1>1, ReadsOne, NobodyElse
    <3> QED  BY <3>1, <1>1, <1>2 DEF Exclusive, OneTorch
  <2>2. CASE l = "push"
    BY <2>2, <1>1, <1>2 DEF Exclusive, OneTorch, TorchLabels
  <2> QED  BY <2>1, <2>2
<1>7. Cardinality(Counted') = Cardinality(Counted) + 1
  BY <1>1, <1>2, CountMoves DEF CountedLabels
<1>8. (Holding' <=> Holding) /\ (Checking' <=> Checking)
  BY <1>1, <1>2 DEF Holding, Checking, HoldLabels, CheckLabels
<1>9. StatusInv'
  BY <1>2, <1>7, <1>8, Sizes, FlagsAreLarge, SMT DEF StatusInv
<1>10. QueuedChunkHasKeeper'
  BY <1>1, <1>2 DEF QueuedChunkHasKeeper, RetryLabels
<1> QED  BY <1>3, <1>4, <1>5, <1>6, <1>9, <1>10

LEMMA CommitSenderStep ==
  ASSUME IInv, NEW t \in Senders, CommitSender(t)
  PROVE  IInv'
<1> USE DEF IInv
<1>1. /\ pc \in [Agents -> Labels] /\ t \in Agents /\ t # Reactor
      /\ pc[t] = "commit" /\ "wire" \in Labels
      /\ pc' = [pc EXCEPT ![t] = "wire"]
      /\ seen' = [seen EXCEPT ![t] = @]
      /\ mSendingStatus' = mSendingStatus + (ASYNCHRONOUS_SEND_FLAG - 1)
      /\ UNCHANGED <<mSendQueue, toSend, issued, inFlight, wire, leaked>>
  BY Roles DEF CommitSender, Goto, AddStatus, TypeOK, Labels
<1>2. Exclusive'
  BY <1>1 DEF Exclusive, OneTorch, TorchLabels
<1>3. /\ \A a \in Agents : a # t => pc[a] \notin TorchLabels
      /\ inFlight = {} /\ leaked = <<>>
  BY <1>1 DEF Exclusive, OneTorch, TorchLabels
<1>4. ~Holding /\ ~Checking /\ Holding' /\ ~Checking'
  BY <1>1, <1>3 DEF Holding, Checking, HoldLabels, CheckLabels, TorchLabels
<1>5. Cardinality(Counted') = Cardinality(Counted) - 1
  BY <1>1, CountMoves DEF CountedLabels
<1>6. StatusInv'
  BY <1>1, <1>4, <1>5, Sizes, FlagsAreLarge, SMT DEF StatusInv
<1>7. TypeOK'
  <2>1. mSendingStatus' \in Nat
    BY <1>1, FlagsAreLarge DEF TypeOK
  <2> QED  BY <1>1, <2>1 DEF TypeOK
<1>8. ReactorInv' /\ IssuedInv' /\ NoFailure' /\ BatchInv'
  BY <1>1, Roles DEF ReactorInv, IssuedInv, NoFailure, BatchInv
<1>9. QueuedChunkHasKeeper'
  BY <1>1 DEF QueuedChunkHasKeeper, RetryLabels
<1> QED  BY <1>2, <1>6, <1>7, <1>8, <1>9

LEMMA PushChunkStep ==
  ASSUME IInv, NEW t \in Senders, PushChunk(t)
  PROVE  IInv'
<1> USE DEF IInv
<1> DEFINE c == [from |-> t, n |-> issued[t]]
<1>1. /\ pc \in [Agents -> Labels] /\ t \in Agents /\ t # Reactor
      /\ pc[t] = "push" /\ "leave" \in Labels
      /\ pc' = [pc EXCEPT ![t] = "leave"]
      /\ seen' = [seen EXCEPT ![t] = @]
      /\ mSendQueue' = mSendQueue \o toSend[t]
      /\ toSend' = [toSend EXCEPT ![t] = <<>>]
      /\ UNCHANGED <<mSendingStatus, issued, inFlight, wire, leaked>>
  BY Roles DEF PushChunk, Goto, TypeOK, Labels
<1>2. mSendQueue \in Seq(Chunk) /\ toSend[t] = <<c>> /\ c \in Chunk
  BY <1>1 DEF BatchInv, TypeOK, Chunk
<1>3. mSendQueue' \in Seq(Chunk)  BY <1>1, <1>2
<1>4. TypeOK'  BY <1>1, <1>3 DEF TypeOK
<1>5. ReactorInv' /\ IssuedInv' /\ NoFailure' /\ BatchInv'
  BY <1>1, Roles DEF ReactorInv, IssuedInv, NoFailure, BatchInv, TypeOK
<1>6. Exclusive'
  BY <1>1 DEF Exclusive, OneTorch, TorchLabels
<1>7. (Holding' <=> Holding) /\ (Checking' <=> Checking)
  BY <1>1 DEF Holding, Checking, HoldLabels, CheckLabels
<1>8. Cardinality(Counted') = Cardinality(Counted)
  BY <1>1, CountMoves DEF CountedLabels
<1>9. StatusInv'
  BY <1>1, <1>7, <1>8 DEF StatusInv
<1>10. QueuedChunkHasKeeper'
  <2> SUFFICES ASSUME NEW i \in 1..Len(mSendQueue')
               PROVE  \/ pc'[mSendQueue'[i].from] \in RetryLabels
                      \/ \E a \in Agents :
                           pc'[a] \in {"commit", "torch", "finish", "swap",
                                      "promise", "wire"}
                      \/ inFlight' # {}
                      \/ leaked' # <<>>
    BY DEF QueuedChunkHasKeeper
  <2>1. CASE i \in 1..Len(mSendQueue)
    <3>1. mSendQueue'[i] = mSendQueue[i]  BY <1>1, <1>2, <2>1
    <3> QED  BY <3>1, <2>1, <1>1 DEF QueuedChunkHasKeeper, RetryLabels
  <2>2. CASE i \notin 1..Len(mSendQueue)
    <3>1. mSendQueue'[i] = c  BY <1>1, <1>2, <2>2
    <3>2. pc'[mSendQueue'[i].from] = "leave"  BY <3>1, <1>1
    <3> QED  BY <3>2 DEF RetryLabels
  <2> QED  BY <2>1, <2>2
<1> QED  BY <1>4, <1>5, <1>6, <1>9, <1>10

(***************************************************************************)
(* A thread at the head of the loop of retryQueuedSend leaves only when    *)
(* somebody holds the torch who has still to look at the queue.            *)
(***************************************************************************)
LEMMA RetryKeepsChunks ==
  ASSUME IInv, NEW t \in Senders, pc[t] \in RetryLabels, NEW l,
         l = IF Holding THEN IF Checking THEN "reread" ELSE "idle"
                        ELSE "volunteer",
         pc' = [pc EXCEPT ![t] = l],
         UNCHANGED <<mSendQueue, inFlight, leaked>>
  PROVE  QueuedChunkHasKeeper'
<1> USE DEF IInv
<1>1. pc \in [Agents -> Labels] /\ t \in Agents  BY Roles DEF TypeOK
<1>2. CASE l # "idle"
  BY <1>1, <1>2 DEF QueuedChunkHasKeeper, RetryLabels
<1>3. CASE l = "idle"
  <2>1. Holding /\ ~Checking  BY <1>3
  <2>2. \/ \E a \in Agents : pc[a] \in {"finish", "wire"}
        \/ inFlight # {}
        \/ leaked # <<>>
    BY <2>1 DEF Holding, Checking, HoldLabels
  <2>3. \/ \E a \in Agents : pc'[a] \in {"finish", "wire"}
        \/ inFlight' # {}
        \/ leaked' # <<>>
    BY <2>2, <1>1 DEF RetryLabels
  <2> QED  BY <2>3 DEF QueuedChunkHasKeeper
<1> QED  BY <1>2, <1>3

LEMMA LeaveRawSendStep ==
  ASSUME IInv, NEW t \in Senders, LeaveRawSend(t)
  PROVE  IInv'
<1> USE DEF IInv
<1> DEFINE l == IF Holding THEN IF Checking THEN "reread" ELSE "idle"
                           ELSE "volunteer"
<1>1. t \in Counted  BY DEF LeaveRawSend, Counted, CountedLabels
<1>2. Cardinality(Counted) # 0  BY <1>1, Sizes, FS_EmptySet
<1>3. mSendingStatus - 1 = (Cardinality(Counted) - 1)
                             + (IF Holding THEN ASYNCHRONOUS_SEND_FLAG ELSE 0)
                             + (IF Checking THEN QUEUE_CHECK_FLAG ELSE 0)
  BY Sizes, FlagsAreLarge, SMT DEF StatusInv
<1>4. /\ Cardinality(Counted) - 1 \in Nat
      /\ Cardinality(Counted) - 1 < ASYNCHRONOUS_SEND_FLAG
  BY <1>2, Sizes, FlagsAreLarge
<1>5. RetryLabel(mSendingStatus - 1) = l
  BY <1>3, <1>4, CheckersHold, RetryDecides
<1> HIDE DEF l
<1>6. /\ pc \in [Agents -> Labels] /\ t \in Agents /\ t # Reactor
      /\ pc[t] = "leave"
      /\ pc' = [pc EXCEPT ![t] = l]
      /\ mSendingStatus' = mSendingStatus - 1
      /\ UNCHANGED <<mSendQueue, toSend, issued, inFlight, wire, leaked>>
  <2>1. pc' = [pc EXCEPT ![t] = RetryLabel(mSendingStatus - 1)]
    BY Zenon DEF LeaveRawSend, Goto
  <2>2. mSendingStatus' = mSendingStatus - 1
    BY SMT DEF LeaveRawSend, AddStatus, TypeOK
  <2> QED  BY <2>1, <2>2, <1>5, Roles DEF LeaveRawSend, TypeOK
<1>7. l \in {"reread", "idle", "volunteer"} /\ l \in Labels  BY DEF l, Labels
<1>8. TypeOK'
  <2>1. mSendingStatus' \in Nat
    BY <1>6, <1>3, <1>4, FlagsAreLarge, SMT
  <2>2. seen' \in [Agents -> [Senders -> Nat]]
    BY DEF LeaveRawSend, Goto, NothingSeen, TypeOK
  <2> QED  BY <1>6, <1>7, <2>1, <2>2 DEF TypeOK
<1>9. ReactorInv' /\ IssuedInv' /\ NoFailure' /\ BatchInv'
  BY <1>6, <1>7, Roles DEF ReactorInv, IssuedInv, NoFailure, BatchInv
<1>10. Exclusive'
  BY <1>6, <1>7 DEF Exclusive, OneTorch, TorchLabels
<1>11. (Holding' <=> Holding) /\ (Checking' <=> Checking)
  BY <1>6, <1>7 DEF Holding, Checking, HoldLabels, CheckLabels
<1>12. Cardinality(Counted') = Cardinality(Counted) - 1
  BY <1>6, <1>7, CountMoves DEF CountedLabels
<1>13. StatusInv'
  BY <1>3, <1>6, <1>11, <1>12 DEF StatusInv
<1>14. QueuedChunkHasKeeper'
  BY <1>6, RetryKeepsChunks DEF l, RetryLabels
<1> QED  BY <1>8, <1>9, <1>10, <1>13, <1>14

LEMMA VolunteerStep ==
  ASSUME IInv, NEW t \in Senders, Volunteer(t)
  PROVE  IInv'
<1> USE DEF IInv
<1>1. PICK l \in {"torch", "back"} :
        /\ pc' = [pc EXCEPT ![t] = l]
        /\ l = "torch" <=> mSendingStatus + 1 = 1
        /\ seen' = [seen EXCEPT ![t] = @]
  BY DEF Volunteer, Goto
<1>2. /\ pc \in [Agents -> Labels] /\ t \in Agents /\ l \in Labels
      /\ t # Reactor /\ pc[t] = "volunteer"
      /\ mSendingStatus' = mSendingStatus + 1
      /\ UNCHANGED <<mSendQueue, toSend, issued, inFlight, wire, leaked>>
  BY Roles DEF Volunteer, TypeOK, Labels, AddStatus
<1>3. TypeOK'  BY <1>1, <1>2 DEF TypeOK
<1>4. ReactorInv' /\ IssuedInv' /\ NoFailure' /\ BatchInv'
  BY <1>1, <1>2, Roles DEF ReactorInv, IssuedInv, NoFailure, BatchInv
<1>5. Exclusive'
  <2>1. CASE l = "torch"
    <3>1. /\ \A a \in Agents : pc[a] \notin TorchLabels
          /\ inFlight = {} /\ leaked = <<>>
      BY <2>1, <1>1, ReadsOne, NobodyElse
    <3> QED  BY <3>1, <1>1, <1>2 DEF Exclusive, OneTorch
  <2>2. CASE l = "back"
    BY <2>2, <1>1, <1>2 DEF Exclusive, OneTorch, TorchLabels
  <2> QED  BY <2>1, <2>2
<1>6. Cardinality(Counted') = Cardinality(Counted) + 1
  BY <1>1, <1>2, CountMoves DEF CountedLabels
<1>7. (Holding' <=> Holding) /\ (Checking' <=> Checking)
  BY <1>1, <1>2 DEF Holding, Checking, HoldLabels, CheckLabels
<1>8. StatusInv'
  BY <1>2, <1>6, <1>7, Sizes, FlagsAreLarge, SMT DEF StatusInv
<1>9. QueuedChunkHasKeeper'
  BY <1>1, <1>2 DEF QueuedChunkHasKeeper, RetryLabels
<1> QED  BY <1>3, <1>4, <1>5, <1>8, <1>9

LEMMA StandBackStep ==
  ASSUME IInv, NEW t \in Senders, StandBack(t)
  PROVE  IInv'
<1> USE DEF IInv
<1>1. /\ pc \in [Agents -> Labels] /\ t \in Agents /\ t # Reactor
      /\ pc[t] = "back" /\ "reread" \in Labels
      /\ pc' = [pc EXCEPT ![t] = "reread"]
      /\ seen' = [seen EXCEPT ![t] = @]
      /\ mSendingStatus' = mSendingStatus - 1
      /\ UNCHANGED <<mSendQueue, toSend, issued, inFlight, wire, leaked>>
  BY Roles, SMT DEF StandBack, Goto, AddStatus, TypeOK, Labels
<1>2. ReactorInv' /\ IssuedInv' /\ NoFailure' /\ BatchInv'
  BY <1>1, Roles DEF ReactorInv, IssuedInv, NoFailure, BatchInv
<1>3. Exclusive'
  BY <1>1 DEF Exclusive, OneTorch, TorchLabels
<1>4. (Holding' <=> Holding) /\ (Checking' <=> Checking)
  BY <1>1 DEF Holding, Checking, HoldLabels, CheckLabels
<1>5. Cardinality(Counted') = Cardinality(Counted) - 1
  BY <1>1, CountMoves DEF CountedLabels
<1>6. StatusInv'
  BY <1>1, <1>4, <1>5, Sizes, FlagsAreLarge, SMT DEF StatusInv
<1>7. TypeOK'
  <2>1. t \in Counted  BY <1>1 DEF Counted, CountedLabels
  <2>2. Cardinality(Counted) # 0  BY <2>1, Sizes, FS_EmptySet
  <2>3. mSendingStatus' \in Nat
    BY <1>1, <2>2, Sizes, FlagsAreLarge, SMT DEF StatusInv
  <2> QED  BY <1>1, <2>3 DEF TypeOK
<1>8. QueuedChunkHasKeeper'
  BY <1>1 DEF QueuedChunkHasKeeper, RetryLabels
<1> QED  BY <1>2, <1>3, <1>6, <1>7, <1>8

LEMMA RereadStatusStep ==
  ASSUME IInv, NEW t \in Senders, RereadStatus(t)
  PROVE  IInv'
<1> USE DEF IInv
<1> DEFINE l == IF Holding THEN IF Checking THEN "reread" ELSE "idle"
                           ELSE "volunteer"
<1>1. RetryLabel(mSendingStatus) = l
  BY Sizes, CheckersHold, RetryDecides DEF StatusInv
<1> HIDE DEF l
<1>2. /\ pc \in [Agents -> Labels] /\ t \in Agents /\ t # Reactor
      /\ pc[t] = "reread"
      /\ pc' = [pc EXCEPT ![t] = l]
      /\ UNCHANGED <<mSendingStatus, mSendQueue, toSend, issued, inFlight,
                     wire, leaked>>
  <2>1. pc' = [pc EXCEPT ![t] = RetryLabel(mSendingStatus)]
    BY Zenon DEF RereadStatus, Goto
  <2> QED  BY <2>1, <1>1, Roles DEF RereadStatus, TypeOK
<1>3. l \in {"reread", "idle", "volunteer"} /\ l \in Labels  BY DEF l, Labels
<1>4. TypeOK'
  <2>1. seen' \in [Agents -> [Senders -> Nat]]
    BY DEF RereadStatus, Goto, NothingSeen, TypeOK
  <2> QED  BY <1>2, <1>3, <2>1 DEF TypeOK
<1>5. ReactorInv' /\ IssuedInv' /\ NoFailure' /\ BatchInv'
  BY <1>2, <1>3, Roles DEF ReactorInv, IssuedInv, NoFailure, BatchInv
<1>6. Exclusive'
  BY <1>2, <1>3 DEF Exclusive, OneTorch, TorchLabels
<1>7. (Holding' <=> Holding) /\ (Checking' <=> Checking)
  BY <1>2, <1>3 DEF Holding, Checking, HoldLabels, CheckLabels
<1>8. Cardinality(Counted') = Cardinality(Counted)
  BY <1>2, <1>3, CountMoves DEF CountedLabels
<1>9. StatusInv'  BY <1>2, <1>7, <1>8 DEF StatusInv
<1>10. QueuedChunkHasKeeper'
  BY <1>2, RetryKeepsChunks DEF l, RetryLabels
<1> QED  BY <1>4, <1>5, <1>6, <1>9, <1>10

LEMMA TakeTorchStep ==
  ASSUME IInv, NEW t \in Senders, TakeTorch(t)
  PROVE  IInv'
<1> USE DEF IInv
<1>1. /\ pc \in [Agents -> Labels] /\ t \in Agents /\ t # Reactor
      /\ pc[t] = "torch" /\ "swap" \in Labels
      /\ pc' = [pc EXCEPT ![t] = "swap"]
      /\ seen' = [seen EXCEPT ![t] = @]
      /\ mSendingStatus' = mSendingStatus
           + (QUEUE_CHECK_FLAG + ASYNCHRONOUS_SEND_FLAG - 1)
      /\ UNCHANGED <<mSendQueue, toSend, issued, inFlight, wire, leaked>>
  BY Roles DEF TakeTorch, Goto, AddStatus, TypeOK, Labels
<1>2. Exclusive'
  BY <1>1 DEF Exclusive, OneTorch, TorchLabels
<1>3. /\ \A a \in Agents : a # t => pc[a] \notin TorchLabels
      /\ inFlight = {} /\ leaked = <<>>
  BY <1>1 DEF Exclusive, OneTorch, TorchLabels
<1>4. ~Holding /\ ~Checking /\ Holding' /\ Checking'
  BY <1>1, <1>3 DEF Holding, Checking, HoldLabels, CheckLabels, TorchLabels
<1>5. Cardinality(Counted') = Cardinality(Counted) - 1
  BY <1>1, CountMoves DEF CountedLabels
<1>6. StatusInv'
  BY <1>1, <1>4, <1>5, Sizes, FlagsAreLarge, SMT DEF StatusInv
<1>7. TypeOK'
  <2>1. mSendingStatus' \in Nat
    BY <1>1, FlagsAreLarge DEF TypeOK
  <2> QED  BY <1>1, <2>1 DEF TypeOK
<1>8. ReactorInv' /\ IssuedInv' /\ NoFailure' /\ BatchInv'
  BY <1>1, Roles DEF ReactorInv, IssuedInv, NoFailure, BatchInv
<1>9. QueuedChunkHasKeeper'
  BY <1>1 DEF QueuedChunkHasKeeper, RetryLabels
<1> QED  BY <1>2, <1>6, <1>7, <1>8, <1>9

(***************************************************************************)
(* The agent that holds the torch: nobody else has it in any form.         *)
(***************************************************************************)
LEMMA SoleHolder ==
  ASSUME IInv, NEW a \in Agents, pc[a] \in TorchLabels
  PROVE  /\ \A b \in Agents : b # a => pc[b] \notin TorchLabels
         /\ inFlight = {} /\ leaked = <<>>
BY DEF IInv, Exclusive, OneTorch

LEMMA SwapQueueStep ==
  ASSUME IInv, NEW a \in Agents, SwapQueue(a)
  PROVE  IInv'
<1> USE DEF IInv
<1>1. PICK l \in {"release", "promise"} :
        /\ pc' = [pc EXCEPT ![a] = l]
        /\ l = "release" <=> mSendQueue = <<>>
        /\ seen' = [seen EXCEPT ![a] = @]
  BY DEF SwapQueue, Goto
<1>2. /\ pc \in [Agents -> Labels] /\ l \in Labels /\ pc[a] = "swap"
      /\ toSend' = [toSend EXCEPT ![a] = mSendQueue]
      /\ mSendQueue' = <<>>
      /\ UNCHANGED <<mSendingStatus, issued, inFlight, wire, leaked>>
  BY DEF SwapQueue, TypeOK, Labels
<1>3. TypeOK'  BY <1>1, <1>2 DEF TypeOK
<1>4. ReactorInv' /\ IssuedInv' /\ NoFailure'
  BY <1>1, <1>2, Roles DEF ReactorInv, HoldLabels, CheckLabels, IssuedInv, NoFailure
<1>5. BatchInv'
  BY <1>1, <1>2, Roles DEF BatchInv, TypeOK
<1>6. Exclusive'
  BY <1>1, <1>2 DEF Exclusive, OneTorch, TorchLabels
<1>7. (Holding' <=> Holding) /\ (Checking' <=> Checking)
  BY <1>1, <1>2 DEF Holding, Checking, HoldLabels, CheckLabels
<1>8. Counted' = Counted
  BY <1>1, <1>2, CountStays DEF CountedLabels
<1>9. StatusInv'  BY <1>2, <1>7, <1>8 DEF StatusInv
<1>10. QueuedChunkHasKeeper'
  BY <1>2 DEF QueuedChunkHasKeeper
<1> QED  BY <1>3, <1>4, <1>5, <1>6, <1>9, <1>10

(***************************************************************************)
(* Only here does the keeper of the whole queue disappear; the threads     *)
(* that pushed since the swap are all still retrying.                      *)
(***************************************************************************)
LEMMA ReleaseTorchStep ==
  ASSUME IInv, NEW a \in Agents, ReleaseTorch(a)
  PROVE  IInv'
<1> USE DEF IInv
<1>1. /\ pc \in [Agents -> Labels] /\ pc[a] = "release" /\ "idle" \in Labels
      /\ pc' = [pc EXCEPT ![a] = "idle"]
      /\ seen' = [seen EXCEPT ![a] = NothingSeen]
      /\ mSendingStatus' = mSendingStatus
           - (ASYNCHRONOUS_SEND_FLAG + QUEUE_CHECK_FLAG)
      /\ UNCHANGED <<mSendQueue, toSend, issued, inFlight, wire, leaked>>
  BY FlagsAreLarge, SMT DEF ReleaseTorch, Goto, AddStatus, TypeOK, Labels
<1>2. /\ \A b \in Agents : b # a => pc[b] \notin TorchLabels
      /\ inFlight = {} /\ leaked = <<>>
  BY <1>1, SoleHolder DEF TorchLabels
<1>3. Holding /\ Checking /\ ~Holding' /\ ~Checking'
  BY <1>1, <1>2 DEF Holding, Checking, HoldLabels, CheckLabels, TorchLabels
<1>4. Counted' = Counted
  BY <1>1, CountStays DEF CountedLabels
<1>5. StatusInv'
  BY <1>1, <1>3, <1>4, Sizes, FlagsAreLarge, SMT DEF StatusInv
<1>6. TypeOK'
  <2>1. mSendingStatus' = Cardinality(Counted)
    BY <1>1, <1>3, Sizes, FlagsAreLarge, SMT DEF StatusInv
  <2>2. seen' \in [Agents -> [Senders -> Nat]]
    BY <1>1 DEF NothingSeen, TypeOK
  <2> QED  BY <1>1, <2>1, <2>2, Sizes DEF TypeOK
<1>7. ReactorInv' /\ IssuedInv' /\ NoFailure' /\ BatchInv'
  BY <1>1, Roles DEF ReactorInv, IssuedInv, NoFailure, BatchInv
<1>8. Exclusive'
  BY <1>1 DEF Exclusive, OneTorch, TorchLabels
<1>9. QueuedChunkHasKeeper'
  <2>1. \A b \in Agents :
          pc[b] \notin {"commit", "torch", "finish", "swap", "promise", "wire"}
    BY <1>1, <1>2 DEF TorchLabels
  <2>2. \A i \in 1..Len(mSendQueue) : pc[mSendQueue[i].from] \in RetryLabels
    BY <2>1, <1>2 DEF QueuedChunkHasKeeper
  <2>3. \A i \in 1..Len(mSendQueue) : mSendQueue[i].from \in Agents
    <3>1. \A i \in 1..Len(mSendQueue) : mSendQueue[i] \in Chunk  BY DEF TypeOK
    <3> QED  BY <3>1, Roles DEF Chunk
  <2>4. \A i \in 1..Len(mSendQueue) : pc'[mSendQueue[i].from] \in RetryLabels
    BY <2>2, <2>3, <1>1 DEF RetryLabels
  <2> QED  BY <2>4, <1>1 DEF QueuedChunkHasKeeper
<1> QED  BY <1>5, <1>6, <1>7, <1>8, <1>9

LEMMA PromiseSendStep ==
  ASSUME IInv, NEW a \in Agents, PromiseSend(a)
  PROVE  IInv'
<1> USE DEF IInv
<1>1. /\ pc \in [Agents -> Labels] /\ pc[a] = "promise" /\ "wire" \in Labels
      /\ pc' = [pc EXCEPT ![a] = "wire"]
      /\ seen' = [seen EXCEPT ![a] = @]
      /\ mSendingStatus' = mSendingStatus - QUEUE_CHECK_FLAG
      /\ UNCHANGED <<mSendQueue, toSend, issued, inFlight, wire, leaked>>
  BY FlagsAreLarge, SMT DEF PromiseSend, Goto, AddStatus, TypeOK, Labels
<1>2. /\ \A b \in Agents : b # a => pc[b] \notin TorchLabels
      /\ inFlight = {} /\ leaked = <<>>
  BY <1>1, SoleHolder DEF TorchLabels
<1>3. Holding /\ Checking /\ Holding' /\ ~Checking'
  BY <1>1, <1>2 DEF Holding, Checking, HoldLabels, CheckLabels, TorchLabels
<1>4. Counted' = Counted
  BY <1>1, CountStays DEF CountedLabels
<1>5. StatusInv'
  BY <1>1, <1>3, <1>4, Sizes, FlagsAreLarge, SMT DEF StatusInv
<1>6. TypeOK'
  <2>1. mSendingStatus' = Cardinality(Counted) + ASYNCHRONOUS_SEND_FLAG
    BY <1>1, <1>3, Sizes, FlagsAreLarge, SMT DEF StatusInv
  <2>2. mSendingStatus' \in Nat  BY <2>1, Sizes, FlagsAreLarge, SMT
  <2> QED  BY <1>1, <2>2 DEF TypeOK
<1>7. ReactorInv' /\ IssuedInv' /\ NoFailure' /\ BatchInv'
  BY <1>1, Roles DEF ReactorInv, HoldLabels, IssuedInv, NoFailure, BatchInv
<1>8. Exclusive'
  BY <1>1 DEF Exclusive, OneTorch, TorchLabels
<1>9. QueuedChunkHasKeeper'
  BY <1>1 DEF QueuedChunkHasKeeper, RetryLabels
<1> QED  BY <1>5, <1>6, <1>7, <1>8, <1>9

(***************************************************************************)
(* The torch passes from an agent to the outstanding async_send.           *)
(***************************************************************************)
LEMMA SendToWireStep ==
  ASSUME IInv, NEW a \in Agents, SendToWire(a)
  PROVE  IInv'
<1> USE DEF IInv
<1>1. /\ pc \in [Agents -> Labels] /\ pc[a] = "wire" /\ "idle" \in Labels
      /\ pc' = [pc EXCEPT ![a] = "idle"]
      /\ seen' = [seen EXCEPT ![a] = NothingSeen]
      /\ inFlight' = inFlight \cup {toSend[a]}
      /\ toSend' = [toSend EXCEPT ![a] = <<>>]
      /\ UNCHANGED <<mSendingStatus, mSendQueue, issued, wire, leaked>>
  BY DEF SendToWire, Goto, TypeOK, Labels
<1>2. /\ \A b \in Agents : b # a => pc[b] \notin TorchLabels
      /\ inFlight = {} /\ leaked = <<>>
  BY <1>1, SoleHolder DEF TorchLabels
<1>3. inFlight' = {toSend[a]} /\ toSend[a] \in Seq(Chunk) /\ toSend[a] # <<>>
  BY <1>1, <1>2 DEF TypeOK, BatchInv
<1>4. TypeOK'
  <2>1. seen' \in [Agents -> [Senders -> Nat]]
    BY <1>1 DEF NothingSeen, TypeOK
  <2> QED  BY <1>1, <1>3, <2>1 DEF TypeOK
<1>5. ReactorInv' /\ IssuedInv' /\ NoFailure'
  BY <1>1, Roles DEF ReactorInv, IssuedInv, NoFailure
<1>6. BatchInv'
  BY <1>1, <1>3, Roles DEF BatchInv, TypeOK
<1>7. Exclusive'
  BY <1>1, <1>2, <1>3 DEF Exclusive, OneTorch, TorchLabels
<1>8. Holding /\ Holding' /\ ~Checking /\ ~Checking'
  BY <1>1, <1>2, <1>3 DEF Holding, Checking, HoldLabels, CheckLabels, TorchLabels
<1>9. Counted' = Counted
  BY <1>1, CountStays DEF CountedLabels
<1>10. StatusInv'  BY <1>1, <1>8, <1>9 DEF StatusInv
<1>11. QueuedChunkHasKeeper'
  BY <1>3 DEF QueuedChunkHasKeeper
<1> QED  BY <1>4, <1>5, <1>6, <1>7, <1>10, <1>11

(***************************************************************************)
(* The torch stays with the rest of the batch, or passes to the reactor.   *)
(***************************************************************************)
LEMMA SendCompletedStep ==
  ASSUME IInv, SendCompleted
  PROVE  IInv'
<1> USE DEF IInv
<1>1. PICK b \in inFlight : \E k \in 1..Len(b) :
        /\ wire' = wire \o SubSeq(b, 1, k)
        /\ IF k = Len(b)
           THEN /\ inFlight' = inFlight \ {b}
                /\ Goto(Reactor, "finish")
           ELSE /\ inFlight' = (inFlight \ {b}) \cup {SubSeq(b, k + 1, Len(b))}
                /\ UNCHANGED <<pc, seen>>
  BY DEF SendCompleted
<1>2. PICK k \in 1..Len(b) :
        /\ wire' = wire \o SubSeq(b, 1, k)
        /\ IF k = Len(b)
           THEN /\ inFlight' = inFlight \ {b}
                /\ Goto(Reactor, "finish")
           ELSE /\ inFlight' = (inFlight \ {b}) \cup {SubSeq(b, k + 1, Len(b))}
                /\ UNCHANGED <<pc, seen>>
  BY <1>1
<1>3. /\ pc \in [Agents -> Labels] /\ Reactor \in Agents
      /\ pc[Reactor] = "idle" /\ "finish" \in Labels
      /\ UNCHANGED <<mSendingStatus, mSendQueue, toSend, issued, leaked>>
  BY DEF SendCompleted, TypeOK, Labels, Agents
<1>4. b \in Seq(Chunk) /\ Len(b) \in Nat  BY DEF TypeOK
<1>5. wire' \in Seq(Chunk)
  <2>1. SubSeq(b, 1, k) \in Seq(Chunk)  BY <1>4
  <2> QED  BY <1>2, <2>1 DEF TypeOK
<1>6. inFlight = {b} /\ leaked = <<>>
      /\ \A a \in Agents : pc[a] \notin TorchLabels
  BY DEF Exclusive, OneTorch
<1>7. CASE k = Len(b)
  <2>1. /\ inFlight' = {} /\ pc' = [pc EXCEPT ![Reactor] = "finish"]
        /\ seen' = [seen EXCEPT ![Reactor] = @]
    BY <1>2, <1>6, <1>7 DEF Goto
  <2>2. TypeOK'  BY <1>3, <1>5, <2>1 DEF TypeOK
  <2>3. ReactorInv' /\ IssuedInv' /\ NoFailure' /\ BatchInv'
    BY <1>3, <2>1, Roles DEF ReactorInv, HoldLabels, IssuedInv, NoFailure, BatchInv
  <2>4. Exclusive'
    BY <1>3, <1>6, <2>1 DEF Exclusive, OneTorch, TorchLabels
  <2>5. Holding /\ Holding' /\ ~Checking /\ ~Checking'
    BY <1>3, <1>6, <2>1 DEF Holding, Checking, HoldLabels, CheckLabels, TorchLabels
  <2>6. Counted' = Counted
    BY <1>3, <2>1, CountStays DEF CountedLabels
  <2>7. StatusInv'  BY <1>3, <2>5, <2>6 DEF StatusInv
  <2>8. QueuedChunkHasKeeper'
    BY <1>3, <2>1 DEF QueuedChunkHasKeeper
  <2> QED  BY <2>2, <2>3, <2>4, <2>7, <2>8
<1>8. CASE k # Len(b)
  <2>1. /\ inFlight' = {SubSeq(b, k + 1, Len(b))} /\ UNCHANGED <<pc, seen>>
    BY <1>2, <1>6, <1>8
  <2>2. /\ SubSeq(b, k + 1, Len(b)) \in Seq(Chunk)
        /\ SubSeq(b, k + 1, Len(b)) # <<>>
    <3> DEFINE rest == SubSeq(b, k + 1, Len(b))
    <3>1. k + 1 \in 1..Len(b)  BY <1>4, <1>8
    <3>2. \A i \in (k + 1)..Len(b) : b[i] \in Chunk  BY <1>4, <3>1
    <3>3. rest \in Seq(Chunk) /\ Len(rest) = Len(b) - (k + 1) + 1
      BY <1>4, <3>1, <3>2, SubSeqProperties
    <3> HIDE DEF rest
    <3>4. Len(rest) # 0  BY <3>1, <3>3, <1>4
    <3>5. rest # <<>>  BY <3>4
    <3> QED  BY <3>3, <3>5 DEF rest
  <2>3. TypeOK'  BY <1>3, <1>5, <2>1, <2>2 DEF TypeOK
  <2>4. ReactorInv' /\ IssuedInv' /\ NoFailure'
    BY <1>3, <2>1 DEF ReactorInv, IssuedInv, NoFailure
  <2>5. BatchInv'  BY <1>3, <2>1, <2>2 DEF BatchInv
  <2>6. Exclusive'
    BY <1>3, <1>6, <2>1 DEF Exclusive, OneTorch
  <2>7. Holding /\ Holding' /\ (Checking' <=> Checking)
    BY <1>6, <2>1 DEF Holding, Checking
  <2>8. Counted' = Counted  BY <2>1 DEF Counted
  <2>9. StatusInv'  BY <1>3, <2>7, <2>8 DEF StatusInv
  <2>10. QueuedChunkHasKeeper'
    BY <2>1 DEF QueuedChunkHasKeeper
  <2> QED  BY <2>3, <2>4, <2>5, <2>6, <2>9, <2>10
<1> QED  BY <1>7, <1>8

(***************************************************************************)
(* The torch stays for ever with the send that failed.                     *)
(***************************************************************************)
LEMMA SendFailedStep ==
  ASSUME IInv, SendFailed
  PROVE  IInv'
<1> USE DEF IInv
<1>1. PICK b \in inFlight : inFlight' = inFlight \ {b} /\ leaked' = b
  BY DEF SendFailed
<1>2. UNCHANGED <<mSendingStatus, mSendQueue, pc, toSend, issued, wire, seen>>
  BY DEF SendFailed
<1>3. inFlight = {b} /\ \A a \in Agents : pc[a] \notin TorchLabels
  BY DEF Exclusive, OneTorch
<1>4. b \in Seq(Chunk) /\ b # <<>>  BY DEF TypeOK, BatchInv
<1>5. inFlight' = {} /\ leaked' = b  BY <1>1, <1>3
<1>6. TypeOK'  BY <1>2, <1>4, <1>5 DEF TypeOK
<1>7. ReactorInv' /\ IssuedInv' /\ NoFailure' /\ BatchInv'
  BY <1>2, <1>5 DEF ReactorInv, IssuedInv, NoFailure, BatchInv
<1>8. Exclusive'  BY <1>2, <1>3, <1>5 DEF Exclusive, OneTorch
<1>9. Holding /\ Holding' /\ (Checking' <=> Checking) /\ Counted' = Counted
  BY <1>2, <1>3, <1>4, <1>5 DEF Holding, Checking, Counted
<1>10. StatusInv'  BY <1>2, <1>9 DEF StatusInv
<1>11. QueuedChunkHasKeeper'  BY <1>4, <1>5 DEF QueuedChunkHasKeeper
<1> QED  BY <1>6, <1>7, <1>8, <1>10, <1>11

LEMMA FinishAsyncSendStep ==
  ASSUME IInv, FinishAsyncSend
  PROVE  IInv'
<1> USE DEF IInv
<1>1. /\ pc \in [Agents -> Labels] /\ Reactor \in Agents
      /\ pc[Reactor] = "finish" /\ "swap" \in Labels
      /\ pc' = [pc EXCEPT ![Reactor] = "swap"]
      /\ seen' = [seen EXCEPT ![Reactor] = @]
      /\ mSendingStatus' = mSendingStatus + QUEUE_CHECK_FLAG
      /\ UNCHANGED <<mSendQueue, toSend, issued, inFlight, wire, leaked>>
  BY DEF FinishAsyncSend, Goto, AddStatus, TypeOK, Labels, Agents
<1>2. /\ \A b \in Agents : b # Reactor => pc[b] \notin TorchLabels
      /\ inFlight = {} /\ leaked = <<>>
  BY <1>1, SoleHolder DEF TorchLabels
<1>3. Holding /\ ~Checking /\ Holding' /\ Checking'
  BY <1>1, <1>2 DEF Holding, Checking, HoldLabels, CheckLabels, TorchLabels
<1>4. Counted' = Counted
  BY <1>1, CountStays DEF CountedLabels
<1>5. StatusInv'
  BY <1>1, <1>3, <1>4, Sizes, FlagsAreLarge, SMT DEF StatusInv
<1>6. TypeOK'
  <2>1. mSendingStatus' \in Nat
    BY <1>1, FlagsAreLarge DEF TypeOK
  <2> QED  BY <1>1, <2>1 DEF TypeOK
<1>7. ReactorInv' /\ IssuedInv' /\ NoFailure' /\ BatchInv'
  BY <1>1, Roles DEF ReactorInv, HoldLabels, CheckLabels, IssuedInv, NoFailure,
     BatchInv
<1>8. Exclusive'
  BY <1>1 DEF Exclusive, OneTorch, TorchLabels
<1>9. QueuedChunkHasKeeper'
  BY <1>1 DEF QueuedChunkHasKeeper, RetryLabels
<1> QED  BY <1>5, <1>6, <1>7, <1>8, <1>9

LEMMA NextIInv == IInv /\ [Next]_vars => IInv'
<1> SUFFICES ASSUME IInv, [Next]_vars PROVE IInv'  OBVIOUS
<1>1. ASSUME NEW a \in Agents, QueueCheckStep(a) PROVE IInv'
  BY <1>1, SwapQueueStep, ReleaseTorchStep, PromiseSendStep, SendToWireStep
     DEF QueueCheckStep
<1>2. ASSUME NEW t \in Senders, RawSend(t) \/ SenderStep(t) PROVE IInv'
  BY <1>1, <1>2, Roles, RawSendStep, CommitSenderStep, PushChunkStep,
     LeaveRawSendStep, VolunteerStep, StandBackStep, RereadStatusStep,
     TakeTorchStep
     DEF SenderStep
<1>3. CASE ReactorStep
  BY <1>1, <1>3, SendCompletedStep, FinishAsyncSendStep DEF ReactorStep, Agents
<1>4. CASE SendFailed  BY <1>4, SendFailedStep
<1>5. CASE UNCHANGED vars
  BY <1>5 DEF vars, IInv, TypeOK, ReactorInv, Exclusive, OneTorch, BatchInv,
     IssuedInv, NoFailure, StatusInv, Counted, Holding, Checking,
     QueuedChunkHasKeeper
<1>6. CASE Finished  BY <1>5, <1>6 DEF Finished
<1> QED  BY <1>2, <1>3, <1>4, <1>5, <1>6 DEF Next

-----------------------------------------------------------------------------
(* The torch, the assertions, the wake-up *)

(***************************************************************************)
(* The decomposition of mSendingStatus holds in every reachable state.     *)
(***************************************************************************)
THEOREM Invariance == Spec => []IInv
BY InitIInv, NextIInv, PTL DEF Spec

(***************************************************************************)
(* The word never becomes negative and every variable keeps its type.      *)
(***************************************************************************)
THEOREM TypeCorrect == Spec => []TypeOK
<1>1. IInv => TypeOK  BY DEF IInv
<1> QED  BY <1>1, Invariance, PTL

(***************************************************************************)
(* However many threads call rawSend, at most one async_send is            *)
(* outstanding, and nobody prepares another one meanwhile.                 *)
(***************************************************************************)
THEOREM SingleTorch == Spec => []OneTorch
<1>1. IInv => OneTorch  BY DEF IInv, Exclusive
<1> QED  BY <1>1, Invariance, PTL

(***************************************************************************)
(* The assertions of finishAsyncSend and retryQueuedSend never fail.       *)
(***************************************************************************)
THEOREM AssertionsNeverFail == Spec => []AssertionsHold
<1>1. IInv => AssertionsHold
  <2> SUFFICES ASSUME IInv PROVE AssertionsHold  OBVIOUS
  <2> USE DEF IInv
  <2>1. \A a \in Agents : pc[a] # "assert_failed"  BY DEF NoFailure
  <2>2. ASSUME NEW a \in Agents, pc[a] \in {"finish", "promise"}
        PROVE  Sending(mSendingStatus)
    <3>1. Holding  BY <2>2 DEF Holding, HoldLabels, CheckLabels
    <3>2. PICK q \in {0, 1} : q = 1 <=> Checking
      <4>1. CASE Checking  BY <4>1
      <4>2. CASE ~Checking  BY <4>2
      <4> QED  BY <4>1, <4>2
    <3>3. mSendingStatus = Cardinality(Counted) + 1 * ASYNCHRONOUS_SEND_FLAG
                             + q * QUEUE_CHECK_FLAG
      BY <3>1, <3>2, Sizes, FlagsAreLarge, SMT DEF StatusInv
    <3> QED  BY <3>3, Sizes, FlagsReadable
  <2> QED  BY <2>1, <2>2 DEF AssertionsHold
<1> QED  BY <1>1, Invariance, PTL

(***************************************************************************)
(* No lost wake-up in rawSend, retryQueuedSend and finishAsyncSend: a      *)
(* chunk on the queue always has somebody who will look at it.             *)
(***************************************************************************)
THEOREM NoLostWakeup == Spec => []QueuedChunkHasKeeper
<1>1. IInv => QueuedChunkHasKeeper  BY DEF IInv
<1> QED  BY <1>1, Invariance, PTL

-----------------------------------------------------------------------------
(* The order of the chunks *)

(***************************************************************************)
(* The chunks that have left the queue or bypassed it.                     *)
(***************************************************************************)
Front == wire \o leaked \o OneOf(inFlight) \o OneOf({toSend[a] : a \in Carried})

(***************************************************************************)
(* Somebody other than a retrying thread will see to the queue.            *)
(***************************************************************************)
KeepLabels == {"commit", "torch", "finish", "swap", "promise", "wire"}

Keeper ==
  \/ \E a \in Agents : pc[a] \in KeepLabels
  \/ inFlight # {}
  \/ leaked # <<>>

(***************************************************************************)
(* While nobody keeps the queue, it holds at most the newest chunk of each *)
(* sender: a thread cannot return from rawSend and start the next one      *)
(* before its chunk has found a keeper.                                    *)
(***************************************************************************)
KeptOld ==
  (\E i \in DOMAIN mSendQueue : mSendQueue[i].n < issued[mSendQueue[i].from])
    => Keeper

(***************************************************************************)
(* What a sender saw returned has returned.                                *)
(***************************************************************************)
SeenReturned == \A t, u \in Senders : seen[t][u] <= Returned(u)

OInv == ChunksInOrder /\ KeptOld /\ SeenReturned

FrontFacts ==
  /\ leaked # <<>> => Front = wire \o leaked
  /\ \A b \in inFlight : Front = wire \o b
  /\ \A a \in Carried : Front = wire \o toSend[a]
  /\ leaked = <<>> /\ inFlight = {} /\ Carried = {} => Front = wire
  /\ Front \in Seq(Chunk)
  /\ Order = Front \o mSendQueue
  /\ Order \in Seq(Chunk)

(***************************************************************************)
(* At most one of the three places between queue and wire is occupied.     *)
(***************************************************************************)
LEMMA FrontIs == IInv => FrontFacts
<1> SUFFICES ASSUME IInv PROVE FrontFacts  OBVIOUS
<1> USE DEF IInv
<1>1. wire \in Seq(Chunk) /\ leaked \in Seq(Chunk)  BY DEF TypeOK
<1>2. OneOf({}) = <<>> /\ \A x : OneOf({x}) = x  BY DEF OneOf
<1>3. <<>> \in Seq(Chunk)  OBVIOUS
<1>4. \A s \in Seq(Chunk) : s \o <<>> = s  BY ConcatEmptySeq
<1>5. Carried \subseteq {a \in Agents : pc[a] \in TorchLabels}
  BY DEF Carried, TorchLabels
<1>10. Order = Front \o mSendQueue  BY DEF Order, Front
<1>11. mSendQueue \in Seq(Chunk)  BY DEF TypeOK
<1>12. /\ leaked # <<>> => Front = wire \o leaked
       /\ \A b \in inFlight : Front = wire \o b
       /\ \A a \in Carried : Front = wire \o toSend[a]
       /\ leaked = <<>> /\ inFlight = {} /\ Carried = {} => Front = wire
       /\ Front \in Seq(Chunk)
  <2>6. CASE leaked # <<>>
    <3>1. inFlight = {} /\ Carried = {}
      BY <1>5, <2>6 DEF Exclusive
    <3>2. {toSend[a] : a \in Carried} = {}  BY <3>1
    <3>3. wire \o leaked \in Seq(Chunk)  BY <1>1, ConcatProperties
    <3> QED  BY <2>6, <3>1, <3>2, <3>3, <1>2, <1>4 DEF Front
  <2>7. CASE inFlight # {}
    <3>1. PICK b \in inFlight : inFlight = {b}  BY <2>7 DEF Exclusive, OneTorch
    <3>2. Carried = {} /\ leaked = <<>>
      BY <1>5, <2>7 DEF Exclusive, OneTorch
    <3>3. {toSend[a] : a \in Carried} = {}  BY <3>2
    <3>4. b \in Seq(Chunk)  BY DEF TypeOK
    <3>5. wire \o b \in Seq(Chunk)  BY <1>1, <3>4, ConcatProperties
    <3>6. Front = wire \o b
      BY <3>1, <3>2, <3>3, <3>5, <1>1, <1>2, <1>4 DEF Front
    <3> QED  BY <3>1, <3>2, <3>5, <3>6
  <2>8. CASE Carried # {}
    <3>1. PICK a \in Carried : Carried = {a}
      BY <1>5, <2>8 DEF Exclusive, OneTorch
    <3>2. inFlight = {} /\ leaked = <<>>
      BY <1>5, <3>1 DEF Exclusive, OneTorch
    <3>3. {toSend[x] : x \in Carried} = {toSend[a]}  BY <3>1
    <3>4. toSend[a] \in Seq(Chunk)  BY <1>5 DEF TypeOK
    <3>5. wire \o toSend[a] \in Seq(Chunk)  BY <1>1, <3>4, ConcatProperties
    <3>6. Front = wire \o toSend[a]
      BY <3>2, <3>3, <1>1, <1>2, <1>4 DEF Front
    <3> QED  BY <3>1, <3>2, <3>5, <3>6
  <2>9. CASE leaked = <<>> /\ inFlight = {} /\ Carried = {}
    <3>1. {toSend[a] : a \in Carried} = {}  BY <2>9
    <3>2. Front = wire  BY <2>9, <3>1, <1>1, <1>2, <1>4 DEF Front
    <3> QED  BY <1>1, <2>9, <3>2
  <2> QED  BY <2>6, <2>7, <2>8, <2>9
<1> QED  BY <1>10, <1>11, <1>12, ConcatProperties DEF FrontFacts

(***************************************************************************)
(* A step that moves no chunk relative to another one, hands none over and *)
(* begins no rawSend.                                                      *)
(***************************************************************************)
LEMMA OrderKept ==
  ASSUME IInv, OInv, IInv', Order' = Order, issued' = issued,
         \A t \in Senders :
           /\ pc'[t] = "push" <=> pc[t] = "push"
           /\ pc'[t] # "idle" => pc[t] # "idle" /\ seen'[t] = seen[t]
           /\ pc'[t] = "idle" => seen'[t] \in {seen[t], NothingSeen}
  PROVE  ChunksInOrder' /\ SeenReturned'
<1>1. Order \in Seq(Chunk)  BY FrontIs DEF FrontFacts
<1>2. \A i \in DOMAIN Order : Order[i].from \in Senders
  <2>1. \A i \in DOMAIN Order : Order[i] \in Chunk  BY <1>1
  <2> QED  BY <2>1 DEF Chunk
<1>3. \A t \in Senders : HandedOver(t)' = HandedOver(t)
  BY DEF HandedOver
<1>4. RealTimeOrder'
  <2>1. DOMAIN Order = 1..Len(Order)  BY <1>1
  <2> QED  BY <1>2, <2>1 DEF OInv, ChunksInOrder, RealTimeOrder
<1>5. ChunksInOrder'
  BY <1>3, <1>4 DEF OInv, ChunksInOrder
<1>6. SeenReturned'
  <2> SUFFICES ASSUME NEW t \in Senders, NEW u \in Senders
               PROVE  seen'[t][u] <= Returned(u)'
    BY DEF SeenReturned
  <2>1. /\ issued[u] \in Nat /\ issued'[u] = issued[u]
        /\ seen[t][u] \in Nat
        /\ pc'[u] # "idle" => issued[u] >= 1
    BY Roles DEF IInv, IssuedInv, TypeOK
  <2>2. seen[t][u] <= Returned(u)  BY DEF OInv, SeenReturned
  <2>3. Returned(u) <= Returned(u)' /\ Returned(u)' \in Nat /\ Returned(u) \in Int
    BY <2>1 DEF Returned
  <2>4. seen'[t][u] \in {seen[t][u], 0}  BY DEF NothingSeen
  <2> QED  BY <2>1, <2>2, <2>3, <2>4
<1> QED  BY <1>5, <1>6

(***************************************************************************)
(* A keeper stays, or leaves an empty queue behind.                        *)
(***************************************************************************)
LEMMA OldKept ==
  ASSUME KeptOld, issued' = issued,
         \/ mSendQueue' = <<>>
         \/ mSendQueue' = mSendQueue /\ (Keeper => Keeper')
  PROVE  KeptOld'
<1>1. CASE mSendQueue' = <<>>  BY <1>1 DEF KeptOld
<1>2. CASE mSendQueue' = mSendQueue /\ (Keeper => Keeper')
  BY <1>2 DEF KeptOld
<1> QED  BY <1>1, <1>2

(***************************************************************************)
(* One agent moves on and every chunk stays where it was.                  *)
(***************************************************************************)
LEMMA AgentMoves ==
  ASSUME IInv, OInv, IInv', NEW a \in Agents, NEW l \in Labels, Goto(a, l),
         pc[a] \in Labels \ {"idle", "push"}, l # "push",
         pc[a] \in {"commit", "promise", "wire"} <=> l \in {"commit", "promise", "wire"},
         pc[a] \in KeepLabels => l \in KeepLabels,
         UNCHANGED <<mSendQueue, toSend, issued, inFlight, wire, leaked>>
  PROVE  OInv'
<1>1. /\ pc' = [pc EXCEPT ![a] = l]
      /\ seen' = [seen EXCEPT ![a] = IF l = "idle" THEN NothingSeen ELSE @]
      /\ pc \in [Agents -> Labels] /\ seen \in [Agents -> [Senders -> Nat]]
  BY DEF Goto, IInv, TypeOK
<1>2. Carried' = Carried  BY <1>1 DEF Carried
<1>3. Order' = Order  BY <1>2 DEF Order
<1>4. \A t \in Senders :
        /\ pc'[t] = "push" <=> pc[t] = "push"
        /\ pc'[t] # "idle" => pc[t] # "idle" /\ seen'[t] = seen[t]
        /\ pc'[t] = "idle" => seen'[t] \in {seen[t], NothingSeen}
  <2> TAKE t \in Senders
  <2>1. CASE t = a  BY <2>1, <1>1
  <2>2. CASE t # a  BY <2>2, <1>1, Roles
  <2> QED  BY <2>1, <2>2
<1>5. ChunksInOrder' /\ SeenReturned'  BY <1>3, <1>4, OrderKept
<1>6. Keeper => Keeper'  BY <1>1 DEF Keeper
<1>7. KeptOld'  BY <1>6, OldKept DEF OInv
<1> QED  BY <1>5, <1>7 DEF OInv

LEMMA QuietSteps ==
  ASSUME IInv, OInv, IInv', NEW a \in Agents,
         \/ CommitSender(a) \/ LeaveRawSend(a) \/ Volunteer(a) \/ StandBack(a)
         \/ RereadStatus(a) \/ TakeTorch(a) \/ ReleaseTorch(a) \/ PromiseSend(a)
         \/ (a = Reactor /\ FinishAsyncSend)
  PROVE  OInv'
<1> USE DEF KeepLabels, Labels
<1>1. CASE CommitSender(a)  BY <1>1, AgentMoves DEF CommitSender
<1>2. CASE LeaveRawSend(a) \/ RereadStatus(a)
  <2>1. \A w : RetryLabel(w) \in {"idle", "reread", "volunteer", "assert_failed"}
    BY DEF RetryLabel
  <2>2. PICK l \in {"idle", "reread", "volunteer", "assert_failed"} :
          Goto(a, l) /\ pc[a] \in {"leave", "reread"}
    BY <1>2, <2>1 DEF LeaveRawSend, RereadStatus
  <2>3. UNCHANGED <<mSendQueue, toSend, issued, inFlight, wire, leaked>>
    BY <1>2 DEF LeaveRawSend, RereadStatus
  <2> QED  BY <2>2, <2>3, AgentMoves
<1>3. CASE Volunteer(a)
  <2>1. PICK l \in {"torch", "back"} : Goto(a, l)  BY <1>3 DEF Volunteer
  <2> QED  BY <1>3, <2>1, AgentMoves DEF Volunteer
<1>4. CASE StandBack(a)  BY <1>4, AgentMoves DEF StandBack
<1>5. CASE TakeTorch(a)  BY <1>5, AgentMoves DEF TakeTorch
<1>6. CASE ReleaseTorch(a)  BY <1>6, AgentMoves DEF ReleaseTorch
<1>7. CASE PromiseSend(a)  BY <1>7, AgentMoves DEF PromiseSend
<1>8. CASE a = Reactor /\ FinishAsyncSend
  BY <1>8, AgentMoves DEF FinishAsyncSend
<1> QED  BY <1>1, <1>2, <1>3, <1>4, <1>5, <1>6, <1>7, <1>8

LEMMA FrontIsNext == ASSUME IInv' PROVE FrontFacts'
<1>1. (IInv => FrontFacts)'  BY FrontIs, PTL
<1> QED  BY <1>1

(***************************************************************************)
(* The queue becomes the batch, behind what is on the wire.                *)
(***************************************************************************)
LEMMA SwapQueueOrder ==
  ASSUME IInv, OInv, IInv', NEW a \in Agents, SwapQueue(a)
  PROVE  OInv'
<1>1. PICK l \in {"release", "promise"} :
        /\ Goto(a, l) /\ pc[a] = "swap"
        /\ l = "release" <=> mSendQueue = <<>>
        /\ toSend' = [toSend EXCEPT ![a] = mSendQueue]
        /\ mSendQueue' = <<>>
        /\ UNCHANGED <<mSendingStatus, issued, inFlight, wire, leaked>>
  BY DEF SwapQueue
<1>2. /\ pc' = [pc EXCEPT ![a] = l]
      /\ seen' = [seen EXCEPT ![a] = @]
      /\ pc \in [Agents -> Labels] /\ seen \in [Agents -> [Senders -> Nat]]
      /\ toSend \in [Agents -> Seq(Chunk)] /\ mSendQueue \in Seq(Chunk)
      /\ wire \in Seq(Chunk)
  BY <1>1 DEF Goto, IInv, TypeOK
<1>3. /\ \A b \in Agents : b # a => pc[b] \notin TorchLabels
      /\ inFlight = {} /\ leaked = <<>>
  BY <1>1, SoleHolder DEF TorchLabels
<1>4. Carried = {}  BY <1>1, <1>3 DEF Carried, TorchLabels
<1>5. Order = wire \o mSendQueue  BY <1>3, <1>4, FrontIs DEF FrontFacts
<1>6. Order' = wire \o mSendQueue
  <2>1. CASE l = "promise"
    <3>1. a \in Carried' /\ toSend'[a] = mSendQueue
      BY <2>1, <1>1, <1>2 DEF Carried
    <3>2. Front' = wire \o mSendQueue
      BY <3>1, <1>1, FrontIsNext DEF FrontFacts
    <3>3. Order' = Front' \o <<>> /\ Front' \in Seq(Chunk)
      BY <1>1, FrontIsNext DEF FrontFacts
    <3> QED  BY <3>2, <3>3, ConcatEmptySeq
  <2>2. CASE l = "release"
    <3>1. Carried' = {}
      BY <2>2, <1>1, <1>2, <1>3 DEF Carried, TorchLabels
    <3>2. Front' = wire  BY <3>1, <1>1, <1>3, FrontIsNext DEF FrontFacts
    <3>3. Order' = wire \o <<>>  BY <3>2, <1>1, FrontIsNext DEF FrontFacts
    <3> QED  BY <3>3, <2>2, <1>1
  <2> QED  BY <2>1, <2>2
<1>7. \A t \in Senders :
        /\ pc'[t] = "push" <=> pc[t] = "push"
        /\ pc'[t] # "idle" => pc[t] # "idle" /\ seen'[t] = seen[t]
        /\ pc'[t] = "idle" => seen'[t] \in {seen[t], NothingSeen}
  BY <1>1, <1>2, Roles
<1>8. ChunksInOrder' /\ SeenReturned'  BY <1>1, <1>5, <1>6, <1>7, OrderKept
<1>9. KeptOld'  BY <1>1, OldKept DEF OInv
<1> QED  BY <1>8, <1>9 DEF OInv

(***************************************************************************)
(* The batch passes from its agent to the outstanding async_send.          *)
(***************************************************************************)
LEMMA SendToWireOrder ==
  ASSUME IInv, OInv, IInv', NEW a \in Agents, SendToWire(a)
  PROVE  OInv'
<1>1. /\ pc[a] = "wire"
      /\ pc' = [pc EXCEPT ![a] = "idle"]
      /\ seen' = [seen EXCEPT ![a] = NothingSeen]
      /\ inFlight' = inFlight \cup {toSend[a]}
      /\ UNCHANGED <<mSendQueue, issued, wire, leaked>>
      /\ pc \in [Agents -> Labels] /\ seen \in [Agents -> [Senders -> Nat]]
  BY DEF SendToWire, Goto, IInv, TypeOK
<1>2. Front = wire \o toSend[a]
  BY <1>1, FrontIs DEF Carried, FrontFacts
<1>3. Front' = wire \o toSend[a]
  BY <1>1, FrontIsNext DEF FrontFacts
<1>4. Order' = Order
  BY <1>1, <1>2, <1>3, FrontIs, FrontIsNext DEF FrontFacts
<1>5. \A t \in Senders :
        /\ pc'[t] = "push" <=> pc[t] = "push"
        /\ pc'[t] # "idle" => pc[t] # "idle" /\ seen'[t] = seen[t]
        /\ pc'[t] = "idle" => seen'[t] \in {seen[t], NothingSeen}
  BY <1>1, Roles
<1>6. ChunksInOrder' /\ SeenReturned'  BY <1>1, <1>4, <1>5, OrderKept
<1>7. Keeper'  BY <1>1 DEF Keeper
<1>8. KeptOld'  BY <1>1, <1>7, OldKept DEF OInv
<1> QED  BY <1>6, <1>8 DEF OInv

LEMMA Regroup ==
  ASSUME NEW s \in Seq(Chunk), NEW t \in Seq(Chunk), NEW u \in Seq(Chunk)
  PROVE  (s \o t) \o u = s \o (t \o u)
BY ConcatAssociative

(***************************************************************************)
(* The front part of the batch goes to the end of the wire.                *)
(***************************************************************************)
LEMMA SendCompletedOrder ==
  ASSUME IInv, OInv, IInv', SendCompleted
  PROVE  OInv'
<1>1. PICK b \in inFlight : \E k \in 1..Len(b) :
        /\ wire' = wire \o SubSeq(b, 1, k)
        /\ IF k = Len(b)
           THEN /\ inFlight' = inFlight \ {b}
                /\ Goto(Reactor, "finish")
           ELSE /\ inFlight' = (inFlight \ {b}) \cup {SubSeq(b, k + 1, Len(b))}
                /\ UNCHANGED <<pc, seen>>
  BY DEF SendCompleted
<1>2. PICK k \in 1..Len(b) :
        /\ wire' = wire \o SubSeq(b, 1, k)
        /\ IF k = Len(b)
           THEN /\ inFlight' = inFlight \ {b}
                /\ Goto(Reactor, "finish")
           ELSE /\ inFlight' = (inFlight \ {b}) \cup {SubSeq(b, k + 1, Len(b))}
                /\ UNCHANGED <<pc, seen>>
  BY <1>1
<1>3. /\ pc \in [Agents -> Labels] /\ Reactor \in Agents
      /\ seen \in [Agents -> [Senders -> Nat]]
      /\ pc[Reactor] = "idle"
      /\ UNCHANGED <<mSendQueue, toSend, issued, leaked>>
      /\ b \in Seq(Chunk) /\ Len(b) \in Nat /\ wire \in Seq(Chunk)
  <2>1. inFlight \subseteq Seq(Chunk)  BY DEF IInv, TypeOK
  <2>2. b \in Seq(Chunk) /\ Len(b) \in Nat  BY <2>1
  <2> QED  BY <2>2 DEF SendCompleted, IInv, TypeOK, Agents
<1>4. inFlight = {b} /\ leaked = <<>>
      /\ \A a \in Agents : pc[a] \notin TorchLabels
  BY DEF IInv, Exclusive, OneTorch
<1>5. Order = (wire \o b) \o mSendQueue  BY FrontIs DEF FrontFacts
<1>6. CASE k = Len(b)
  <2>1. /\ inFlight' = {} /\ pc' = [pc EXCEPT ![Reactor] = "finish"]
        /\ seen' = [seen EXCEPT ![Reactor] = @]
    BY <1>2, <1>4, <1>6 DEF Goto
  <2>2. SubSeq(b, 1, Len(b)) = b  BY <1>3
  <2>3. Carried' = {}  BY <2>1, <1>3, <1>4 DEF Carried, TorchLabels
  <2>4. Front' = wire \o b
    BY <1>2, <1>3, <1>4, <1>6, <2>1, <2>2, <2>3, FrontIsNext DEF FrontFacts
  <2>5. Order' = Order  BY <1>3, <1>5, <2>4, FrontIsNext DEF FrontFacts
  <2>6. \A t \in Senders :
          /\ pc'[t] = "push" <=> pc[t] = "push"
          /\ pc'[t] # "idle" => pc[t] # "idle" /\ seen'[t] = seen[t]
          /\ pc'[t] = "idle" => seen'[t] \in {seen[t], NothingSeen}
    BY <1>3, <2>1, Roles
  <2>7. ChunksInOrder' /\ SeenReturned'  BY <1>3, <2>5, <2>6, OrderKept
  <2>8. Keeper'  BY <1>3, <2>1 DEF Keeper, KeepLabels
  <2>9. KeptOld'  BY <1>3, <2>8, OldKept DEF OInv
  <2> QED  BY <2>7, <2>9 DEF OInv
<1>7. CASE k # Len(b)
  <2> DEFINE done == SubSeq(b, 1, k)
             rest == SubSeq(b, k + 1, Len(b))
  <2>1. inFlight' = {rest} /\ UNCHANGED <<pc, seen>> /\ wire' = wire \o done
    BY <1>2, <1>4, <1>7
  <2>2. done \in Seq(Chunk) /\ rest \in Seq(Chunk) /\ done \o rest = b
    <3>1. done \in Seq(Chunk)  BY <1>3
    <3>2. rest \in Seq(Chunk)
      <4>1. \A i \in (k + 1)..Len(b) : b[i] \in Chunk  BY <1>3
      <4> QED  BY <4>1, <1>3, SubSeqProperties
    <3>3. done \o rest = SubSeq(b, 1, Len(b))
      <4>1. 1 \in 1..Len(b) + 1 /\ k \in 1 - 1..Len(b) /\ Len(b) \in k..Len(b)
        BY <1>3
      <4> QED  BY <4>1, <1>3, ConcatAdjacentSubSeq
    <3>4. SubSeq(b, 1, Len(b)) = b  BY <1>3
    <3> QED  BY <3>1, <3>2, <3>3, <3>4
  <2> HIDE DEF done, rest
  <2>3. Front' = (wire \o done) \o rest
    BY <2>1, FrontIsNext DEF FrontFacts
  <2>4. (wire \o done) \o rest = wire \o (done \o rest)
    <3>1. wire \in Seq(Chunk) /\ done \in Seq(Chunk) /\ rest \in Seq(Chunk)
      BY <1>3, <2>2
    <3> QED  BY <3>1, Regroup
  <2>9. Front' = wire \o b  BY <2>2, <2>3, <2>4
  <2>5. Order' = Order  BY <1>3, <1>5, <2>9, FrontIsNext DEF FrontFacts
  <2>6. ChunksInOrder' /\ SeenReturned'  BY <1>3, <2>1, <2>5, OrderKept
  <2>7. Keeper'  BY <2>1 DEF Keeper
  <2>8. KeptOld'  BY <1>3, <2>7, OldKept DEF OInv
  <2> QED  BY <2>6, <2>8 DEF OInv
<1> QED  BY <1>6, <1>7

LEMMA SendFailedOrder ==
  ASSUME IInv, OInv, IInv', SendFailed
  PROVE  OInv'
<1>1. PICK b \in inFlight : inFlight' = inFlight \ {b} /\ leaked' = b
  BY DEF SendFailed
<1>2. UNCHANGED <<mSendingStatus, mSendQueue, pc, toSend, issued, wire, seen>>
  BY DEF SendFailed
<1>3. b # <<>>  BY DEF IInv, BatchInv
<1>4. Front = wire \o b  BY FrontIs DEF FrontFacts
<1>5. Front' = wire \o b  BY <1>1, <1>2, <1>3, FrontIsNext DEF FrontFacts
<1>6. Order' = Order  BY <1>2, <1>4, <1>5, FrontIs, FrontIsNext DEF FrontFacts
<1>7. ChunksInOrder' /\ SeenReturned'  BY <1>2, <1>6, OrderKept
<1>8. Keeper'  BY <1>1, <1>3 DEF Keeper
<1>9. KeptOld'  BY <1>2, <1>8, OldKept DEF OInv
<1> QED  BY <1>7, <1>9 DEF OInv

(***************************************************************************)
(* What the order of a reachable state says of one of its chunks.          *)
(***************************************************************************)
LEMMA ChunkHanded ==
  ASSUME IInv, OInv, NEW i \in DOMAIN Order
  PROVE  /\ Order[i] \in Chunk /\ Order[i].from \in Senders /\ Order[i].n \in Nat
         /\ Order[i].n \in HandedOver(Order[i].from)
<1>1. Order \in Seq(Chunk)  BY FrontIs DEF FrontFacts
<1>2. Order[i] \in Chunk  BY <1>1
<1>3. Order[i].from \in Senders /\ Order[i].n \in Nat  BY <1>2 DEF Chunk
<1> QED  BY <1>2, <1>3 DEF OInv, ChunksInOrder

(***************************************************************************)
(* The chunk of a thread that is not alone goes to the end of the queue.   *)
(***************************************************************************)
LEMMA PushChunkOrder ==
  ASSUME IInv, OInv, IInv', NEW t \in Senders, PushChunk(t)
  PROVE  OInv'
<1>1. PICK c : c = [from |-> t, n |-> issued[t]]  OBVIOUS
<1>2. /\ pc \in [Agents -> Labels] /\ t \in Agents
      /\ seen \in [Agents -> [Senders -> Nat]] /\ issued \in [Senders -> Nat]
      /\ pc[t] = "push"
      /\ pc' = [pc EXCEPT ![t] = "leave"]
      /\ seen' = [seen EXCEPT ![t] = @]
      /\ UNCHANGED <<issued, inFlight, wire, leaked>>
  BY Roles DEF PushChunk, Goto, IInv, TypeOK
<1>3. /\ mSendQueue' = mSendQueue \o <<c>> /\ c \in Chunk
      /\ mSendQueue \in Seq(Chunk) /\ <<c>> \in Seq(Chunk)
      /\ c.from = t /\ c.n = issued[t] /\ issued[t] \in Nat /\ issued[t] >= 1
  <2>1. issued[t] \in Nat /\ issued[t] >= 1 /\ mSendQueue \in Seq(Chunk)
    BY <1>2 DEF IInv, IssuedInv, TypeOK
  <2>2. c \in Chunk /\ c.from = t /\ c.n = issued[t]
    BY <1>1, <2>1 DEF Chunk
  <2>3. mSendQueue' = mSendQueue \o <<c>>
    BY <1>1, <1>2 DEF PushChunk, IInv, BatchInv
  <2>4. <<c>> \in Seq(Chunk)  BY <2>2
  <2> QED  BY <2>1, <2>2, <2>3, <2>4
<1>4. toSend' = [toSend EXCEPT ![t] = <<>>]  BY DEF PushChunk
<1>5. Carried' = Carried /\ t \notin Carried  BY <1>2 DEF Carried
<1>6. \A a \in Carried : toSend'[a] = toSend[a]
  BY <1>4, <1>5 DEF Carried, IInv, TypeOK
<1>7. {toSend'[a] : a \in Carried'} = {toSend[a] : a \in Carried}
  BY <1>5, <1>6
<1>8. Front' = Front  BY <1>2, <1>7 DEF Front
<1>9. /\ Order' = Order \o <<c>> /\ Order \in Seq(Chunk)
  <2>1. /\ Order = Front \o mSendQueue /\ Order' = Front \o (mSendQueue \o <<c>>)
        /\ Front \in Seq(Chunk) /\ Order \in Seq(Chunk)
    BY <1>3, <1>8, FrontIs, FrontIsNext DEF FrontFacts
  <2>2. (Front \o mSendQueue) \o <<c>> = Front \o (mSendQueue \o <<c>>)
    BY <2>1, <1>3, Regroup
  <2> QED  BY <2>1, <2>2
<1>10. PICK m \in Nat : m = Len(Order)  BY <1>9
<1>11. /\ DOMAIN Order = 1..m /\ DOMAIN Order' = 1..m + 1 /\ Len(Order') = m + 1
       /\ \A i \in 1..m : Order'[i] = Order[i]
       /\ Order'[m + 1] = c
  <2>1. Len(<<c>>) = 1 /\ <<c>>[1] = c  OBVIOUS
  <2>2. /\ Order \o <<c>> \in Seq(Chunk) /\ Len(Order \o <<c>>) = m + 1
        /\ \A i \in 1..m + 1 :
             (Order \o <<c>>)[i] = IF i <= m THEN Order[i] ELSE <<c>>[i - m]
    BY <1>3, <1>9, <1>10, <2>1, ConcatProperties
  <2>3. (m + 1) - m = 1 /\ ~(m + 1 <= m) /\ m + 1 \in 1..m + 1
        /\ \A i \in 1..m : i \in 1..m + 1 /\ i <= m
    OBVIOUS
  <2>4. \A i \in 1..m : Order'[i] = Order[i]  BY <2>2, <2>3, <1>9
  <2>5. Order'[m + 1] = c  BY <2>1, <2>2, <2>3, <1>9
  <2> QED  BY <2>2, <2>4, <2>5, <1>9, <1>10
<1>12. \A i \in 1..m :
         /\ Order[i].from \in Senders /\ Order[i].n \in Nat
         /\ Order[i].n \in HandedOver(Order[i].from)
  BY <1>11, ChunkHanded
<1>13. HandedOver(t) = 1..issued[t] - 1 /\ HandedOver(t)' = 1..issued[t]
       /\ \A u \in Senders : u # t => HandedOver(u)' = HandedOver(u)
  BY <1>2, Roles DEF HandedOver
<1>14. ASSUME NEW u \in Senders
       PROVE  /\ \A i, j \in DOMAIN Order' :
                   i < j /\ Order'[i].from = u /\ Order'[j].from = u
                     => Order'[i].n < Order'[j].n
              /\ {Order'[i].n : i \in {k \in DOMAIN Order' : Order'[k].from = u}}
                   = HandedOver(u)'
  <2>1. /\ \A i, j \in 1..m :
             i < j /\ Order[i].from = u /\ Order[j].from = u => Order[i].n < Order[j].n
        /\ {Order[i].n : i \in {k \in 1..m : Order[k].from = u}} = HandedOver(u)
    BY <1>11 DEF OInv, ChunksInOrder
  <2>2. ASSUME NEW i \in DOMAIN Order', NEW j \in DOMAIN Order', i < j,
               Order'[i].from = u, Order'[j].from = u
        PROVE  Order'[i].n < Order'[j].n
    <3>1. i \in 1..m  BY <2>2, <1>11
    <3>2. CASE j \in 1..m  BY <3>1, <3>2, <2>1, <2>2, <1>11
    <3>3. CASE j = m + 1
      <4>1. u = t /\ Order'[j].n = issued[t]  BY <3>3, <2>2, <1>3, <1>11
      <4>2. Order[i].n \in 1..issued[t] - 1
        BY <4>1, <3>1, <2>2, <1>11, <1>12, <1>13
      <4> QED  BY <3>1, <4>1, <4>2, <1>3, <1>11
    <3> QED  BY <3>2, <3>3, <1>11
  <2>3. {Order'[i].n : i \in {k \in DOMAIN Order' : Order'[k].from = u}}
          = {Order[i].n : i \in {k \in 1..m : Order[k].from = u}}
              \cup (IF u = t THEN {issued[t]} ELSE {})
    <3>1. m + 1 \in 1..m + 1 /\ \A i \in 1..m + 1 : i \in 1..m \/ i = m + 1
      OBVIOUS
    <3>2. 1..m \subseteq 1..m + 1  OBVIOUS
    <3> QED  BY <3>1, <3>2, <1>3, <1>11
  <2>4. CASE u = t
    <3>1. 1..issued[t] = (1..issued[t] - 1) \cup {issued[t]}  BY <1>3
    <3> QED  BY <2>1, <2>2, <2>3, <2>4, <3>1, <1>13
  <2>5. CASE u # t  BY <2>1, <2>2, <2>3, <2>5, <1>13
  <2> QED  BY <2>4, <2>5
<1>15. RealTimeOrder'
  <2> SUFFICES ASSUME NEW i \in 1..m + 1, NEW j \in 1..m + 1, i < j,
                      pc'[Order'[i].from] # "idle",
                      Order'[i].n = issued'[Order'[i].from]
               PROVE  seen'[Order'[i].from][Order'[j].from] < Order'[j].n
    BY <1>11 DEF RealTimeOrder
  <2>1. i \in 1..m  OBVIOUS
  <2>2. PICK u \in Senders : u = Order[i].from  BY <2>1, <1>12
  <2>3. /\ Order'[i] = Order[i] /\ pc[u] # "idle" /\ Order[i].n = issued[u]
        /\ seen'[u] = seen[u] /\ seen[u] \in [Senders -> Nat]
    BY <2>1, <2>2, <1>2, <1>11, Roles
  <2>4. CASE j \in 1..m
    <3>1. seen[u][Order[j].from] < Order[j].n
      BY <2>1, <2>2, <2>3, <2>4, <1>10 DEF OInv, ChunksInOrder, RealTimeOrder
    <3> QED  BY <3>1, <2>2, <2>3, <2>4, <1>11
  <2>5. CASE j = m + 1
    <3>1. seen[u][t] <= issued[t] - 1
      BY <1>2 DEF OInv, SeenReturned, Returned
    <3>2. seen[u][t] \in Nat  BY <2>3
    <3>3. Order'[j].from = t /\ Order'[j].n = issued[t]  BY <2>5, <1>3, <1>11
    <3> QED  BY <3>1, <3>2, <3>3, <2>2, <2>3, <1>3
  <2> QED  BY <2>4, <2>5
<1>16. ChunksInOrder'  BY <1>14, <1>15 DEF ChunksInOrder
<1>17. SeenReturned'
  <2>1. \A u \in Senders : Returned(u)' = Returned(u) /\ seen'[u] = seen[u]
    BY <1>2, Roles DEF Returned
  <2> QED  BY <2>1 DEF OInv, SeenReturned
<1>18. KeptOld'
  <2>1. Keeper => Keeper'  BY <1>2 DEF Keeper, KeepLabels
  <2>2. ASSUME NEW i \in DOMAIN mSendQueue',
               mSendQueue'[i].n < issued'[mSendQueue'[i].from]
        PROVE  Keeper
    <3>1. PICK q \in Nat : q = Len(mSendQueue)  BY <1>3
    <3>2. /\ DOMAIN mSendQueue = 1..q /\ DOMAIN mSendQueue' = 1..q + 1
          /\ \A x \in 1..q + 1 :
               mSendQueue'[x] = IF x <= q THEN mSendQueue[x] ELSE <<c>>[x - q]
      <4>1. /\ mSendQueue \o <<c>> \in Seq(Chunk)
            /\ Len(mSendQueue \o <<c>>) = q + Len(<<c>>)
            /\ \A x \in 1..q + Len(<<c>>) :
                 (mSendQueue \o <<c>>)[x]
                   = IF x <= q THEN mSendQueue[x] ELSE <<c>>[x - q]
        BY <1>3, <3>1, ConcatProperties
      <4>2. Len(<<c>>) = 1  OBVIOUS
      <4> QED  BY <4>1, <4>2, <3>1, <1>3
    <3>3. CASE i \in 1..q
      BY <3>2, <3>3, <2>2, <1>2 DEF OInv, KeptOld
    <3>4. CASE i = q + 1
      <4>1. mSendQueue'[i] = c
        <5>1. i - q = 1 /\ ~(i <= q) /\ i \in 1..q + 1  BY <3>4
        <5>2. <<c>>[1] = c  OBVIOUS
        <5> QED  BY <5>1, <5>2, <3>2
      <4> QED  BY <4>1, <2>2, <1>2, <1>3
    <3> QED  BY <3>2, <3>3, <3>4
  <2> QED  BY <2>1, <2>2 DEF KeptOld
<1> QED  BY <1>16, <1>17, <1>18 DEF OInv

(***************************************************************************)
(* One element put in between two sequences.                               *)
(***************************************************************************)
LEMMA Inserted ==
  ASSUME NEW w \in Seq(Chunk), NEW q \in Seq(Chunk), NEW c \in Chunk
  PROVE  LET new == (w \o <<c>>) \o q
             old == w \o q
         IN  /\ new \in Seq(Chunk) /\ Len(new) = Len(w) + Len(q) + 1
             /\ old \in Seq(Chunk) /\ Len(old) = Len(w) + Len(q)
             /\ \A i \in 1..Len(w) : new[i] = old[i]
             /\ new[Len(w) + 1] = c
             /\ \A i \in Len(w) + 1..Len(w) + Len(q) :
                  new[i + 1] = old[i] /\ old[i] = q[i - Len(w)]
<1>1. <<c>> \in Seq(Chunk) /\ Len(<<c>>) = 1 /\ <<c>>[1] = c  OBVIOUS
<1>2. PICK m \in Nat : m = Len(w)  OBVIOUS
<1>3. PICK k \in Nat : k = Len(q)  OBVIOUS
<1>4. /\ w \o <<c>> \in Seq(Chunk) /\ Len(w \o <<c>>) = m + 1
      /\ \A i \in 1..m + 1 : (w \o <<c>>)[i] = IF i <= m THEN w[i] ELSE <<c>>[i - m]
  BY <1>1, <1>2, ConcatProperties
<1>5. /\ w \o q \in Seq(Chunk) /\ Len(w \o q) = m + k
      /\ \A i \in 1..m + k : (w \o q)[i] = IF i <= m THEN w[i] ELSE q[i - m]
  BY <1>2, <1>3, ConcatProperties
<1>6. PICK v \in Seq(Chunk) : v = w \o <<c>>  BY <1>4
<1>7. /\ Len(v) = m + 1
      /\ \A i \in 1..m + 1 : v[i] = IF i <= m THEN w[i] ELSE <<c>>[i - m]
  BY <1>4, <1>6
<1>8. /\ v \o q \in Seq(Chunk) /\ Len(v \o q) = (m + 1) + k
      /\ \A i \in 1..(m + 1) + k :
           (v \o q)[i] = IF i <= m + 1 THEN v[i] ELSE q[i - (m + 1)]
  <2>1. /\ v \o q \in Seq(Chunk) /\ Len(v \o q) = Len(v) + Len(q)
        /\ \A i \in 1..Len(v) + Len(q) :
             (v \o q)[i] = IF i <= Len(v) THEN v[i] ELSE q[i - Len(v)]
    BY ConcatProperties
  <2>2. Len(v) = m + 1 /\ Len(q) = k  BY <1>3, <1>7
  <2> QED  BY <2>1, <2>2
<1>9. PICK new \in Seq(Chunk) : new = v \o q  BY <1>8
<1>10. PICK old \in Seq(Chunk) : old = w \o q  BY <1>5
<1>11. /\ Len(new) = (m + 1) + k /\ Len(old) = m + k
       /\ \A i \in 1..(m + 1) + k : new[i] = IF i <= m + 1 THEN v[i] ELSE q[i - (m + 1)]
       /\ \A i \in 1..m + k : old[i] = IF i <= m THEN w[i] ELSE q[i - m]
  BY <1>5, <1>8, <1>9, <1>10
<1>12. \A i \in 1..m : new[i] = old[i]
  <2> TAKE i \in 1..m
  <2>1. i \in 1..(m + 1) + k /\ i <= m + 1 /\ i \in 1..m + 1 /\ i <= m /\ i \in 1..m + k
    OBVIOUS
  <2> QED  BY <2>1, <1>7, <1>11
<1>13. new[m + 1] = c
  <2>1. m + 1 \in 1..(m + 1) + k /\ m + 1 \in 1..m + 1 /\ ~(m + 1 <= m)
        /\ m + 1 - m = 1 /\ m + 1 <= m + 1
    OBVIOUS
  <2>2. new[m + 1] = v[m + 1]  BY <2>1, <1>11
  <2>3. v[m + 1] = <<c>>[1]  BY <2>1, <1>7
  <2> QED  BY <2>2, <2>3
<1>14. \A i \in m + 1..m + k : new[i + 1] = old[i] /\ old[i] = q[i - m]
  <2> TAKE i \in m + 1..m + k
  <2>1. /\ i + 1 \in 1..(m + 1) + k /\ ~(i + 1 <= m + 1) /\ i \in 1..m + k
        /\ ~(i <= m) /\ (i + 1) - (m + 1) = i - m
    OBVIOUS
  <2> QED  BY <2>1, <1>11
<1> QED
  BY <1>2, <1>3, <1>6, <1>9, <1>10, <1>11, <1>12, <1>13, <1>14

(***************************************************************************)
(* The chosen one passes the queue: what is in it belongs to threads that  *)
(* are still in rawSend, so nothing that had returned is overtaken.        *)
(***************************************************************************)
LEMMA ChosenOrder ==
  ASSUME IInv, OInv, IInv', NEW t \in Senders, RawSend(t), pc'[t] = "commit"
  PROVE  ChunksInOrder'
<1>1. PICK c : c = [from |-> t, n |-> issued[t] + 1]  OBVIOUS
<1>2. /\ pc \in [Agents -> Labels] /\ t \in Agents
      /\ seen \in [Agents -> [Senders -> Nat]] /\ issued \in [Senders -> Nat]
      /\ pc[t] = "idle" /\ pc' = [pc EXCEPT ![t] = "commit"]
      /\ mSendingStatus + 1 = 1
      /\ seen' = [seen EXCEPT ![t] = [u \in Senders |-> Returned(u)]]
      /\ issued' = [issued EXCEPT ![t] = @ + 1]
      /\ toSend' = [toSend EXCEPT ![t] = <<c>>]
      /\ toSend \in [Agents -> Seq(Chunk)]
      /\ UNCHANGED <<mSendQueue, inFlight, wire, leaked>>
      /\ wire \in Seq(Chunk) /\ mSendQueue \in Seq(Chunk)
  BY <1>1, Roles DEF RawSend, IInv, TypeOK
<1>3. issued[t] \in Nat /\ c.from = t /\ c.n = issued[t] + 1 /\ c \in Chunk
  BY <1>1, <1>2 DEF Chunk
<1>4. /\ \A a \in Agents : pc[a] \notin TorchLabels
      /\ inFlight = {} /\ leaked = <<>>
  BY <1>2, ReadsOne, NobodyElse DEF IInv
<1>5. ~Keeper  BY <1>4 DEF Keeper, KeepLabels, TorchLabels
<1>6. ASSUME NEW x \in DOMAIN mSendQueue
      PROVE  /\ mSendQueue[x].from \in Senders \ {t}
             /\ pc[mSendQueue[x].from] # "idle"
             /\ ~(mSendQueue[x].n < issued[mSendQueue[x].from])
  <2>1. mSendQueue[x] \in Chunk /\ x \in 1..Len(mSendQueue)  BY <1>2
  <2>2. mSendQueue[x].from \in Senders  BY <2>1 DEF Chunk
  <2>3. pc[mSendQueue[x].from] \in RetryLabels
    BY <2>1, <1>5 DEF IInv, QueuedChunkHasKeeper, Keeper, KeepLabels
  <2> QED  BY <2>2, <2>3, <1>2, <1>5 DEF OInv, KeptOld, RetryLabels
<1>7. Order = wire \o mSendQueue
  <2>1. Carried = {}  BY <1>4 DEF Carried, TorchLabels
  <2> QED  BY <2>1, <1>4, FrontIs DEF FrontFacts
<1>8. Order' = (wire \o <<c>>) \o mSendQueue
  <2>1. t \in Carried' /\ toSend'[t] = <<c>>  BY <1>2 DEF Carried
  <2> QED  BY <2>1, <1>2, FrontIsNext DEF FrontFacts
<1>9. PICK m \in Nat : m = Len(wire)  BY <1>2
<1>10. PICK k \in Nat : k = Len(mSendQueue)  BY <1>2
<1>11. /\ Order' \in Seq(Chunk) /\ Len(Order') = m + k + 1
       /\ Order \in Seq(Chunk) /\ Len(Order) = m + k
       /\ \A i \in 1..m : Order'[i] = Order[i]
       /\ Order'[m + 1] = c
       /\ \A i \in m + 1..m + k :
            Order'[i + 1] = Order[i] /\ Order[i] = mSendQueue[i - m]
  <2>1. LET new == (wire \o <<c>>) \o mSendQueue
            old == wire \o mSendQueue
        IN  /\ new \in Seq(Chunk) /\ Len(new) = Len(wire) + Len(mSendQueue) + 1
            /\ old \in Seq(Chunk) /\ Len(old) = Len(wire) + Len(mSendQueue)
            /\ \A i \in 1..Len(wire) : new[i] = old[i]
            /\ new[Len(wire) + 1] = c
            /\ \A i \in Len(wire) + 1..Len(wire) + Len(mSendQueue) :
                 new[i + 1] = old[i] /\ old[i] = mSendQueue[i - Len(wire)]
    BY <1>2, <1>3, Inserted
  <2> QED  BY <2>1, <1>7, <1>8, <1>9, <1>10
<1>12. DOMAIN Order = 1..m + k /\ DOMAIN Order' = 1..m + k + 1  BY <1>11
<1>13. \A i \in 1..m + k :
         /\ Order[i].from \in Senders /\ Order[i].n \in Nat
         /\ Order[i].n \in HandedOver(Order[i].from)
  BY <1>12, ChunkHanded
<1>14. \A i \in m + 1..m + k :
         /\ Order[i].from # t /\ pc[Order[i].from] # "idle"
         /\ ~(Order[i].n < issued[Order[i].from])
  <2> TAKE i \in m + 1..m + k
  <2>1. i - m \in DOMAIN mSendQueue  BY <1>2, <1>10
  <2> QED  BY <2>1, <1>6, <1>11
<1> DEFINE Old(i) == IF i <= m THEN i ELSE i - 1
<1>15. ASSUME NEW i \in 1..m + k + 1, i # m + 1
       PROVE  Old(i) \in 1..m + k /\ Order'[i] = Order[Old(i)]
  <2>1. CASE i <= m
    BY <2>1, <1>11
  <2>2. CASE i > m + 1
    <3>1. i - 1 \in m + 1..m + k /\ (i - 1) + 1 = i /\ Old(i) = i - 1
      BY <2>2
    <3> QED  BY <3>1, <1>11
  <2> QED  BY <1>15, <2>1, <2>2
<1>16. \A i, j \in 1..m + k + 1 :
         i # m + 1 /\ j # m + 1 /\ i < j => Old(i) < Old(j)
  OBVIOUS
<1>17. /\ HandedOver(t) = 1..issued[t] /\ HandedOver(t)' = 1..issued[t] + 1
       /\ \A u \in Senders : u # t => HandedOver(u)' = HandedOver(u)
  BY <1>2, Roles DEF HandedOver
<1>18. ASSUME NEW u \in Senders
       PROVE  /\ \A i, j \in DOMAIN Order' :
                   i < j /\ Order'[i].from = u /\ Order'[j].from = u
                     => Order'[i].n < Order'[j].n
              /\ {Order'[i].n : i \in {x \in DOMAIN Order' : Order'[x].from = u}}
                   = HandedOver(u)'
  <2>1. /\ \A i, j \in 1..m + k :
             i < j /\ Order[i].from = u /\ Order[j].from = u => Order[i].n < Order[j].n
        /\ {Order[i].n : i \in {x \in 1..m + k : Order[x].from = u}} = HandedOver(u)
    BY <1>12 DEF OInv, ChunksInOrder
  <2>2. ASSUME NEW i \in 1..m + k + 1, NEW j \in 1..m + k + 1, i < j,
               Order'[i].from = u, Order'[j].from = u
        PROVE  Order'[i].n < Order'[j].n
    <3>1. CASE i # m + 1 /\ j # m + 1
      <4>1. /\ Old(i) \in 1..m + k /\ Order'[i] = Order[Old(i)]
            /\ Old(j) \in 1..m + k /\ Order'[j] = Order[Old(j)]
            /\ Old(i) < Old(j)
        BY <3>1, <2>2, <1>15, <1>16
      <4> HIDE DEF Old
      <4> QED  BY <4>1, <2>1, <2>2
    <3>2. CASE i = m + 1
      <4>1. u = t  BY <3>2, <2>2, <1>3, <1>11
      <4>2. j - 1 \in m + 1..m + k /\ (j - 1) + 1 = j  BY <3>2, <2>2
      <4>3. Order'[j].from # t  BY <4>2, <1>11, <1>14
      <4> QED  BY <4>1, <4>3, <2>2
    <3>3. CASE j = m + 1
      <4>1. u = t /\ Order'[j].n = issued[t] + 1  BY <3>3, <2>2, <1>3, <1>11
      <4>2. i \in 1..m /\ i \in 1..m + k  BY <3>3, <2>2
      <4>3. Order[i].n \in 1..issued[t]
        BY <4>1, <4>2, <2>2, <1>11, <1>13, <1>17
      <4> QED  BY <4>1, <4>2, <4>3, <1>3, <1>11
    <3> QED  BY <3>1, <3>2, <3>3
  <2>3. {Order'[i].n : i \in {x \in 1..m + k + 1 : Order'[x].from = u}}
          = {Order[i].n : i \in {x \in 1..m + k : Order[x].from = u}}
              \cup (IF u = t THEN {issued[t] + 1} ELSE {})
    <3>1. ASSUME NEW i \in 1..m + k + 1, Order'[i].from = u
          PROVE  \/ u = t /\ Order'[i].n = issued[t] + 1
                 \/ \E x \in 1..m + k : Order[x].from = u /\ Order[x].n = Order'[i].n
      <4>1. CASE i = m + 1  BY <4>1, <3>1, <1>3, <1>11
      <4>2. CASE i # m + 1  BY <4>2, <3>1, <1>15
      <4> QED  BY <4>1, <4>2
    <3>2. ASSUME NEW x \in 1..m + k, Order[x].from = u
          PROVE  \E i \in 1..m + k + 1 : Order'[i].from = u /\ Order'[i].n = Order[x].n
      <4>1. CASE x \in 1..m
        <5>1. x \in 1..m + k + 1  OBVIOUS
        <5> QED  BY <4>1, <5>1, <3>2, <1>11
      <4>2. CASE x \in m + 1..m + k
        <5>1. x + 1 \in 1..m + k + 1  OBVIOUS
        <5> QED  BY <4>2, <5>1, <3>2, <1>11
      <4> QED  BY <4>1, <4>2
    <3>3. m + 1 \in 1..m + k + 1 /\ Order'[m + 1].from = t
          /\ Order'[m + 1].n = issued[t] + 1
      BY <1>3, <1>11
    <3> HIDE DEF Old
    <3> QED  BY <3>1, <3>2, <3>3
  <2>4. CASE u = t
    <3>1. 1..issued[t] + 1 = (1..issued[t]) \cup {issued[t] + 1}  BY <1>3
    <3> QED  BY <2>1, <2>2, <2>3, <2>4, <3>1, <1>12, <1>17
  <2>5. CASE u # t  BY <2>1, <2>2, <2>3, <2>5, <1>12, <1>17
  <2> QED  BY <2>4, <2>5
<1>19. RealTimeOrder'
  <2> SUFFICES ASSUME NEW i \in 1..m + k + 1, NEW j \in 1..m + k + 1, i < j,
                      pc'[Order'[i].from] # "idle",
                      Order'[i].n = issued'[Order'[i].from]
               PROVE  seen'[Order'[i].from][Order'[j].from] < Order'[j].n
    BY <1>11 DEF RealTimeOrder
  <2>1. CASE i = m + 1
    <3>1. j - 1 \in m + 1..m + k /\ (j - 1) + 1 = j /\ j - 1 \in 1..m + k  BY <2>1
    <3>2. PICK d : d = Order[j - 1]  OBVIOUS
    <3>3. /\ Order'[j] = d /\ d.from \in Senders /\ d.n \in Nat
          /\ pc[d.from] # "idle" /\ ~(d.n < issued[d.from])
      BY <3>1, <3>2, <1>11, <1>13, <1>14
    <3>4. Returned(d.from) = issued[d.from] - 1 /\ issued[d.from] \in Nat
      BY <3>3, <1>2 DEF Returned
    <3>5. seen'[t][d.from] = Returned(d.from)  BY <3>3, <1>2
    <3>6. Order'[i].from = t  BY <2>1, <1>3, <1>11
    <3> QED  BY <3>3, <3>4, <3>5, <3>6
  <2>2. CASE i # m + 1
    <3>1. PICK x \in 1..m + k : x = Old(i) /\ Order'[i] = Order[x]
      BY <2>2, <1>15
    <3>2. PICK u \in Senders : u = Order[x].from  BY <1>13
    <3>3. u # t
      <4>1. SUFFICES ASSUME u = t PROVE FALSE  OBVIOUS
      <4>2. Order[x].n \in 1..issued[t]  BY <4>1, <3>2, <1>13, <1>17
      <4>3. Order[x].n = issued[t] + 1  BY <4>1, <3>1, <3>2, <1>2
      <4> QED  BY <4>2, <4>3, <1>3
    <3>4. /\ pc[u] # "idle" /\ Order[x].n = issued[u] /\ seen'[u] = seen[u]
          /\ seen[u] \in [Senders -> Nat]
      BY <3>1, <3>2, <3>3, <1>2, Roles
    <3>5. CASE j = m + 1
      <4>1. seen[u][t] <= issued[t]  BY <1>2 DEF OInv, SeenReturned, Returned
      <4>2. seen[u][t] \in Nat  BY <3>4
      <4>3. Order'[j].from = t /\ Order'[j].n = issued[t] + 1  BY <3>5, <1>3, <1>11
      <4> QED  BY <4>1, <4>2, <4>3, <3>1, <3>2, <3>4, <1>3
    <3>6. CASE j # m + 1
      <4>1. PICK y \in 1..m + k : y = Old(j) /\ Order'[j] = Order[y]
        BY <3>6, <1>15
      <4>2. x < y  BY <2>2, <3>1, <3>6, <4>1, <1>16
      <4>3. seen[u][Order[y].from] < Order[y].n
        BY <4>2, <3>2, <3>4, <1>11 DEF OInv, ChunksInOrder, RealTimeOrder
      <4> HIDE DEF Old
      <4> QED  BY <4>1, <4>3, <3>1, <3>2, <3>4
    <3> QED  BY <3>5, <3>6
  <2> QED  BY <2>1, <2>2
<1> QED  BY <1>12, <1>18, <1>19 DEF ChunksInOrder

(***************************************************************************)
(* A thread that is not alone still carries its chunk.                     *)
(***************************************************************************)
LEMMA NotAloneOrder ==
  ASSUME IInv, OInv, IInv', NEW t \in Senders, RawSend(t), pc'[t] = "push"
  PROVE  ChunksInOrder'
<1>1. /\ pc \in [Agents -> Labels] /\ t \in Agents
      /\ seen \in [Agents -> [Senders -> Nat]] /\ issued \in [Senders -> Nat]
      /\ pc[t] = "idle" /\ pc' = [pc EXCEPT ![t] = "push"]
      /\ seen' = [seen EXCEPT ![t] = [u \in Senders |-> Returned(u)]]
      /\ issued' = [issued EXCEPT ![t] = @ + 1]
      /\ UNCHANGED <<mSendQueue, inFlight, wire, leaked>>
      /\ toSend \in [Agents -> Seq(Chunk)]
      /\ \A a \in Agents : a # t => toSend'[a] = toSend[a]
  BY Roles DEF RawSend, IInv, TypeOK
<1>2. Carried' = Carried /\ t \notin Carried  BY <1>1 DEF Carried
<1>3. {toSend'[a] : a \in Carried'} = {toSend[a] : a \in Carried}
  <2>1. \A a \in Carried : toSend'[a] = toSend[a]  BY <1>1, <1>2 DEF Carried
  <2> QED  BY <2>1, <1>2
<1>4. Order' = Order  BY <1>1, <1>3 DEF Order
<1>5. issued[t] \in Nat  BY <1>1
<1>6. HandedOver(t) = 1..issued[t]  BY <1>1 DEF HandedOver
<1>7. \A u \in Senders : HandedOver(u)' = HandedOver(u)
  <2>1. HandedOver(t)' = 1..(issued[t] + 1) - 1  BY <1>1 DEF HandedOver
  <2>2. (issued[t] + 1) - 1 = issued[t]  BY <1>5
  <2>3. \A u \in Senders : u # t => HandedOver(u)' = HandedOver(u)
    BY <1>1, Roles DEF HandedOver
  <2> QED  BY <2>1, <2>2, <2>3, <1>6
<1>8. Order \in Seq(Chunk)  BY FrontIs DEF FrontFacts
<1>9. RealTimeOrder'
  <2> SUFFICES ASSUME NEW i \in 1..Len(Order), NEW j \in 1..Len(Order), i < j,
                      pc'[Order[i].from] # "idle",
                      Order[i].n = issued'[Order[i].from]
               PROVE  seen'[Order[i].from][Order[j].from] < Order[j].n
    BY <1>4 DEF RealTimeOrder
  <2>1. i \in DOMAIN Order  BY <1>8
  <2>2. PICK u \in Senders : u = Order[i].from /\ Order[i].n \in HandedOver(u)
    BY <2>1, ChunkHanded
  <2>3. u # t
    <3>1. SUFFICES ASSUME u = t PROVE FALSE  OBVIOUS
    <3>2. Order[i].n \in 1..issued[t]  BY <3>1, <2>2, <1>6
    <3>3. Order[i].n = issued[t] + 1  BY <3>1, <2>2, <1>1
    <3> QED  BY <3>2, <3>3, <1>5
  <2>4. pc[u] # "idle" /\ Order[i].n = issued[u] /\ seen'[u] = seen[u]
    BY <2>2, <2>3, <1>1, Roles
  <2>5. seen[u][Order[j].from] < Order[j].n
    BY <2>2, <2>4 DEF OInv, ChunksInOrder, RealTimeOrder
  <2> QED  BY <2>2, <2>4, <2>5
<1> QED  BY <1>4, <1>7, <1>9 DEF OInv, ChunksInOrder

LEMMA RawSendOrder ==
  ASSUME IInv, OInv, IInv', NEW t \in Senders, RawSend(t)
  PROVE  OInv'
<1>1. /\ pc \in [Agents -> Labels] /\ t \in Agents
      /\ seen \in [Agents -> [Senders -> Nat]] /\ issued \in [Senders -> Nat]
      /\ pc[t] = "idle"
      /\ seen' = [seen EXCEPT ![t] = [u \in Senders |-> Returned(u)]]
      /\ issued' = [issued EXCEPT ![t] = @ + 1]
      /\ UNCHANGED <<mSendQueue, inFlight, wire, leaked>>
      /\ mSendQueue \in Seq(Chunk)
  BY Roles DEF RawSend, IInv, TypeOK
<1>2. PICK l \in {"commit", "push"} : pc' = [pc EXCEPT ![t] = l]
  BY DEF RawSend
<1>3. ChunksInOrder'
  BY <1>1, <1>2, ChosenOrder, NotAloneOrder
<1>4. SeenReturned'
  <2>1. \A u \in Senders : Returned(u)' = Returned(u)
    <3> TAKE u \in Senders
    <3>1. CASE u = t
      <4>1. Returned(t) = issued[t] /\ Returned(t)' = (issued[t] + 1) - 1
        BY <1>1, <1>2 DEF Returned
      <4>2. issued[t] \in Nat  BY <1>1
      <4> QED  BY <3>1, <4>1, <4>2
    <3>2. CASE u # t  BY <3>2, <1>1, <1>2, Roles DEF Returned
    <3> QED  BY <3>1, <3>2
  <2>2. \A u \in Senders : Returned(u) \in Int  BY <1>1 DEF Returned
  <2> SUFFICES ASSUME NEW v \in Senders, NEW u \in Senders
               PROVE  seen'[v][u] <= Returned(u)'
    BY DEF SeenReturned
  <2>3. CASE v = t
    <3>1. seen'[v][u] = Returned(u)  BY <2>3, <1>1
    <3> QED  BY <3>1, <2>1, <2>2
  <2>4. CASE v # t
    <3>1. seen'[v] = seen[v]  BY <2>4, <1>1, Roles
    <3> QED  BY <3>1, <2>1 DEF OInv, SeenReturned
  <2> QED  BY <2>3, <2>4
<1>5. KeptOld'
  <2>1. ASSUME NEW i \in DOMAIN mSendQueue,
               mSendQueue[i].n < issued'[mSendQueue[i].from]
        PROVE  Keeper'
    <3>1. i \in 1..Len(mSendQueue) /\ mSendQueue[i] \in Chunk  BY <1>1
    <3>2. PICK u \in Senders : u = mSendQueue[i].from  BY <3>1 DEF Chunk
    <3>3. Keeper
      <4>1. CASE u = t
        BY <4>1, <3>1, <3>2, <1>1
           DEF IInv, QueuedChunkHasKeeper, RetryLabels, Keeper, KeepLabels
      <4>2. CASE u # t
        <5>1. issued'[u] = issued[u]  BY <4>2, <1>1
        <5> QED  BY <5>1, <3>2, <2>1 DEF OInv, KeptOld
      <4> QED  BY <4>1, <4>2
    <3> QED  BY <3>3, <1>1, <1>2 DEF Keeper, KeepLabels
  <2> QED  BY <2>1, <1>1 DEF KeptOld
<1> QED  BY <1>3, <1>4, <1>5 DEF OInv

LEMMA InitOInv == Init => OInv
<1> SUFFICES ASSUME Init PROVE OInv  OBVIOUS
<1>1. IInv  BY InitIInv
<1>2. Order = <<>>
  <2>1. leaked = <<>> /\ inFlight = {} /\ Carried = {} /\ wire = <<>> /\ mSendQueue = <<>>
    BY DEF Init, Carried
  <2>2. Order = <<>> \o <<>>  BY <1>1, <2>1, FrontIs DEF FrontFacts
  <2> QED  BY <2>2
<1>3. DOMAIN Order = {} /\ 1..Len(Order) = {}  BY <1>2
<1>4. \A t \in Senders : HandedOver(t) = {}
  BY Roles DEF Init, HandedOver
<1>5. ChunksInOrder
  BY <1>3, <1>4 DEF ChunksInOrder, RealTimeOrder
<1>6. SeenReturned
  BY Roles DEF Init, SeenReturned, NothingSeen, Returned
<1>7. KeptOld  BY DEF Init, KeptOld
<1> QED  BY <1>5, <1>6, <1>7 DEF OInv

LEMMA NextOInv == IInv /\ OInv /\ [Next]_vars => OInv'
<1> SUFFICES ASSUME IInv, OInv, [Next]_vars PROVE OInv'  OBVIOUS
<1>1. IInv'  BY NextIInv
<1>2. ASSUME NEW a \in Agents, QueueCheckStep(a) PROVE OInv'
  BY <1>1, <1>2, SwapQueueOrder, QuietSteps, SendToWireOrder DEF QueueCheckStep
<1>3. ASSUME NEW t \in Senders, RawSend(t) \/ SenderStep(t) PROVE OInv'
  BY <1>1, <1>2, <1>3, Roles, RawSendOrder, PushChunkOrder, QuietSteps
     DEF SenderStep
<1>4. CASE ReactorStep
  BY <1>1, <1>2, <1>4, SendCompletedOrder, QuietSteps DEF ReactorStep, Agents
<1>5. CASE SendFailed  BY <1>1, <1>5, SendFailedOrder
<1>6. CASE UNCHANGED vars
  <2>1. Order' = Order  BY <1>6 DEF vars, Order, Carried
  <2>2. ChunksInOrder' /\ SeenReturned'
    <3>1. UNCHANGED <<pc, issued, seen>>  BY <1>6 DEF vars
    <3> QED  BY <3>1, <2>1, <1>1, OrderKept
  <2>3. KeptOld'  BY <1>6 DEF vars, OInv, KeptOld, Keeper
  <2> QED  BY <2>2, <2>3 DEF OInv
<1>7. CASE Finished  BY <1>6, <1>7 DEF Finished
<1> QED  BY <1>3, <1>4, <1>5, <1>6, <1>7 DEF Next

(***************************************************************************)
(* Whatever the interleaving of rawSend, retryQueuedSend and the           *)
(* completion handlers, the chunks of one sender are neither lost, nor     *)
(* duplicated, nor reordered, and a chunk whose rawSend had returned       *)
(* before another began is never overtaken by it.                          *)
(***************************************************************************)
THEOREM ChunksStayInOrder == Spec => []ChunksInOrder
<1>1. OInv => ChunksInOrder  BY DEF OInv
<1> QED  BY <1>1, InitOInv, NextOInv, Invariance, PTL DEF Spec
=============================================================================
