------------------------ MODULE StreamLifecycleProofs -------------------------
(***************************************************************************)
(* Opening, using and closing streams: for any number of sockets, streams  *)
(* and packets, a stream gets every packet sent on it before it is told of *)
(* its end, no packet goes to another stream, ordered packets stay in      *)
(* order, and the id of a closed stream is recovered                       *)
(* (MultiplexedSocket.cpp, TCPStream.cpp).                                 *)
(*                                                                         *)
(* The setting is the one of the run: the users of the connecting end open *)
(* and close the streams, both ends send, and no substream is refused      *)
(* (OneEndOpensAndCloses).  Close and Ack packets of an id share one       *)
(* counter at each end, so when both ends close the same stream the        *)
(* counter mixes the two, and TLC finds a run in which a packet goes to    *)
(* another stream (NoMixup).                                               *)
(*                                                                         *)
(* The argument.  An id stands for at most one live stream: the last one   *)
(* that got it, until the id is given back.  For a live stream four        *)
(* growing sets of sockets say how far its end has come: the sockets to    *)
(* which Close was written, on which Close was read, to which Ack was      *)
(* written, on which Ack was read.  A control packet is the last packet of *)
(* its stream on its socket, so a socket on which Close was read carries   *)
(* nothing of the stream; the counters are the sizes of these sets.        *)
(* Hence, when the id is given back, no packet of the stream is left, and  *)
(* the next stream with the id starts on clear sockets with the counters   *)
(* at zero.                                                                *)
(***************************************************************************)
EXTENDS StreamLifecycle, WellFoundedInduction, FiniteSetTheorems, SequenceTheorems, TLAPS

(***************************************************************************)
(* A non-empty set of naturals has a least element (the well-foundedness   *)
(* of < that the library gives, in the form the inductions below use).     *)
(***************************************************************************)
LEMMA LeastNat ==
  ASSUME NEW T, T \subseteq Nat, T # {}
  PROVE  \E m \in T : \A k \in T : m <= k
<1> DEFINE R == {ss \in Nat \X Nat : ss[1] < ss[2]}
<1>1. IsWellFoundedOn(OpToRel(<, Nat), Nat)
  BY NatLessThanWellFounded
<1>2. IsWellFoundedOn(R, Nat)
  BY <1>1, Zenon DEF OpToRel
<1>3. PICK m \in T : \A k \in T : ~ (<<k, m>> \in R)
  <2> HIDE DEF R
  <2> QED BY <1>2, WFMin
<1>4. ASSUME NEW k \in T PROVE m <= k
  <2>1. m \in Nat /\ k \in Nat
    OBVIOUS
  <2>2. <<k, m>> \in Nat \X Nat /\ <<k, m>>[1] = k /\ <<k, m>>[2] = m
    BY <2>1
  <2>3. ~(k < m)
    BY <1>3, <2>2
  <2> QED BY <2>1, <2>3
<1>5. QED
  BY <1>4

(***************************************************************************)
(* Induction up to a bound, with the induction hypothesis as a set: the    *)
(* registrations of mCallbackRegistration are committed one after the      *)
(* other, as many as there are.                                            *)
(***************************************************************************)
LEMMA IntervalInduction ==
  ASSUME NEW n \in Nat, NEW S, 0 \in S, \A k \in 0..(n - 1) : k \in S => k + 1 \in S
  PROVE  0..n \subseteq S
<1> DEFINE Bad == (0..n) \ S
<1>1. SUFFICES ASSUME Bad # {} PROVE FALSE
  OBVIOUS
<1>2. PICK m \in Bad : \A k \in Bad : m <= k
  BY <1>1, LeastNat, Bad \subseteq Nat
<1>3. m \in 1..n /\ m - 1 \in 0..(n - 1)
  OBVIOUS
<1>4. m - 1 \in S
  BY <1>2, <1>3
<1>5. m \in S
  BY <1>3, <1>4
<1> QED BY <1>5

(***************************************************************************)
(* The trail of n steps of st that begin with base.                        *)
(***************************************************************************)
IsRun(f, n, V, base, st) ==
  /\ f \in [0..n -> V] /\ f[0] = base
  /\ \A i \in 1..n : f[i] = st[<<i, f[i-1]>>]

(***************************************************************************)
(* An iteration of any length has a trail: the function that the fold of   *)
(* the model chooses exists.                                               *)
(***************************************************************************)
LEMMA IterateExists ==
  ASSUME NEW V, NEW base \in V, NEW n \in Nat, NEW st, st \in [(1..n) \X V -> V]
  PROVE  \E f : IsRun(f, n, V, base, st)
<1> DEFINE Run(f, k) == /\ f \in [0..k -> V] /\ f[0] = base
                        /\ \A i \in 1..k : f[i] = st[<<i, f[i-1]>>]
           S == {k \in 0..n : \E f : Run(f, k)}
<1>1. 0 \in S
  <2> DEFINE z == [i \in 0..0 |-> base]
  <2>1. Run(z, 0)
    OBVIOUS
  <2> HIDE DEF Run, z
  <2> QED BY <2>1
<1>2. ASSUME NEW k \in 0..(n - 1), k \in S PROVE k + 1 \in S
  <2>1. PICK f : Run(f, k)
    BY <1>2
  <2> DEFINE v == st[<<k + 1, f[k]>>]
             g == [i \in 0..(k+1) |-> IF i = k + 1 THEN v ELSE f[i]]
  <2>2. v \in V
    <3>1. k + 1 \in 1..n /\ f[k] \in V
      BY <2>1
    <3> QED BY <3>1
  <2>3. g \in [0..(k+1) -> V] /\ g[0] = base
    <3> HIDE DEF v
    <3> QED BY <2>1, <2>2
  <2>4. ASSUME NEW i \in 1..(k+1) PROVE g[i] = st[<<i, g[i-1]>>]
    <3>1. g[i-1] = f[i-1] /\ g[i] = IF i = k + 1 THEN v ELSE f[i]
      OBVIOUS
    <3>2. CASE i = k + 1
      <4>1. i - 1 = k /\ g[i] = v /\ g[i-1] = f[k]
        BY <3>1, <3>2
      <4> QED BY <4>1, <3>2
    <3>3. CASE i # k + 1
      <4>1. i \in 1..k
        BY <3>3
      <4> QED BY <3>1, <3>3, <2>1, <4>1
    <3> QED BY <3>2, <3>3
  <2>5. Run(g, k+1)
    BY <2>3, <2>4
  <2> HIDE DEF Run, g
  <2> QED BY <2>5
<1>3. n \in S
  <2> HIDE DEF S
  <2>1. 0..n \subseteq S
    BY <1>1, <1>2, IntervalInduction
  <2> QED BY <2>1
<1>4. \E f : Run(f, n)
  <2> HIDE DEF Run
  <2> QED BY <1>3
<1> QED BY <1>4 DEF IsRun

(***************************************************************************)
(* Max, the operator by which FoldLeft finds the last element, is the      *)
(* largest element of a non-empty set of indices.                          *)
(***************************************************************************)
LEMMA MaxOfSet ==
  ASSUME NEW n \in Nat, NEW s \in SUBSET (1..n), s # {}
  PROVE  Max(s) \in s /\ \A y \in s : y <= Max(s)
<1> DEFINE T == {n - x : x \in s}
<1>1. T \subseteq Nat /\ T # {}
  <2>1. \A x \in s : n - x \in Nat
    OBVIOUS
  <2>2. T \subseteq Nat
    BY <2>1
  <2>3. PICK x : x \in s
    OBVIOUS
  <2>4. n - x \in T
    BY <2>3
  <2> QED BY <2>2, <2>4
<1>2. PICK m \in T : \A k \in T : m <= k
  BY <1>1, LeastNat
<1>3. PICK x \in s : m = n - x
  OBVIOUS
<1>4. ASSUME NEW y \in s PROVE x >= y
  <2>1. n - y \in T
    OBVIOUS
  <2>2. m <= n - y
    BY <1>2, <2>1
  <2> QED BY <2>2, <1>3
<1>5. \E z \in s : \A y \in s : z >= y
  BY <1>4
<1>6. Max(s) \in s /\ \A y \in s : Max(s) >= y
  BY <1>5, Zenon DEF Max
<1> QED BY <1>6

(***************************************************************************)
(* The function over sets of indices by which FoldLeft is defined.         *)
(***************************************************************************)
IsFold(iter, n, V, base, op, seq) ==
  /\ iter \in [SUBSET (1..n) -> V]
  /\ iter[{}] = base
  /\ \A s \in SUBSET (1..n) :
       s # {} => iter[s] = op[<<iter[s \ {Max(s)}], seq[Max(s)]>>]

(***************************************************************************)
(* The function over sets of indices that FoldLeft chooses exists for      *)
(* every sequence and every step.                                          *)
(***************************************************************************)
LEMMA FoldExists ==
  ASSUME NEW V, NEW E, NEW n \in Nat, NEW seq, seq \in [1..n -> E], NEW base \in V,
         NEW op, op \in [V \X E -> V]
  PROVE  \E iter : IsFold(iter, n, V, base, op, seq)
<1> DEFINE W == [SUBSET (1..n) -> V]
           step(i, a) == [s \in SUBSET (1..n) |->
                            IF i \in s THEN op[<<a[s \ {i}], seq[i]>>] ELSE a[s]]
           st == [x \in (1..n) \X W |-> step(x[1], x[2])]
           b0 == [s \in SUBSET (1..n) |-> base]
<1>1. b0 \in W
  OBVIOUS
<1>2. ASSUME NEW i \in 1..n, NEW a \in W PROVE step(i, a) \in W
  <2>1. ASSUME NEW s \in SUBSET (1..n)
        PROVE (IF i \in s THEN op[<<a[s \ {i}], seq[i]>>] ELSE a[s]) \in V
    <3>1. s \ {i} \in SUBSET (1..n)
      OBVIOUS
    <3>2. a[s \ {i}] \in V /\ a[s] \in V /\ seq[i] \in E
      BY <3>1
    <3>3. <<a[s \ {i}], seq[i]>> \in V \X E
      BY <3>2
    <3> QED BY <3>2, <3>3
  <2> QED BY <2>1
<1>3. st \in [(1..n) \X W -> W]
  <2> HIDE DEF W, step
  <2> QED BY <1>2
<1>4. PICK A \in [0..n -> W] : A[0] = b0 /\ \A i \in 1..n : A[i] = st[<<i, A[i-1]>>]
  <2> HIDE DEF W, st, b0, step
  <2>1. \E A : IsRun(A, n, W, b0, st)
    BY <1>1, <1>3, IterateExists
  <2> QED BY <2>1 DEF IsRun
<1>5. ASSUME NEW i \in 1..n PROVE A[i] = step(i, A[i-1])
  <2> HIDE DEF W, step
  <2>1. A[i-1] \in W
    OBVIOUS
  <2>2. <<i, A[i-1]>> \in (1..n) \X W
    BY <2>1
  <2> QED BY <1>4, <2>2
<1>6. ASSUME NEW k \in 0..n, NEW s \in SUBSET (1..n), \A x \in s : x <= k
      PROVE  A[n][s] = A[k][s]
  <2> DEFINE S == {d \in 0..(n - k) : A[k + d][s] = A[k][s]}
  <2>1. 0 \in S
    OBVIOUS
  <2>2. ASSUME NEW d \in 0..(n - k - 1), d \in S PROVE d + 1 \in S
    <3>1. k + d + 1 \in 1..n /\ k + d + 1 \notin s
      BY <1>6
    <3> HIDE DEF step
    <3>a. (k + d + 1) - 1 = k + d
      OBVIOUS
    <3>2. A[k + d + 1] = step(k + d + 1, A[k + d])
      BY <1>5, <3>1, <3>a
    <3> USE DEF step
    <3>3. A[k + d + 1][s] = A[k + d][s]
      BY <3>1, <3>2
    <3> QED BY <3>3, <2>2
  <2>3. n - k \in S
    <3> HIDE DEF S
    <3>a. n - k \in Nat /\ \A d \in 0..((n - k) - 1) : d \in S => d + 1 \in S
      BY <2>2
    <3>1. 0..(n - k) \subseteq S
      BY <2>1, <3>a, IntervalInduction
    <3> QED BY <3>1
  <2> QED BY <2>3
<1>7. A[n] \in W
  <2> HIDE DEF W
  <2> QED BY n \in 0..n
<1>8. A[n][{}] = base
  <2>1. A[n][{}] = A[0][{}]
    BY <1>6
  <2> QED BY <2>1, <1>4
<1>9. ASSUME NEW s \in SUBSET (1..n), s # {}
      PROVE  A[n][s] = op[<<A[n][s \ {Max(s)}], seq[Max(s)]>>]
  <2>1. PICK m : m = Max(s)
    OBVIOUS
  <2>2. m \in s /\ \A y \in s : y <= m
    BY <1>9, <2>1, MaxOfSet
  <2>3. m \in 1..n
    BY <2>2
  <2>4. A[n][s] = A[m][s]
    BY <1>6, <2>2, <2>3
  <2>5. A[m][s] = op[<<A[m-1][s \ {m}], seq[m]>>]
    BY <1>5, <2>2, <2>3
  <2>6. A[n][s \ {m}] = A[m-1][s \ {m}]
    <3>1. m - 1 \in 0..n /\ s \ {m} \in SUBSET (1..n) /\ \A x \in s \ {m} : x <= m - 1
      BY <2>2, <2>3
    <3> QED BY <3>1, <1>6
  <2> QED BY <2>1, <2>4, <2>5, <2>6
<1> QED
  <2> HIDE DEF st, b0, step
  <2>1. IsFold(A[n], n, V, base, op, seq)
    BY <1>7, <1>8, <1>9 DEF IsFold
  <2> QED BY <2>1

-----------------------------------------------------------------------------
(* Committing registrations *)

(***************************************************************************)
(* A member of mCallbackRegistration.                                      *)
(***************************************************************************)
Registrations == [id : Ids, stream : Streams \cup {None}]

(***************************************************************************)
(* The state of a MultiplexedSocket.                                       *)
(***************************************************************************)
SocketStates ==
  [callbacks : [Ids -> Streams \cup {None}], registration : Seq(Registrations),
   acked : [Ids -> Nat], oneSided : SUBSET Ids, free : Seq(Ids), highest : Nat,
   assertFailed : BOOLEAN, badErase : BOOLEAN]

(***************************************************************************)
(* ioReactorThreadCommitCallback changes the callbacks and the one-sided   *)
(* closes of a socket, and nothing else.                                   *)
(***************************************************************************)
LEMMA CommitCallbackType ==
  ASSUME NEW m \in SocketStates, NEW r \in Registrations
  PROVE  /\ CommitCallback(m, r) \in SocketStates
         /\ CommitCallback(m, r).registration = m.registration
         /\ CommitCallback(m, r).acked = m.acked
         /\ CommitCallback(m, r).free = m.free
         /\ CommitCallback(m, r).highest = m.highest
<1>1. r.id \in Ids /\ r.stream \in Streams \cup {None} /\ m.callbacks \in [Ids -> Streams \cup {None}]
  BY DEF Registrations, SocketStates
<1>2. CASE r.stream = None
  BY <1>1, <1>2, Zenon DEF CommitCallback, SocketStates
<1>3. CASE r.stream # None
  BY <1>1, <1>3 DEF CommitCallback, SocketStates
<1> QED BY <1>2, <1>3

(***************************************************************************)
(* The states that CommitCallbacks goes through.                           *)
(***************************************************************************)
IsTrail(f, m) ==
  /\ f \in [0..Len(m.registration) -> SocketStates]
  /\ f[0] = [m EXCEPT !.registration = <<>>]
  /\ \A k \in 1..Len(m.registration) : f[k] = CommitCallback(f[k - 1], m.registration[k])

(***************************************************************************)
(* CommitCallbacks applies the registrations one by one, in the order they *)
(* were added.                                                             *)
(***************************************************************************)
LEMMA CommittedTrail ==
  ASSUME NEW m \in SocketStates
  PROVE  \E f : IsTrail(f, m) /\ f[Len(m.registration)] = Committed(m)
<1> DEFINE n == Len(m.registration)
           seq == m.registration
           base == [m EXCEPT !.registration = <<>>]
           op == [x \in SocketStates \X Registrations |-> CommitCallback(x[1], x[2])]
           Def(iter) == [s \in SUBSET (1..n) |->
                           IF s = {} THEN base
                           ELSE CommitCallback(iter[s \ {Max(s)}], seq[Max(s)])]
<1>1. n \in Nat /\ seq \in [1..n -> Registrations] /\ DOMAIN seq = 1..n
  <2>1. seq \in Seq(Registrations)
    BY DEF SocketStates
  <2> QED BY <2>1, LenProperties
<1>2. base \in SocketStates
  <2>1. <<>> \in Seq(Registrations)
    BY EmptySeq
  <2> QED BY <2>1, Zenon DEF SocketStates
<1>3. op \in [SocketStates \X Registrations -> SocketStates]
  BY CommitCallbackType
<1>4. PICK it : /\ it \in [SUBSET (1..n) -> SocketStates]
                /\ it[{}] = base
                /\ \A s \in SUBSET (1..n) :
                     s # {} => it[s] = op[<<it[s \ {Max(s)}], seq[Max(s)]>>]
  <2> HIDE DEF n, seq, base, op
  <2>1. PICK it : IsFold(it, n, SocketStates, base, op, seq)
    BY <1>1, <1>2, <1>3, FoldExists
  <2> QED BY <2>1 DEF IsFold
<1>5. ASSUME NEW s \in SUBSET (1..n), s # {}
      PROVE  it[s] = CommitCallback(it[s \ {Max(s)}], seq[Max(s)])
  <2> HIDE DEF n, seq, base
  <2>1. Max(s) \in s
    BY <1>1, <1>5, MaxOfSet
  <2>2. it[s \ {Max(s)}] \in SocketStates /\ seq[Max(s)] \in Registrations
    BY <1>1, <1>4, <2>1
  <2> QED BY <1>4, <1>5, <2>2
<1>6. it = Def(it)
  <2> HIDE DEF n, seq, base, op
  <2> QED BY <1>4, <1>5
<1>7. PICK jt : jt = CHOOSE iter : iter = Def(iter)
  OBVIOUS
<1>8. jt = Def(jt)
  <2> HIDE DEF Def
  <2> QED BY <1>6, <1>7, Zenon
<1>9. Committed(m) = jt[1..n]
  <2>1. Committed(m) =
          (CHOOSE iter : iter = [s \in SUBSET DOMAIN m.registration |->
             IF s = {} THEN [m EXCEPT !.registration = <<>>]
             ELSE CommitCallback(iter[s \ {Max(s)}], m.registration[Max(s)])])
             [DOMAIN m.registration]
    BY Zenon DEF Committed, FoldLeft, MapThenFoldSet
  <2> QED BY <1>1, <1>7, <2>1, Zenon
<1> DEFINE f == [k \in 0..n |-> jt[1..k]]
<1>10. f[0] = base
  <2> HIDE DEF n, seq, base
  <2>1. jt[{}] = base
    BY <1>8
  <2>2. 1..0 = {}
    OBVIOUS
  <2> QED BY <2>1, <2>2, <1>1
<1>11. ASSUME NEW k \in 1..n PROVE f[k] = CommitCallback(f[k - 1], seq[k])
  <2> HIDE DEF n, seq, base
  <2>a. k \in Nat /\ 1 <= k /\ k <= n
    BY <1>1
  <2>1. (1..k) \in SUBSET (1..n) /\ 1..k # {} /\ k \in 1..k
    BY <1>1, <2>a
  <2>2. Max(1..k) = k
    <3>1. Max(1..k) \in 1..k /\ \A y \in 1..k : y <= Max(1..k)
      BY <1>1, <2>1, MaxOfSet
    <3> QED BY <3>1, <2>1
  <2>3. (1..k) \ {k} = 1..(k - 1)
    BY <1>1
  <2>4. jt[1..k] = CommitCallback(jt[(1..k) \ {Max(1..k)}], seq[Max(1..k)])
    BY <1>8, <2>1
  <2>5. k \in 0..n /\ k - 1 \in 0..n
    BY <1>1
  <2> QED BY <2>2, <2>3, <2>4, <2>5
<1>12. f \in [0..n -> SocketStates]
  <2> DEFINE S == {k \in 0..n : f[k] \in SocketStates}
  <2>1. 0 \in S
    <3> HIDE DEF n, base, f
    <3> QED BY <1>1, <1>2, <1>10
  <2>2. ASSUME NEW k \in 0..(n - 1), k \in S PROVE k + 1 \in S
    <3> HIDE DEF n, base, f, seq
    <3>1. k + 1 \in 1..n /\ f[k] \in SocketStates /\ (k + 1) - 1 = k
      BY <1>1, <2>2
    <3>2. f[k + 1] = CommitCallback(f[k], seq[k + 1])
      BY <1>11, <3>1
    <3>3. seq[k + 1] \in Registrations
      BY <1>1, <3>1
    <3>4. f[k + 1] \in SocketStates
      BY <3>1, <3>2, <3>3, CommitCallbackType
    <3> QED BY <1>1, <3>1, <3>4
  <2>3. 0..n \subseteq S
    <3> HIDE DEF S, n
    <3> QED BY <1>1, <2>1, <2>2, IntervalInduction
  <2> HIDE DEF n
  <2> QED BY <2>3
<1>13. IsTrail(f, m)
  <2>1. f \in [0..Len(m.registration) -> SocketStates] /\ f[0] = [m EXCEPT !.registration = <<>>]
    BY <1>10, <1>12
  <2>2. \A k \in 1..Len(m.registration) : f[k] = CommitCallback(f[k - 1], m.registration[k])
    BY <1>11
  <2> HIDE DEF f
  <2> QED BY <2>1, <2>2 DEF IsTrail
<1>14. f[n] = Committed(m)
  <2> HIDE DEF n
  <2> QED BY <1>1, <1>9
<1> QED
  <2> HIDE DEF f
  <2> QED BY <1>13, <1>14

(***************************************************************************)
(* Committing leaves no registration and does not touch ids.               *)
(***************************************************************************)
LEMMA CommittedType ==
  ASSUME NEW m \in SocketStates
  PROVE  /\ Committed(m) \in SocketStates
         /\ Committed(m).registration = <<>>
         /\ Committed(m).acked = m.acked
         /\ Committed(m).free = m.free
         /\ Committed(m).highest = m.highest
<1> DEFINE n == Len(m.registration)
           Kept(x) == /\ x \in SocketStates /\ x.registration = <<>> /\ x.acked = m.acked
                      /\ x.free = m.free /\ x.highest = m.highest
<1>1. n \in Nat /\ \A k \in 1..n : m.registration[k] \in Registrations
  <2>1. m.registration \in Seq(Registrations)
    BY DEF SocketStates
  <2> QED BY <2>1, LenProperties
<1>2. PICK f : IsTrail(f, m) /\ f[n] = Committed(m)
  BY CommittedTrail
<1> DEFINE S == {k \in 0..n : Kept(f[k])}
<1>3. 0 \in S
  <2>1. f[0] = [m EXCEPT !.registration = <<>>] /\ f[0] \in SocketStates
    BY <1>1, <1>2 DEF IsTrail
  <2>2. Kept(f[0])
    BY <2>1 DEF SocketStates
  <2> HIDE DEF Kept, n
  <2> QED BY <1>1, <2>2
<1>4. ASSUME NEW k \in 0..(n - 1), k \in S PROVE k + 1 \in S
  <2>1. k + 1 \in 1..n /\ (k + 1) - 1 = k /\ f[k] \in SocketStates /\ Kept(f[k])
    BY <1>1, <1>4
  <2>2. f[k + 1] = CommitCallback(f[k], m.registration[k + 1])
    BY <1>2, <2>1 DEF IsTrail
  <2>3. Kept(f[k + 1])
    BY <1>1, <2>1, <2>2, CommitCallbackType
  <2> HIDE DEF Kept, n
  <2> QED BY <1>1, <2>1, <2>3
<1>5. n \in S
  <2> HIDE DEF S, n
  <2>1. 0..n \subseteq S
    BY <1>1, <1>3, <1>4, IntervalInduction
  <2> QED BY <1>1, <2>1
<1> QED BY <1>2, <1>5

(***************************************************************************)
(* CommitCallbacks with nothing registered changes nothing.                *)
(***************************************************************************)
LEMMA CommittedNothing ==
  ASSUME NEW m \in SocketStates, m.registration = <<>>
  PROVE  Committed(m) = m
<1>1. PICK f : IsTrail(f, m) /\ f[Len(m.registration)] = Committed(m)
  BY CommittedTrail
<1>2. Committed(m) = [m EXCEPT !.registration = <<>>]
  BY <1>1 DEF IsTrail
<1> QED BY <1>2 DEF SocketStates

(***************************************************************************)
(* A callback that is added takes effect after those added before.         *)
(***************************************************************************)
LEMMA CommittedAppend ==
  ASSUME NEW m \in SocketStates, NEW id \in Ids, NEW g \in Streams \cup {None}
  PROVE  /\ Registered(m, id, g) \in SocketStates
         /\ Committed(Registered(m, id, g)) =
              CommitCallback(Committed(m), [id |-> id, stream |-> g])
<1> DEFINE r == [id |-> id, stream |-> g]
           n == Len(m.registration)
           m2 == Registered(m, id, g)
<1>1. r \in Registrations /\ m.registration \in Seq(Registrations)
  BY DEF Registrations, SocketStates
<1>2. m2 = [m EXCEPT !.registration = Append(m.registration, r)]
  BY DEF Registered
<1>3. /\ Append(m.registration, r) \in Seq(Registrations)
      /\ n \in Nat /\ Len(Append(m.registration, r)) = n + 1
      /\ \A k \in 1..n : Append(m.registration, r)[k] = m.registration[k]
      /\ Append(m.registration, r)[n + 1] = r
  <2> HIDE DEF r
  <2> QED BY <1>1, AppendProperties, LenProperties
<1>4. m2 \in SocketStates /\ m2.registration = Append(m.registration, r)
  <2> HIDE DEF r, m2
  <2> QED BY <1>2, <1>3, Zenon DEF SocketStates
<1>5. PICK f : IsTrail(f, m) /\ f[n] = Committed(m)
  BY CommittedTrail
<1>6. PICK h : IsTrail(h, m2) /\ h[n + 1] = Committed(m2)
  <2>1. PICK h : IsTrail(h, m2) /\ h[Len(m2.registration)] = Committed(m2)
    <3> HIDE DEF m2
    <3> QED BY <1>4, CommittedTrail
  <2> HIDE DEF m2, r
  <2> QED BY <1>3, <1>4, <2>1
<1> HIDE DEF r, m2
<1> DEFINE S == {k \in 0..n : f[k] = h[k]}
<1>7. 0 \in S
  <2>1. [m2 EXCEPT !.registration = <<>>] = [m EXCEPT !.registration = <<>>]
    BY <1>2 DEF SocketStates
  <2> QED BY <1>3, <1>5, <1>6, <2>1 DEF IsTrail
<1>8. ASSUME NEW k \in 0..(n - 1), k \in S PROVE k + 1 \in S
  <2>1. k + 1 \in 1..n /\ k + 1 \in 1..(n + 1) /\ (k + 1) - 1 = k
    BY <1>3
  <2>2. f[k + 1] = CommitCallback(f[k], m.registration[k + 1])
    BY <1>5, <2>1 DEF IsTrail
  <2>3. h[k + 1] = CommitCallback(h[k], m.registration[k + 1])
    BY <1>3, <1>4, <1>6, <2>1 DEF IsTrail
  <2> HIDE DEF n
  <2> QED BY <1>3, <1>8, <2>1, <2>2, <2>3
<1>9. f[n] = h[n]
  <2> HIDE DEF S, n
  <2>1. 0..n \subseteq S
    BY <1>3, <1>7, <1>8, IntervalInduction
  <2> QED BY <1>3, <2>1 DEF S
<1>10. h[n + 1] = CommitCallback(h[n], r)
  <2>1. n + 1 \in 1..(n + 1) /\ (n + 1) - 1 = n
    BY <1>3
  <2> HIDE DEF n
  <2> QED BY <1>3, <1>4, <1>6, <2>1 DEF IsTrail
<1> QED BY <1>4, <1>5, <1>6, <1>9, <1>10 DEF r, m2

(***************************************************************************)
(* What is committed for an id depends on the callbacks, the registrations *)
(* and whether the id is closing.                                          *)
(***************************************************************************)
LEMMA CommittedSame ==
  ASSUME NEW m \in SocketStates, NEW w \in SocketStates,
         m.registration = w.registration, m.callbacks = w.callbacks
  PROVE  /\ Committed(m).callbacks = Committed(w).callbacks
         /\ \A i \in Ids : (i \in m.oneSided <=> i \in w.oneSided) =>
              (i \in Committed(m).oneSided <=> i \in Committed(w).oneSided)
<1> DEFINE n == Len(m.registration)
           Alike(x, y) == /\ x.callbacks = y.callbacks
                          /\ \A i \in Ids : (i \in m.oneSided <=> i \in w.oneSided) =>
                               (i \in x.oneSided <=> i \in y.oneSided)
<1>1. n \in Nat /\ \A k \in 1..n : m.registration[k] \in Registrations
  <2>1. m.registration \in Seq(Registrations)
    BY DEF SocketStates
  <2> QED BY <2>1, LenProperties
<1>2. PICK f : IsTrail(f, m) /\ f[n] = Committed(m)
  BY CommittedTrail
<1>3. PICK h : IsTrail(h, w) /\ h[n] = Committed(w)
  BY CommittedTrail
<1> DEFINE S == {k \in 0..n : Alike(f[k], h[k])}
<1>4. 0 \in S
  <2>1. f[0] = [m EXCEPT !.registration = <<>>] /\ h[0] = [w EXCEPT !.registration = <<>>]
    BY <1>2, <1>3 DEF IsTrail
  <2>2. Alike(f[0], h[0])
    BY <2>1 DEF SocketStates
  <2> HIDE DEF Alike, n
  <2> QED BY <1>1, <2>2
<1>5. ASSUME NEW k \in 0..(n - 1), k \in S PROVE k + 1 \in S
  <2> DEFINE r == m.registration[k + 1]
  <2>1. k + 1 \in 1..n /\ (k + 1) - 1 = k /\ k \in 0..n /\ Alike(f[k], h[k])
    BY <1>1, <1>5
  <2>2. f[k + 1] = CommitCallback(f[k], r) /\ f[k] \in SocketStates
    BY <1>2, <2>1 DEF IsTrail
  <2>3. h[k + 1] = CommitCallback(h[k], r) /\ h[k] \in SocketStates
    BY <1>3, <2>1 DEF IsTrail
  <2>4. r.id \in Ids
    BY <1>1, <2>1 DEF Registrations
  <2> HIDE DEF r, n
  <2>5. Alike(f[k + 1], h[k + 1])
    <3>1. CASE r.stream = None
      <4>1. /\ f[k + 1].callbacks = [f[k].callbacks EXCEPT ![r.id] = None]
            /\ f[k + 1].oneSided = f[k].oneSided \cup {r.id}
            /\ h[k + 1].callbacks = [h[k].callbacks EXCEPT ![r.id] = None]
            /\ h[k + 1].oneSided = h[k].oneSided \cup {r.id}
        BY <2>2, <2>3, <3>1, Zenon DEF CommitCallback, SocketStates
      <4> QED BY <2>1, <4>1
    <3>2. CASE r.stream # None
      BY <2>1, <2>2, <2>3, <2>4, <3>2 DEF CommitCallback, SocketStates
    <3> QED BY <3>1, <3>2
  <2> HIDE DEF Alike
  <2> QED BY <1>1, <2>1, <2>5
<1>6. n \in S
  <2> HIDE DEF S, n
  <2>1. 0..n \subseteq S
    BY <1>1, <1>4, <1>5, IntervalInduction
  <2> QED BY <1>1, <2>1
<1> QED BY <1>2, <1>3, <1>6

-----------------------------------------------------------------------------
(* The invariant *)

(***************************************************************************)
(* The users of one end open and close all streams, and no substream is    *)
(* refused.                                                                *)
(***************************************************************************)
OneEndOpensAndCloses ==
  Openers \subseteq {Connector} /\ Closers \subseteq {Connector} /\ Refusers = {}

(* The state of e with the waiting registrations committed. *)
View(e) == Committed(ms[e])

(***************************************************************************)
(* The id i waits in mFreeStreamIDs.                                       *)
(***************************************************************************)
GivenBack(i) == \E k \in DOMAIN ms[Connector].free : ms[Connector].free[k] = i

(***************************************************************************)
(* The stream that an id stands for: the last one that got it, until the   *)
(* id is given back.                                                       *)
(***************************************************************************)
Live(g) ==
  /\ idOf[g] # 0
  /\ ~GivenBack(idOf[g])
  /\ \A h \in Streams : h > g => idOf[h] # idOf[g]

(***************************************************************************)
(* A packet of that type of stream g is under way from e on socket s.      *)
(***************************************************************************)
Holding(e, s, g, type) ==
  \E k \in DOMAIN chan[e][s] : chan[e][s][k].stream = g /\ chan[e][s][k].type = type

(***************************************************************************)
(* No packet of stream g is under way from e on socket s.                  *)
(***************************************************************************)
Clear(e, s, g) == \A k \in DOMAIN chan[e][s] : chan[e][s][k].stream # g

(* The turn of a socket in a broadcast. *)
Position(s) == IF s = 1 THEN NumSockets ELSE s - 1

(***************************************************************************)
(* The sockets on which the Close of g has been sent and read, and then    *)
(* its Ack.                                                                *)
(***************************************************************************)
CloseSent(g) ==
  {s \in Sockets : \/ closing[Connector][g].step = "done"
                   \/ /\ closing[Connector][g].step = "announce"
                      /\ Position(s) < closing[Connector][g].next}
CloseRead(g) == {s \in CloseSent(g) : ~Holding(Connector, s, g, "close")}
Heard(g) == CloseRead(g) = Sockets

(***************************************************************************)
(* The listening reactor is in the middle of closing stream g.             *)
(***************************************************************************)
Busy(g) == reactor[Listener].step # "idle" /\ reactor[Listener].stream = g

(***************************************************************************)
(* The sockets to which the Ack of g has been written, and those on which  *)
(* it has been read as well.                                               *)
(***************************************************************************)
AckSent(g) ==
  {s \in Sockets : /\ Heard(g)
                   /\ Busy(g) => /\ reactor[Listener].step = "ack"
                                 /\ Position(s) < reactor[Listener].next}
AckRead(g) == {s \in AckSent(g) : ~Holding(Listener, s, g, "ack")}

Packets ==
  [type : {"data", "close", "ack"}, id : Ids, stream : Streams, n : Nat, ordered : BOOLEAN]

Reactors ==
  [step : {"idle", "erase", "ack"}, id : Ids \cup {0}, stream : Streams \cup {None},
   next : Sockets]

Closings == [step : {"no", "unregister", "announce", "done"}, next : Sockets]

(***************************************************************************)
(* The types of the variables.                                             *)
(***************************************************************************)
TypeInv ==
  /\ chan \in [Ends -> [Sockets -> Seq(Packets)]]
  /\ ms \in [Ends -> SocketStates]
  /\ reactor \in [Ends -> Reactors]
  /\ idOf \in [Streams -> Ids \cup {0}]
  /\ status \in [Ends -> [Streams -> {"none", "open", "closed"}]]
  /\ closing \in [Ends -> [Streams -> Closings]]
  /\ sent \in [Ends -> [Streams -> Nat]]
  /\ got \in [Ends -> [Streams -> Seq(Packets)]]
  /\ told \in [Ends -> [Streams -> BOOLEAN]]

(* Streams are created in order, and ids are odd. *)
CreatedUpTo(top) ==
  /\ \A g \in Streams : idOf[g] # 0 <=> g <= top
  /\ ms[Connector].highest <= 2 * top - 1
  /\ \A g \in Streams : idOf[g] <= ms[Connector].highest
  /\ \A g \in Streams : idOf[g] # 0 => idOf[g] % 2 = 1

(***************************************************************************)
(* Some number of streams have been created, all of them by the connecting *)
(* end.                                                                    *)
(***************************************************************************)
CreatedInv ==
  /\ \E top \in Streams : CreatedUpTo(top)
  /\ ms[Connector].highest % 2 = 1
  /\ ms[Listener].highest = 0

(***************************************************************************)
(* No id is free twice, and every free id has been handed out.             *)
(***************************************************************************)
FreeInv ==
  /\ \A j, k \in DOMAIN ms[Connector].free :
       ms[Connector].free[j] = ms[Connector].free[k] => j = k
  /\ \A k \in DOMAIN ms[Connector].free : \E g \in Streams : idOf[g] = ms[Connector].free[k]

(***************************************************************************)
(* Every packet under way belongs to the stream that its id stands for; a  *)
(* Close comes from the connector, an Ack from the listener, and nothing   *)
(* of the stream comes behind it.                                          *)
(***************************************************************************)
PacketOK(e, s, k) ==
  LET p == chan[e][s][k]
  IN  /\ Live(p.stream)
      /\ p.id = idOf[p.stream]
      /\ p.type = "close" => e = Connector /\ s \in CloseSent(p.stream)
      /\ p.type = "ack" => e = Listener /\ s \in AckSent(p.stream)
      /\ p.type # "data" =>
           \A j \in DOMAIN chan[e][s] : j > k => chan[e][s][j].stream # p.stream

(***************************************************************************)
(* Every packet under way is well placed.                                  *)
(***************************************************************************)
PacketInv == \A e \in Ends, s \in Sockets : \A k \in DOMAIN chan[e][s] : PacketOK(e, s, k)

(***************************************************************************)
(* The control packets are counted: those of the stream that the id stands *)
(* for, and no others.                                                     *)
(***************************************************************************)
CountOK(g) ==
  /\ \A s \in CloseRead(g) : Clear(Connector, s, g)
  /\ \A s \in AckRead(g) : Clear(Listener, s, g)
  /\ ms[Listener].acked[idOf[g]] = IF Heard(g) THEN 0 ELSE Cardinality(CloseRead(g))
  /\ ms[Connector].acked[idOf[g]] = Cardinality(AckRead(g))
  /\ AckRead(g) # Sockets

(***************************************************************************)
(* The counts of control packets are right for every live stream.          *)
(***************************************************************************)
CountInv == \A g \in Streams : Live(g) => CountOK(g)

(***************************************************************************)
(* An id without a live stream has no callback and no count.               *)
(***************************************************************************)
UnusedInv ==
  \A i \in Ids : (\A g \in Streams : Live(g) => idOf[g] # i) =>
    \A e \in Ends : ms[e].acked[i] = 0 /\ View(e).callbacks[i] = None

(***************************************************************************)
(* How far close() has come on a stream of the connecting end, and what    *)
(* its callbacks say.                                                      *)
(***************************************************************************)
ConnectorOK(g) ==
  LET step == closing[Connector][g].step
  IN  /\ step # "announce" => closing[Connector][g].next = 1
      /\ status[Connector][g] = "open" <=> idOf[g] # 0 /\ step = "no"
      /\ status[Connector][g] = "none" => idOf[g] = 0
      /\ idOf[g] = 0 => step = "no" /\ status[Connector][g] = "none"
      /\ idOf[g] # 0 /\ ~Live(g) => step = "done"
      /\ Live(g) /\ step \in {"no", "unregister"} => View(Connector).callbacks[idOf[g]] = g
      /\ Live(g) /\ step \in {"announce", "done"} =>
           /\ View(Connector).callbacks[idOf[g]] = None
           /\ idOf[g] \in View(Connector).oneSided
      /\ ~told[Connector][g]

ConnectorInv ==
  /\ reactor[Connector].step = "idle"
  /\ \A g \in Streams : ConnectorOK(g)

(***************************************************************************)
(* What the callbacks of the listening end say of a stream: it is          *)
(* registered while it is open, and until the reactor has erased it.       *)
(***************************************************************************)
ListenerOK(g) ==
  /\ closing[Listener][g].step = "no"
  /\ Live(g) /\ Heard(g) =>
       /\ status[Listener][g] # "open"
       /\ View(Listener).callbacks[idOf[g]] =
            IF Busy(g) /\ reactor[Listener].step = "erase" THEN g ELSE None
  /\ Live(g) /\ ~Heard(g) =>
       View(Listener).callbacks[idOf[g]] = IF status[Listener][g] = "open" THEN g ELSE None
  /\ ~Live(g) => status[Listener][g] # "open"
  /\ told[Listener][g] => idOf[g] # 0 /\ (Live(g) => Heard(g))

(***************************************************************************)
(* The listening end closes a stream when all its Close packets are read.  *)
(***************************************************************************)
ListenerInv ==
  /\ View(Listener).oneSided = {}
  /\ reactor[Listener].step # "idle" =>
       /\ reactor[Listener].stream \in Streams
       /\ Live(reactor[Listener].stream)
       /\ reactor[Listener].id = idOf[reactor[Listener].stream]
       /\ Heard(reactor[Listener].stream)
  /\ reactor[Listener].step = "erase" => reactor[Listener].next = 1
  /\ \A g \in Streams : ListenerOK(g)

IsData(p, g) == p.type = "data" /\ p.stream = g

(***************************************************************************)
(* A packet of data is under way or delivered, in one place.               *)
(***************************************************************************)
OnceInv ==
  \A e \in Ends, g \in Streams :
    /\ \A s \in Sockets : \A k \in DOMAIN chan[e][s] :
         IsData(chan[e][s][k], g) =>
           /\ chan[e][s][k].n \in 1..sent[e][g]
           /\ \A j \in DOMAIN got[Peer(e)][g] : got[Peer(e)][g][j].n # chan[e][s][k].n
           /\ \A t \in Sockets : \A j \in DOMAIN chan[e][t] :
                IsData(chan[e][t][j], g) /\ chan[e][t][j].n = chan[e][s][k].n => s = t /\ j = k
    /\ \A j \in DOMAIN got[Peer(e)][g] : got[Peer(e)][g][j].n \in 1..sent[e][g]
    /\ \A j, k \in DOMAIN got[Peer(e)][g] :
         got[Peer(e)][g][j].n = got[Peer(e)][g][k].n => j = k

(***************************************************************************)
(* What the connector has sent is delivered or under way.                  *)
(***************************************************************************)
UnderWay(g, n) ==
  \E s \in Sockets : \E k \in DOMAIN chan[Connector][s] :
    IsData(chan[Connector][s][k], g) /\ chan[Connector][s][k].n = n

CoverInv ==
  \A g \in Streams : \A n \in 1..sent[Connector][g] :
    UnderWay(g, n) \/ \E j \in DOMAIN got[Listener][g] : got[Listener][g][j].n = n

(***************************************************************************)
(* Ordered packets of a stream are in order on their socket, behind those  *)
(* delivered.                                                              *)
(***************************************************************************)
OrderInv ==
  \A e \in Ends, g \in Streams :
    /\ \A s \in Sockets : \A k \in DOMAIN chan[e][s] :
         IsData(chan[e][s][k], g) /\ chan[e][s][k].ordered =>
           /\ s = SocketOf(idOf[g])
           /\ \A j \in DOMAIN got[Peer(e)][g] :
                got[Peer(e)][g][j].ordered => got[Peer(e)][g][j].n < chan[e][s][k].n
           /\ \A j \in DOMAIN chan[e][s] :
                IsData(chan[e][s][j], g) /\ chan[e][s][j].ordered /\ j > k =>
                  chan[e][s][k].n < chan[e][s][j].n
    /\ \A j, k \in DOMAIN got[Peer(e)][g] :
         got[Peer(e)][g][j].ordered /\ got[Peer(e)][g][k].ordered /\ j < k =>
           got[Peer(e)][g][j].n < got[Peer(e)][g][k].n

(***************************************************************************)
(* The invariant of the data and the invariant of opening and closing.     *)
(***************************************************************************)
DataInv == OnceInv /\ CoverInv /\ OrderInv /\ NoMixup

ControlInv ==
  /\ CreatedInv /\ FreeInv /\ PacketInv /\ CountInv /\ UnusedInv
  /\ ConnectorInv /\ ListenerInv

IInv == TypeInv /\ ControlInv /\ DataInv

-----------------------------------------------------------------------------
(* Channels *)

(***************************************************************************)
(* The sockets, streams, ids and ends of a connection.                     *)
(***************************************************************************)
LEMMA Constants ==
  /\ NumSockets \in Nat \ {0} /\ MaxStreams \in Nat \ {0}
  /\ 1 \in Sockets /\ 1 \in Streams /\ 1 \in Ids /\ 0 \notin Ids /\ 0 \notin Streams
  /\ Sockets \subseteq Nat /\ Streams \subseteq Nat /\ Ids \subseteq Nat
  /\ Connector \in Ends /\ Listener \in Ends /\ Connector # Listener
  /\ Peer(Connector) = Listener /\ Peer(Listener) = Connector
  /\ \A e \in Ends : e = Connector \/ e = Listener
  /\ \A e \in Ends : Peer(e) \in Ends /\ Peer(Peer(e)) = e /\ Peer(e) # e
BY LifecycleAssumption DEF Sockets, Streams, Ids, Ends, Connector, Listener, Peer

(***************************************************************************)
(* What a channel holds once a packet is written to it.                    *)
(***************************************************************************)
LEMMA AppendFacts ==
  ASSUME NEW q \in Seq(Packets), NEW m \in Packets
  PROVE  /\ Append(q, m) \in Seq(Packets)
         /\ Len(q) \in Nat /\ DOMAIN q = 1..Len(q)
         /\ DOMAIN Append(q, m) = 1..(Len(q) + 1)
         /\ \A k \in 1..Len(q) : Append(q, m)[k] = q[k]
         /\ Append(q, m)[Len(q) + 1] = m
<1> HIDE DEF Packets
<1>1. Append(q, m) \in Seq(Packets) /\ Len(Append(q, m)) = Len(q) + 1
  BY AppendProperties
<1>2. Len(q) \in Nat /\ DOMAIN q = 1..Len(q) /\ DOMAIN Append(q, m) = 1..Len(Append(q, m))
  BY <1>1, LenProperties
<1> QED BY <1>1, <1>2, AppendProperties

(***************************************************************************)
(* What a channel holds once its first packet is read.                     *)
(***************************************************************************)
LEMMA TailFacts ==
  ASSUME NEW q \in Seq(Packets), q # <<>>
  PROVE  /\ Tail(q) \in Seq(Packets) /\ Head(q) = q[1] /\ Head(q) \in Packets
         /\ Len(q) \in Nat \ {0} /\ DOMAIN q = 1..Len(q)
         /\ DOMAIN Tail(q) = 1..(Len(q) - 1)
         /\ \A k \in 1..(Len(q) - 1) : Tail(q)[k] = q[k + 1]
<1>1. Tail(q) \in Seq(Packets) /\ Len(Tail(q)) = Len(q) - 1 /\ Head(q) \in Packets
  BY HeadTailProperties
<1>2. Len(q) \in Nat \ {0} /\ DOMAIN q = 1..Len(q)
  BY EmptySeq, LenProperties
<1>3. DOMAIN Tail(q) = 1..Len(Tail(q)) /\ Head(q) = q[1]
  BY <1>1, LenProperties
<1> QED BY <1>1, <1>2, <1>3, HeadTailProperties

(***************************************************************************)
(* Sending on socket z of end d.                                           *)
(***************************************************************************)
LEMMA PutEffect ==
  ASSUME TypeInv, NEW d \in Ends, NEW z \in Sockets, NEW m \in Packets, Put(d, z, m)
  PROVE  /\ chan' \in [Ends -> [Sockets -> Seq(Packets)]]
         /\ \A e \in Ends, s \in Sockets : \A k \in DOMAIN chan'[e][s] :
              \/ k \in DOMAIN chan[e][s] /\ chan'[e][s][k] = chan[e][s][k]
              \/ e = d /\ s = z /\ k = Len(chan[d][z]) + 1 /\ chan'[e][s][k] = m
         /\ \A e \in Ends, s \in Sockets : \A k \in DOMAIN chan[e][s] :
              k \in DOMAIN chan'[e][s] /\ chan'[e][s][k] = chan[e][s][k]
         /\ \A k \in DOMAIN chan[d][z] : k \in Nat /\ k < Len(chan[d][z]) + 1
         /\ Len(chan[d][z]) + 1 \in DOMAIN chan'[d][z] \cap Nat
         /\ chan'[d][z][Len(chan[d][z]) + 1] = m
<1>1. chan \in [Ends -> [Sockets -> Seq(Packets)]]
  BY DEF TypeInv
<1>2. chan' = [chan EXCEPT ![d][z] = Append(chan[d][z], m)]
  BY DEF Put
<1>3. PICK q \in Seq(Packets) : q = chan[d][z]
  BY <1>1
<1>4. /\ Append(q, m) \in Seq(Packets)
      /\ Len(q) \in Nat /\ DOMAIN q = 1..Len(q)
      /\ DOMAIN Append(q, m) = 1..(Len(q) + 1)
      /\ \A k \in 1..Len(q) : Append(q, m)[k] = q[k]
      /\ Append(q, m)[Len(q) + 1] = m
  BY AppendFacts
<1>5. chan'[d][z] = Append(q, m) /\ \A e \in Ends, s \in Sockets :
        e # d \/ s # z => chan'[e][s] = chan[e][s]
  BY <1>1, <1>2, <1>3
<1>6. chan' \in [Ends -> [Sockets -> Seq(Packets)]]
  BY <1>1, <1>2, <1>3, <1>4
<1>7. ASSUME NEW e \in Ends, NEW s \in Sockets, NEW k \in DOMAIN chan'[e][s]
      PROVE  \/ k \in DOMAIN chan[e][s] /\ chan'[e][s][k] = chan[e][s][k]
             \/ e = d /\ s = z /\ k = Len(q) + 1 /\ chan'[e][s][k] = m
  <2>1. CASE e = d /\ s = z
    <3>1. k \in 1..(Len(q) + 1) /\ chan[e][s] = q /\ chan'[e][s] = Append(q, m)
      BY <1>3, <1>4, <1>5, <1>7, <2>1
    <3>2. CASE k = Len(q) + 1
      BY <1>4, <2>1, <3>1, <3>2
    <3>3. CASE k # Len(q) + 1
      <4>1. k \in 1..Len(q)
        BY <1>4, <3>1, <3>3
      <4> QED BY <1>4, <3>1, <4>1
    <3> QED BY <3>2, <3>3
  <2>2. CASE e # d \/ s # z
    BY <1>5, <1>7, <2>2
  <2> QED BY <2>1, <2>2
<1>8. ASSUME NEW e \in Ends, NEW s \in Sockets, NEW k \in DOMAIN chan[e][s]
      PROVE  k \in DOMAIN chan'[e][s] /\ chan'[e][s][k] = chan[e][s][k]
  <2>1. CASE e = d /\ s = z
    <3>1. k \in 1..Len(q) /\ chan[e][s] = q /\ chan'[e][s] = Append(q, m)
      BY <1>3, <1>4, <1>5, <1>8, <2>1
    <3>2. k \in 1..(Len(q) + 1)
      BY <1>4, <3>1
    <3> QED BY <1>4, <3>1, <3>2
  <2>2. CASE e # d \/ s # z
    BY <1>5, <1>8, <2>2
  <2> QED BY <2>1, <2>2
<1>9. /\ \A k \in DOMAIN chan[d][z] : k \in Nat /\ k < Len(q) + 1
      /\ Len(q) + 1 \in DOMAIN chan'[d][z] \cap Nat
      /\ chan'[d][z][Len(q) + 1] = m
  <2>1. Len(q) + 1 \in 1..(Len(q) + 1) /\ \A k \in 1..Len(q) : k \in Nat /\ k < Len(q) + 1
    BY <1>4
  <2> QED BY <1>3, <1>4, <1>5, <2>1
<1> QED BY <1>3, <1>6, <1>7, <1>8, <1>9

(***************************************************************************)
(* A packet written to a socket adds itself to what the socket carries of  *)
(* its stream, and leaves the other streams and sockets alone.             *)
(***************************************************************************)
LEMMA PutHolding ==
  ASSUME TypeInv, NEW d \in Ends, NEW z \in Sockets, NEW m \in Packets, Put(d, z, m),
         NEW e \in Ends, NEW s \in Sockets, NEW g
  PROVE  /\ \A type : Holding(e, s, g, type)' <=>
              \/ Holding(e, s, g, type)
              \/ e = d /\ s = z /\ m.stream = g /\ m.type = type
         /\ Clear(e, s, g)' <=> Clear(e, s, g) /\ ~(e = d /\ s = z /\ m.stream = g)
<1>1. PICK n0 : n0 = Len(chan[d][z]) + 1
  OBVIOUS
<1>2. /\ \A k \in DOMAIN chan'[e][s] :
              \/ k \in DOMAIN chan[e][s] /\ chan'[e][s][k] = chan[e][s][k]
              \/ e = d /\ s = z /\ k = n0 /\ chan'[e][s][k] = m
      /\ \A k \in DOMAIN chan[e][s] :
              k \in DOMAIN chan'[e][s] /\ chan'[e][s][k] = chan[e][s][k]
      /\ n0 \in DOMAIN chan'[d][z]
      /\ chan'[d][z][n0] = m
  BY <1>1, PutEffect
<1> QED BY <1>2 DEF Holding, Clear

(***************************************************************************)
(* Reading from socket z what end d has sent.                              *)
(***************************************************************************)
Shift(e, s, d, z) == IF e = d /\ s = z THEN 1 ELSE 0

(***************************************************************************)
(* Reading a packet (receiveFullChunk) moves the packets behind it one     *)
(* place forward and touches no other channel.                             *)
(***************************************************************************)
LEMMA PopEffect ==
  ASSUME TypeInv, NEW r \in Ends, NEW d, d = Peer(r), NEW z \in Sockets,
         chan[d][z] # <<>>, Pop(r, z)
  PROVE  /\ chan' \in [Ends -> [Sockets -> Seq(Packets)]]
         /\ Head(chan[d][z]) \in Packets /\ Head(chan[d][z]) = chan[d][z][1]
         /\ 1 \in DOMAIN chan[d][z]
         /\ \A e \in Ends, s \in Sockets : \A k \in DOMAIN chan'[e][s] :
              /\ k \in Nat \ {0} /\ k + Shift(e, s, d, z) \in DOMAIN chan[e][s]
              /\ chan'[e][s][k] = chan[e][s][k + Shift(e, s, d, z)]
         /\ \A e \in Ends, s \in Sockets : \A k \in DOMAIN chan[e][s] :
              /\ k \in Nat \ {0}
              /\ \/ e = d /\ s = z /\ k = 1
                 \/ /\ k - Shift(e, s, d, z) \in DOMAIN chan'[e][s]
                    /\ chan'[e][s][k - Shift(e, s, d, z)] = chan[e][s][k]
<1>1. chan \in [Ends -> [Sockets -> Seq(Packets)]] /\ d \in Ends
  BY Constants DEF TypeInv
<1>2. chan' = [chan EXCEPT ![d][z] = Tail(chan[d][z])]
  BY DEF Pop
<1>3. PICK q \in Seq(Packets) : q = chan[d][z]
  BY <1>1
<1>4. /\ Tail(q) \in Seq(Packets) /\ Head(q) = q[1] /\ Head(q) \in Packets
      /\ Len(q) \in Nat \ {0} /\ DOMAIN q = 1..Len(q)
      /\ DOMAIN Tail(q) = 1..(Len(q) - 1)
      /\ \A k \in 1..(Len(q) - 1) : Tail(q)[k] = q[k + 1]
  BY <1>3, TailFacts
<1>5. chan'[d][z] = Tail(q) /\ \A e \in Ends, s \in Sockets :
        e # d \/ s # z => chan'[e][s] = chan[e][s]
  BY <1>1, <1>2, <1>3
<1>6. chan' \in [Ends -> [Sockets -> Seq(Packets)]]
  BY <1>1, <1>2, <1>3, <1>4
<1>7. ASSUME NEW e \in Ends, NEW s \in Sockets, NEW k \in DOMAIN chan'[e][s]
      PROVE  /\ k \in Nat \ {0} /\ k + Shift(e, s, d, z) \in DOMAIN chan[e][s]
             /\ chan'[e][s][k] = chan[e][s][k + Shift(e, s, d, z)]
  <2>1. CASE e = d /\ s = z
    <3>1. k \in 1..(Len(q) - 1) /\ chan[e][s] = q /\ chan'[e][s] = Tail(q)
      BY <1>3, <1>4, <1>5, <1>7, <2>1
    <3>2. k \in Nat \ {0} /\ k + 1 \in 1..Len(q)
      BY <1>4, <3>1
    <3>3. Tail(q)[k] = q[k + 1]
      BY <1>4, <3>1
    <3> QED BY <1>4, <2>1, <3>1, <3>2, <3>3 DEF Shift
  <2>2. CASE e # d \/ s # z
    <3>1. chan'[e][s] = chan[e][s] /\ chan[e][s] \in Seq(Packets)
      BY <1>1, <1>5, <2>2
    <3>2. DOMAIN chan[e][s] = 1..Len(chan[e][s]) /\ Len(chan[e][s]) \in Nat
      BY <3>1, LenProperties
    <3> QED BY <1>7, <2>2, <3>1, <3>2 DEF Shift
  <2> QED BY <2>1, <2>2
<1>8. ASSUME NEW e \in Ends, NEW s \in Sockets, NEW k \in DOMAIN chan[e][s]
      PROVE  /\ k \in Nat \ {0}
             /\ \/ e = d /\ s = z /\ k = 1
                \/ /\ k - Shift(e, s, d, z) \in DOMAIN chan'[e][s]
                   /\ chan'[e][s][k - Shift(e, s, d, z)] = chan[e][s][k]
  <2>1. CASE e = d /\ s = z
    <3>1. k \in 1..Len(q) /\ chan[e][s] = q /\ chan'[e][s] = Tail(q)
      BY <1>3, <1>4, <1>5, <1>8, <2>1
    <3>2. CASE k = 1
      BY <2>1, <3>2
    <3>3. CASE k # 1
      <4>1. k \in Nat \ {0} /\ k - 1 \in 1..(Len(q) - 1) /\ (k - 1) + 1 = k
        BY <1>4, <3>1, <3>3
      <4>2. Tail(q)[k - 1] = q[k]
        BY <1>4, <4>1
      <4> QED BY <1>4, <2>1, <3>1, <4>1, <4>2 DEF Shift
    <3> QED BY <3>2, <3>3
  <2>2. CASE e # d \/ s # z
    <3>1. chan'[e][s] = chan[e][s] /\ chan[e][s] \in Seq(Packets)
      BY <1>1, <1>5, <2>2
    <3>2. DOMAIN chan[e][s] = 1..Len(chan[e][s]) /\ Len(chan[e][s]) \in Nat
      BY <3>1, LenProperties
    <3> QED BY <1>8, <2>2, <3>1, <3>2 DEF Shift
  <2> QED BY <2>1, <2>2
<1> QED BY <1>3, <1>4, <1>6, <1>7, <1>8

(***************************************************************************)
(* Reading a packet takes at most that packet from what a socket carries   *)
(* of a stream.                                                            *)
(***************************************************************************)
LEMMA PopHolding ==
  ASSUME TypeInv, NEW r \in Ends, NEW d, d = Peer(r), NEW z \in Sockets,
         chan[d][z] # <<>>, Pop(r, z), NEW p, p = Head(chan[d][z]),
         NEW e \in Ends, NEW s \in Sockets, NEW g, NEW type
  PROVE  /\ Holding(e, s, g, type)' => Holding(e, s, g, type)
         /\ Holding(e, s, g, type) =>
              Holding(e, s, g, type)' \/ (e = d /\ s = z /\ p.stream = g /\ p.type = type)
         /\ Clear(e, s, g) => Clear(e, s, g)'
<1>1. PICK i : i = Shift(e, s, d, z)
  OBVIOUS
<1>2. /\ p = chan[d][z][1]
      /\ \A k \in DOMAIN chan'[e][s] :
           k + i \in DOMAIN chan[e][s] /\ chan'[e][s][k] = chan[e][s][k + i]
      /\ \A k \in DOMAIN chan[e][s] :
           \/ e = d /\ s = z /\ k = 1
           \/ k - i \in DOMAIN chan'[e][s] /\ chan'[e][s][k - i] = chan[e][s][k]
  BY <1>1, PopEffect
<1> QED BY <1>2 DEF Holding, Clear

(***************************************************************************)
(* Nothing of the stream is left on a socket once its Close or its Ack has *)
(* been read from it.                                                      *)
(***************************************************************************)
LEMMA PopLast ==
  ASSUME TypeInv, PacketInv, NEW r \in Ends, NEW d, d = Peer(r), NEW z \in Sockets,
         chan[d][z] # <<>>, Pop(r, z), NEW p, p = Head(chan[d][z]), p.type # "data"
  PROVE  Clear(d, z, p.stream)'
<1>1. p = Head(chan[d][z])
  OBVIOUS
<1>2. /\ p = chan[d][z][1] /\ 1 \in DOMAIN chan[d][z] /\ d \in Ends
  BY <1>1, PopEffect, Constants
<1>3. \A j \in DOMAIN chan[d][z] : j > 1 => chan[d][z][j].stream # p.stream
  <2>1. PacketOK(d, z, 1)
    BY <1>2 DEF PacketInv
  <2> QED BY <1>1, <1>2, <2>1 DEF PacketOK
<1>4. ASSUME NEW k \in DOMAIN chan'[d][z] PROVE chan'[d][z][k].stream # p.stream
  <2>1. k \in Nat \ {0} /\ k + 1 \in DOMAIN chan[d][z] /\ chan'[d][z][k] = chan[d][z][k + 1]
    <3>1. Shift(d, z, d, z) = 1
      BY DEF Shift
    <3> QED BY <1>2, <3>1, PopEffect
  <2> QED BY <1>3, <2>1
<1> QED BY <1>1, <1>4 DEF Clear

(***************************************************************************)
(* sendBytesNow broadcasts to every socket once: the k-th socket of a      *)
(* broadcast and the turn of a socket are inverse to each other.           *)
(***************************************************************************)
LEMMA PositionFacts ==
  /\ \A k \in Sockets : BroadcastSocket(k) \in Sockets /\ Position(BroadcastSocket(k)) = k
  /\ \A s \in Sockets : Position(s) \in Sockets /\ BroadcastSocket(Position(s)) = s
  /\ \A k \in Sockets : k \in Nat /\ 1 <= k /\ k <= NumSockets
  /\ Position(1) = NumSockets /\ NumSockets \in Sockets /\ NumSockets \in Nat /\ 1 \in Sockets
BY LifecycleAssumption DEF Sockets, BroadcastSocket, Position

(***************************************************************************)
(* A step that leaves the close of g alone leaves its sockets alone.       *)
(***************************************************************************)
CloseSame(g) ==
  /\ CloseSent(g)' = CloseSent(g) /\ CloseRead(g)' = CloseRead(g)
  /\ Heard(g)' <=> Heard(g)

(***************************************************************************)
(* A step that leaves the answer to the close of g alone.                  *)
(***************************************************************************)
AckSame(g) == AckSent(g)' = AckSent(g) /\ AckRead(g)' = AckRead(g)

(***************************************************************************)
(* When the Close packets of a stream stay where they are, so do the       *)
(* sockets on which its Close was read.                                    *)
(***************************************************************************)
LEMMA CloseFrame ==
  ASSUME NEW g, CloseSent(g)' = CloseSent(g),
         \A s \in Sockets : Holding(Connector, s, g, "close")' <=> Holding(Connector, s, g, "close")
  PROVE  CloseSame(g)
<1>1. CloseRead(g)' = CloseRead(g)
  BY DEF CloseRead, CloseSent
<1> QED BY <1>1 DEF CloseSame, Heard

(***************************************************************************)
(* A step that does not go on with close() on a stream leaves the sockets  *)
(* that carried its Close.                                                 *)
(***************************************************************************)
LEMMA CloseSentFrame ==
  ASSUME NEW g, closing'[Connector][g] = closing[Connector][g]
  PROVE  CloseSent(g)' = CloseSent(g)
BY DEF CloseSent

(***************************************************************************)
(* When the Ack packets of a stream stay where they are, so do the sockets *)
(* on which its Ack was read.                                              *)
(***************************************************************************)
LEMMA AckFrame ==
  ASSUME NEW g, AckSent(g)' = AckSent(g),
         \A s \in Sockets : Holding(Listener, s, g, "ack")' <=> Holding(Listener, s, g, "ack")
  PROVE  AckSame(g)
BY DEF AckSame, AckRead, AckSent

(***************************************************************************)
(* A step in which the reactor does not go on with the Ack of a stream     *)
(* leaves the sockets that carried it.                                     *)
(***************************************************************************)
LEMMA AckSentFrame ==
  ASSUME NEW g, Heard(g)' <=> Heard(g), Busy(g)' <=> Busy(g),
         Busy(g) => reactor'[Listener] = reactor[Listener]
  PROVE  AckSent(g)' = AckSent(g)
BY DEF AckSent

(***************************************************************************)
(* What the sets of sockets say.                                           *)
(***************************************************************************)
LEMMA SocketSets ==
  ASSUME TypeInv, NEW g \in Streams
  PROVE  /\ CloseRead(g) \subseteq CloseSent(g) /\ CloseSent(g) \subseteq Sockets
         /\ AckRead(g) \subseteq AckSent(g) /\ AckSent(g) \subseteq Sockets
         /\ AckSent(g) # {} => Heard(g)
         /\ closing[Connector][g].step \in {"no", "unregister"} => CloseSent(g) = {}
         /\ CloseSent(g) = Sockets => closing[Connector][g].step = "done"
         /\ Heard(g) => CloseSent(g) = Sockets
         /\ AckSent(g) = Sockets => Heard(g) /\ ~Busy(g)
         /\ Sockets # {}
<1>1. CloseRead(g) \subseteq CloseSent(g) /\ CloseSent(g) \subseteq Sockets
  BY DEF CloseRead, CloseSent
<1>2. AckRead(g) \subseteq AckSent(g) /\ AckSent(g) \subseteq Sockets
  BY DEF AckRead, AckSent
<1>3. AckSent(g) # {} => Heard(g)
  BY DEF AckSent
<1>4. closing[Connector][g].step \in {"no", "unregister"} => CloseSent(g) = {}
  BY DEF CloseSent
<1>5. closing[Connector][g].next \in Sockets
  BY Constants DEF TypeInv, Closings
<1>6. CloseSent(g) = Sockets => closing[Connector][g].step = "done"
  <2>1. ~(Position(1) < closing[Connector][g].next)
    <3>1. PICK n \in Sockets : n = closing[Connector][g].next
      BY <1>5
    <3>2. n \in Nat /\ n <= NumSockets /\ Position(1) = NumSockets /\ NumSockets \in Nat
      BY PositionFacts
    <3> QED BY <3>1, <3>2
  <2> QED BY <2>1, PositionFacts DEF CloseSent
<1>7. Heard(g) => CloseSent(g) = Sockets
  BY <1>1 DEF Heard
<1>8. reactor[Listener].next \in Sockets
  BY Constants DEF TypeInv, Reactors
<1>9. AckSent(g) = Sockets => Heard(g) /\ ~Busy(g)
  <2>1. ~(Position(1) < reactor[Listener].next)
    <3>1. PICK n \in Sockets : n = reactor[Listener].next
      BY <1>8
    <3>2. n \in Nat /\ n <= NumSockets /\ Position(1) = NumSockets /\ NumSockets \in Nat
      BY PositionFacts
    <3> QED BY <3>1, <3>2
  <2> QED BY <2>1, PositionFacts DEF AckSent
<1> QED BY <1>1, <1>2, <1>3, <1>4, <1>6, <1>7, <1>9, Constants

(***************************************************************************)
(* An id stands for one stream.                                            *)
(***************************************************************************)
LEMMA LiveUnique ==
  ASSUME NEW g \in Streams, NEW h \in Streams, Live(g), Live(h), idOf[g] = idOf[h]
  PROVE  g = h
<1>1. g \in Nat /\ h \in Nat
  BY Constants
<1>2. ~(h > g) /\ ~(g > h)
  BY DEF Live
<1> QED BY <1>1, <1>2

(***************************************************************************)
(* A live stream has a StreamID.                                           *)
(***************************************************************************)
LEMMA LiveId ==
  ASSUME TypeInv, NEW g \in Streams, Live(g)
  PROVE  idOf[g] \in Ids
BY DEF TypeInv, Live

(***************************************************************************)
(* The live streams change only when getNewID hands out an id or           *)
(* shutDownClosedStream gives one back.                                    *)
(***************************************************************************)
LEMMA LiveFrame ==
  ASSUME idOf' = idOf, ms'[Connector].free = ms[Connector].free
  PROVE  /\ \A g : Live(g)' <=> Live(g)
         /\ \A i : GivenBack(i)' <=> GivenBack(i)
BY DEF Live, GivenBack

(***************************************************************************)
(* What is said of mFreeStreamIDs and mHighestStreamID holds as long as no *)
(* id is handed out or given back.                                         *)
(***************************************************************************)
LEMMA IdsFrame ==
  ASSUME idOf' = idOf, ms'[Connector].free = ms[Connector].free,
         ms'[Connector].highest = ms[Connector].highest,
         ms'[Listener].highest = ms[Listener].highest, CreatedInv, FreeInv
  PROVE  CreatedInv' /\ FreeInv'
<1>1. CreatedInv'
  BY DEF CreatedInv, CreatedUpTo
<1>2. FreeInv'
  BY DEF FreeInv
<1> QED BY <1>1, <1>2

-----------------------------------------------------------------------------
(* Packets *)

(***************************************************************************)
(* Nothing that is under way of stream x becomes wrong.                    *)
(***************************************************************************)
Keeps(x) ==
  /\ Live(x) => Live(x)' /\ idOf'[x] = idOf[x]
  /\ CloseSent(x) \subseteq CloseSent(x)' /\ AckSent(x) \subseteq AckSent(x)'

(***************************************************************************)
(* A packet under way names a stream of the connection.                    *)
(***************************************************************************)
LEMMA PacketStream ==
  ASSUME TypeInv, NEW e \in Ends, NEW s \in Sockets, NEW k \in DOMAIN chan[e][s]
  PROVE  /\ chan[e][s][k] \in Packets /\ chan[e][s][k].stream \in Streams
         /\ k \in Nat \ {0}
<1>1. chan[e][s] \in Seq(Packets)
  BY DEF TypeInv
<1>2. chan[e][s][k] \in Packets /\ k \in Nat \ {0}
  BY <1>1, LenProperties
<1> QED BY <1>2 DEF Packets

(***************************************************************************)
(* Writing a packet of a live stream behind no control packet of that      *)
(* stream keeps every packet under way well placed.                        *)
(***************************************************************************)
LEMMA PutPackets ==
  ASSUME TypeInv, PacketInv, NEW d \in Ends, NEW z \in Sockets, NEW m \in Packets, Put(d, z, m),
         \A x \in Streams : Keeps(x),
         Live(m.stream)', m.id = idOf'[m.stream],
         m.type = "close" => d = Connector /\ z \in CloseSent(m.stream)',
         m.type = "ack" => d = Listener /\ z \in AckSent(m.stream)',
         \A type \in {"close", "ack"} : ~Holding(d, z, m.stream, type)
  PROVE  PacketInv'
<1>1. PICK n0 : n0 = Len(chan[d][z]) + 1
  OBVIOUS
<1>2. /\ \A e \in Ends, s \in Sockets : \A k \in DOMAIN chan'[e][s] :
           \/ k \in DOMAIN chan[e][s] /\ chan'[e][s][k] = chan[e][s][k]
           \/ e = d /\ s = z /\ k = n0 /\ chan'[e][s][k] = m
      /\ \A k \in DOMAIN chan[d][z] : k \in Nat /\ k < n0
      /\ n0 \in Nat
  BY <1>1, PutEffect
<1> SUFFICES ASSUME NEW e \in Ends, NEW s \in Sockets, NEW k \in DOMAIN chan'[e][s]
             PROVE  PacketOK(e, s, k)'
  BY DEF PacketInv
<1>3. CASE k \in DOMAIN chan[e][s] /\ chan'[e][s][k] = chan[e][s][k]
  <2>1. PacketOK(e, s, k) /\ chan[e][s][k].stream \in Streams /\ chan[e][s][k] \in Packets
    BY <1>3, PacketStream DEF PacketInv
  <2>2. PICK p : p = chan[e][s][k]
    OBVIOUS
  <2>3. /\ Live(p.stream)' /\ p.id = idOf'[p.stream]
        /\ p.type = "close" => e = Connector /\ s \in CloseSent(p.stream)'
        /\ p.type = "ack" => e = Listener /\ s \in AckSent(p.stream)'
    BY <2>1, <2>2 DEF PacketOK, Keeps
  <2>4. ASSUME p.type # "data", NEW j \in DOMAIN chan'[e][s], j > k
        PROVE  chan'[e][s][j].stream # p.stream
    <3>1. CASE j \in DOMAIN chan[e][s] /\ chan'[e][s][j] = chan[e][s][j]
      BY <2>1, <2>2, <2>4, <3>1 DEF PacketOK
    <3>2. CASE e = d /\ s = z /\ j = n0 /\ chan'[e][s][j] = m
      <4>1. p.type \in {"close", "ack"}
        BY <2>1, <2>2, <2>4 DEF Packets
      <4> QED BY <1>3, <2>2, <3>2, <4>1 DEF Holding
    <3> QED BY <1>2, <3>1, <3>2
  <2> QED BY <1>3, <2>2, <2>3, <2>4 DEF PacketOK
<1>4. CASE e = d /\ s = z /\ k = n0 /\ chan'[e][s][k] = m
  <2>1. ASSUME NEW j \in DOMAIN chan'[e][s] PROVE ~(j > k)
    BY <1>2, <1>4
  <2> QED BY <1>4, <2>1 DEF PacketOK
<1> QED BY <1>2, <1>3, <1>4

(***************************************************************************)
(* Reading a packet keeps the packets under way well placed, unless it     *)
(* ends a stream that still has some.                                      *)
(***************************************************************************)
LEMMA PopPackets ==
  ASSUME TypeInv, PacketInv, NEW r \in Ends, NEW d, d = Peer(r), NEW z \in Sockets,
         chan[d][z] # <<>>, Pop(r, z),
         \A x \in Streams : Keeps(x) \/ \A e \in Ends, s \in Sockets : Clear(e, s, x)'
  PROVE  PacketInv'
<1> SUFFICES ASSUME NEW e \in Ends, NEW s \in Sockets, NEW k \in DOMAIN chan'[e][s]
             PROVE  PacketOK(e, s, k)'
  BY DEF PacketInv
<1>1. PICK i : i = Shift(e, s, d, z)
  OBVIOUS
<1>2. /\ \A j \in DOMAIN chan'[e][s] :
           /\ j \in Nat /\ j + i \in DOMAIN chan[e][s]
           /\ chan'[e][s][j] = chan[e][s][j + i]
      /\ i \in Nat
  BY <1>1, PopEffect DEF Shift
<1>3. PICK p : p = chan'[e][s][k]
  OBVIOUS
<1>4. k + i \in DOMAIN chan[e][s] /\ chan[e][s][k + i] = p
  BY <1>2, <1>3
<1>5. PacketOK(e, s, k + i) /\ p.stream \in Streams
  BY <1>4, PacketStream DEF PacketInv
<1>6. Keeps(p.stream)
  BY <1>3, <1>5 DEF Clear
<1>7. /\ Live(p.stream)' /\ p.id = idOf'[p.stream]
      /\ p.type = "close" => e = Connector /\ s \in CloseSent(p.stream)'
      /\ p.type = "ack" => e = Listener /\ s \in AckSent(p.stream)'
  BY <1>4, <1>5, <1>6 DEF PacketOK, Keeps
<1>8. ASSUME p.type # "data", NEW j \in DOMAIN chan'[e][s], j > k
      PROVE  chan'[e][s][j].stream # p.stream
  <2>1. j + i \in DOMAIN chan[e][s] /\ chan'[e][s][j] = chan[e][s][j + i] /\ j + i > k + i
    BY <1>2, <1>8
  <2> QED BY <1>4, <1>5, <1>8, <2>1 DEF PacketOK
<1> QED BY <1>3, <1>7, <1>8 DEF PacketOK

(***************************************************************************)
(* A step that neither reads nor writes keeps the packets under way well   *)
(* placed, unless it ends a stream that still has some.                    *)
(***************************************************************************)
LEMMA SamePackets ==
  ASSUME TypeInv, PacketInv, chan' = chan,
         \A x \in Streams : Keeps(x) \/ \A e \in Ends, s \in Sockets : Clear(e, s, x)
  PROVE  PacketInv'
<1> SUFFICES ASSUME NEW e \in Ends, NEW s \in Sockets, NEW k \in DOMAIN chan[e][s]
             PROVE  PacketOK(e, s, k)'
  BY DEF PacketInv
<1>1. PICK p : p = chan[e][s][k]
  OBVIOUS
<1>2. PacketOK(e, s, k) /\ p.stream \in Streams
  BY <1>1, PacketStream DEF PacketInv
<1>3. Keeps(p.stream)
  BY <1>1, <1>2 DEF Clear
<1> QED BY <1>1, <1>2, <1>3 DEF PacketOK, Keeps

-----------------------------------------------------------------------------
(* Data *)

(***************************************************************************)
(* A step that neither sends nor delivers data keeps what is said of the   *)
(* data.                                                                   *)
(***************************************************************************)
LEMMA SameData ==
  ASSUME TypeInv, DataInv, chan' = chan, sent' = sent, got' = got,
         \A x \in Streams : idOf'[x] = idOf[x] \/ \A e \in Ends, s \in Sockets : Clear(e, s, x)
  PROVE  DataInv'
<1>1. OnceInv' /\ CoverInv' /\ NoMixup'
  BY DEF DataInv, OnceInv, CoverInv, UnderWay, NoMixup, IsData
<1>2. OrderInv'
  <2> SUFFICES ASSUME NEW e \in Ends, NEW g \in Streams, NEW s \in Sockets, NEW k \in DOMAIN chan[e][s],
                      IsData(chan[e][s][k], g), chan[e][s][k].ordered
               PROVE  s = SocketOf(idOf'[g])
    BY DEF DataInv, OrderInv, IsData, SocketOf
  <2>1. idOf'[g] = idOf[g]
    BY DEF Clear, IsData
  <2> QED BY <2>1 DEF DataInv, OrderInv
<1> QED BY <1>1, <1>2 DEF DataInv

(***************************************************************************)
(* A Close or an Ack written to a socket does not disturb the data         *)
(* packets.                                                                *)
(***************************************************************************)
LEMMA PutControlData ==
  ASSUME TypeInv, DataInv, NEW d \in Ends, NEW z \in Sockets, NEW m \in Packets, Put(d, z, m),
         m.type # "data", sent' = sent, got' = got, idOf' = idOf
  PROVE  DataInv'
<1>1. PICK n0 : n0 = Len(chan[d][z]) + 1
  OBVIOUS
<1>2. \A e \in Ends, s \in Sockets, g \in Streams : \A k \in DOMAIN chan'[e][s] :
        IsData(chan'[e][s][k], g) => k \in DOMAIN chan[e][s] /\ chan'[e][s][k] = chan[e][s][k]
  BY PutEffect DEF IsData
<1>3. \A e \in Ends, s \in Sockets : \A k \in DOMAIN chan[e][s] :
        k \in DOMAIN chan'[e][s] /\ chan'[e][s][k] = chan[e][s][k]
  BY PutEffect
<1>4. OnceInv'
  BY <1>2 DEF DataInv, OnceInv, IsData
<1>5. CoverInv'
  <2>1. ASSUME NEW g, NEW n, UnderWay(g, n) PROVE UnderWay(g, n)'
    BY <1>3, <2>1, Constants DEF UnderWay, IsData
  <2> QED BY <2>1 DEF DataInv, CoverInv
<1>6. OrderInv'
  BY <1>2 DEF DataInv, OrderInv, IsData, SocketOf
<1>7. NoMixup'
  BY DEF DataInv, NoMixup
<1> QED BY <1>4, <1>5, <1>6, <1>7 DEF DataInv

(***************************************************************************)
(* What a callback was given are packets.                                  *)
(***************************************************************************)
LEMMA GotPackets ==
  ASSUME TypeInv, NEW e \in Ends, NEW g \in Streams, NEW j \in DOMAIN got[e][g]
  PROVE  got[e][g][j] \in Packets /\ got[e][g][j].n \in Nat /\ j \in Nat \ {0}
<1>1. got[e][g] \in Seq(Packets)
  BY DEF TypeInv
<1>2. got[e][g][j] \in Packets /\ j \in Nat \ {0}
  BY <1>1, LenProperties
<1> QED BY <1>2 DEF Packets

(***************************************************************************)
(* A packet that is sent has a number of its own, above those before.      *)
(***************************************************************************)
LEMMA SendData ==
  ASSUME TypeInv, DataInv, NEW d \in Ends, NEW z \in Sockets, NEW m \in Packets, Put(d, z, m),
         NEW x \in Streams, m.type = "data", m.stream = x, m.n = sent[d][x] + 1,
         m.ordered => z = SocketOf(idOf[x]),
         sent' = [sent EXCEPT ![d][x] = @ + 1], got' = got, idOf' = idOf
  PROVE  DataInv'
<1>1. PICK n0 : n0 = Len(chan[d][z]) + 1
  OBVIOUS
<1>2. /\ \A e \in Ends, s \in Sockets : \A k \in DOMAIN chan'[e][s] :
           \/ k \in DOMAIN chan[e][s] /\ chan'[e][s][k] = chan[e][s][k]
           \/ e = d /\ s = z /\ k = n0 /\ chan'[e][s][k] = m
      /\ \A e \in Ends, s \in Sockets : \A k \in DOMAIN chan[e][s] :
           k \in DOMAIN chan'[e][s] /\ chan'[e][s][k] = chan[e][s][k]
      /\ \A k \in DOMAIN chan[d][z] : k \in Nat /\ k < n0
      /\ n0 \in DOMAIN chan'[d][z] /\ n0 \in Nat
      /\ chan'[d][z][n0] = m
  BY <1>1, PutEffect
<1>3. /\ sent'[d][x] = sent[d][x] + 1
      /\ \A e \in Ends, g \in Streams : /\ sent[e][g] \in Nat
                                        /\ e # d \/ g # x => sent'[e][g] = sent[e][g]
  BY DEF TypeInv
<1>4. \A e \in Ends, g \in Streams : /\ 1..sent[e][g] \subseteq 1..sent'[e][g]
                                     /\ IsData(m, g) => g = x
  <2> SUFFICES ASSUME NEW e \in Ends, NEW g \in Streams
               PROVE  1..sent[e][g] \subseteq 1..sent'[e][g] /\ (IsData(m, g) => g = x)
    OBVIOUS
  <2>1. PICK a, b : a = sent[e][g] /\ b = sent'[e][g]
    OBVIOUS
  <2>2. a \in Nat /\ (b = a \/ b = a + 1)
    BY <1>3, <2>1
  <2> QED BY <2>1, <2>2 DEF IsData
<1>5. m.n \in 1..sent'[d][x] /\ m.n \notin 1..sent[d][x] /\ m.n \in Nat /\ \A n \in 1..sent[d][x] : n < m.n
  BY <1>3
<1>6. \A s \in Sockets : \A k \in DOMAIN chan[d][s] :
        IsData(chan[d][s][k], x) => chan[d][s][k].n \in 1..sent[d][x]
  BY DEF DataInv, OnceInv
<1>7. \A j \in DOMAIN got[Peer(d)][x] : got[Peer(d)][x][j].n \in 1..sent[d][x]
  BY DEF DataInv, OnceInv
<1>8. OnceInv'
  <2> SUFFICES ASSUME NEW e \in Ends, NEW g \in Streams
               PROVE
    /\ \A s \in Sockets : \A k \in DOMAIN chan'[e][s] :
         IsData(chan'[e][s][k], g) =>
           /\ chan'[e][s][k].n \in 1..sent'[e][g]
           /\ \A j \in DOMAIN got[Peer(e)][g] : got[Peer(e)][g][j].n # chan'[e][s][k].n
           /\ \A t \in Sockets : \A j \in DOMAIN chan'[e][t] :
                IsData(chan'[e][t][j], g) /\ chan'[e][t][j].n = chan'[e][s][k].n => s = t /\ j = k
    /\ \A j \in DOMAIN got[Peer(e)][g] : got[Peer(e)][g][j].n \in 1..sent'[e][g]
    /\ \A j, k \in DOMAIN got[Peer(e)][g] :
         got[Peer(e)][g][j].n = got[Peer(e)][g][k].n => j = k
    BY DEF OnceInv, IsData, Peer
  <2>1. ASSUME NEW s \in Sockets, NEW k \in DOMAIN chan'[e][s], IsData(chan'[e][s][k], g)
        PROVE  /\ chan'[e][s][k].n \in 1..sent'[e][g]
               /\ \A j \in DOMAIN got[Peer(e)][g] : got[Peer(e)][g][j].n # chan'[e][s][k].n
               /\ \A t \in Sockets : \A j \in DOMAIN chan'[e][t] :
                    IsData(chan'[e][t][j], g) /\ chan'[e][t][j].n = chan'[e][s][k].n => s = t /\ j = k
    <3>1. CASE k \in DOMAIN chan[e][s] /\ chan'[e][s][k] = chan[e][s][k]
      <4>1. /\ chan[e][s][k].n \in 1..sent[e][g]
            /\ \A j \in DOMAIN got[Peer(e)][g] : got[Peer(e)][g][j].n # chan[e][s][k].n
            /\ \A t \in Sockets : \A j \in DOMAIN chan[e][t] :
                 IsData(chan[e][t][j], g) /\ chan[e][t][j].n = chan[e][s][k].n => s = t /\ j = k
        BY <2>1, <3>1 DEF DataInv, OnceInv
      <4>2. ASSUME NEW t \in Sockets, NEW j \in DOMAIN chan'[e][t],
                   IsData(chan'[e][t][j], g), chan'[e][t][j].n = chan'[e][s][k].n
            PROVE  s = t /\ j = k
        <5>1. CASE j \in DOMAIN chan[e][t] /\ chan'[e][t][j] = chan[e][t][j]
          BY <3>1, <4>1, <4>2, <5>1
        <5>2. CASE e = d /\ t = z /\ j = n0 /\ chan'[e][t][j] = m
          BY <1>4, <1>5, <2>1, <3>1, <4>1, <4>2, <5>2
        <5> QED BY <1>2, <5>1, <5>2
      <4> QED BY <1>4, <3>1, <4>1, <4>2
    <3>2. CASE e = d /\ s = z /\ k = n0 /\ chan'[e][s][k] = m
      <4>1. g = x
        BY <1>4, <2>1, <3>2
      <4>2. ASSUME NEW t \in Sockets, NEW j \in DOMAIN chan'[e][t],
                   IsData(chan'[e][t][j], g), chan'[e][t][j].n = m.n
            PROVE  s = t /\ j = k
        BY <1>2, <1>5, <1>6, <3>2, <4>1, <4>2
      <4> QED BY <1>5, <1>7, <3>2, <4>1, <4>2
    <3> QED BY <1>2, <3>1, <3>2
  <2>2. \A j \in DOMAIN got[Peer(e)][g] : got[Peer(e)][g][j].n \in 1..sent'[e][g]
    BY <1>4 DEF DataInv, OnceInv
  <2>3. \A j, k \in DOMAIN got[Peer(e)][g] :
         got[Peer(e)][g][j].n = got[Peer(e)][g][k].n => j = k
    BY DEF DataInv, OnceInv
  <2> QED BY <2>1, <2>2, <2>3
<1>9. CoverInv'
  <2> SUFFICES ASSUME NEW g \in Streams, NEW n \in 1..sent'[Connector][g]
               PROVE  UnderWay(g, n)' \/ \E j \in DOMAIN got[Listener][g] : got[Listener][g][j].n = n
    BY DEF CoverInv
  <2>1. CASE n \in 1..sent[Connector][g]
    <3>1. UnderWay(g, n) => UnderWay(g, n)'
      BY <1>2, Constants DEF UnderWay, IsData
    <3> QED BY <2>1, <3>1 DEF DataInv, CoverInv
  <2>2. CASE n \notin 1..sent[Connector][g]
    <3>1. d = Connector /\ g = x
      BY <1>3, <2>2, Constants
    <3>2. n = m.n
      <4>1. PICK a : a = sent[Connector][g] /\ a \in Nat
        BY <1>3, Constants
      <4>2. n \in 1..(a + 1) /\ n \notin 1..a /\ m.n = a + 1
        BY <1>3, <2>2, <3>1, <4>1
      <4> QED BY <4>1, <4>2
    <3>3. IsData(m, g)
      BY <3>1 DEF IsData
    <3> QED BY <1>2, <3>1, <3>2, <3>3 DEF UnderWay, IsData
  <2> QED BY <2>1, <2>2
<1>10. OrderInv'
  <2> SUFFICES ASSUME NEW e \in Ends, NEW g \in Streams
               PROVE
    /\ \A s \in Sockets : \A k \in DOMAIN chan'[e][s] :
         IsData(chan'[e][s][k], g) /\ chan'[e][s][k].ordered =>
           /\ s = SocketOf(idOf'[g])
           /\ \A j \in DOMAIN got'[Peer(e)][g] :
                got'[Peer(e)][g][j].ordered => got'[Peer(e)][g][j].n < chan'[e][s][k].n
           /\ \A j \in DOMAIN chan'[e][s] :
                IsData(chan'[e][s][j], g) /\ chan'[e][s][j].ordered /\ j > k =>
                  chan'[e][s][k].n < chan'[e][s][j].n
    /\ \A j, k \in DOMAIN got'[Peer(e)][g] :
         got'[Peer(e)][g][j].ordered /\ got'[Peer(e)][g][k].ordered /\ j < k =>
           got'[Peer(e)][g][j].n < got'[Peer(e)][g][k].n
    BY DEF OrderInv, IsData
  <2>1. ASSUME NEW s \in Sockets, NEW k \in DOMAIN chan'[e][s],
               IsData(chan'[e][s][k], g), chan'[e][s][k].ordered
        PROVE  /\ s = SocketOf(idOf[g])
               /\ \A j \in DOMAIN got[Peer(e)][g] :
                    got[Peer(e)][g][j].ordered => got[Peer(e)][g][j].n < chan'[e][s][k].n
               /\ \A j \in DOMAIN chan'[e][s] :
                    IsData(chan'[e][s][j], g) /\ chan'[e][s][j].ordered /\ j > k =>
                      chan'[e][s][k].n < chan'[e][s][j].n
    <3>1. CASE k \in DOMAIN chan[e][s] /\ chan'[e][s][k] = chan[e][s][k]
      <4>1. /\ s = SocketOf(idOf[g])
            /\ \A j \in DOMAIN got[Peer(e)][g] :
                 got[Peer(e)][g][j].ordered => got[Peer(e)][g][j].n < chan[e][s][k].n
            /\ \A j \in DOMAIN chan[e][s] :
                 IsData(chan[e][s][j], g) /\ chan[e][s][j].ordered /\ j > k =>
                   chan[e][s][k].n < chan[e][s][j].n
        BY <2>1, <3>1 DEF DataInv, OrderInv
      <4>2. ASSUME NEW j \in DOMAIN chan'[e][s], IsData(chan'[e][s][j], g), chan'[e][s][j].ordered, j > k
            PROVE  chan[e][s][k].n < chan'[e][s][j].n
        <5>1. CASE j \in DOMAIN chan[e][s] /\ chan'[e][s][j] = chan[e][s][j]
          BY <4>1, <4>2, <5>1
        <5>2. CASE e = d /\ s = z /\ j = n0 /\ chan'[e][s][j] = m
          <6>1. g = x /\ chan[d][s][k].n \in 1..sent[d][x]
            BY <1>4, <1>6, <2>1, <3>1, <4>2, <5>2
          <6> QED BY <1>5, <5>2, <6>1
        <5> QED BY <1>2, <5>1, <5>2
      <4> QED BY <3>1, <4>1, <4>2
    <3>2. CASE e = d /\ s = z /\ k = n0 /\ chan'[e][s][k] = m
      <4>1. g = x
        BY <1>4, <2>1, <3>2
      <4>2. ASSUME NEW j \in DOMAIN chan'[e][s] PROVE ~(j > k)
        BY <1>2, <3>2
      <4>3. ASSUME NEW j \in DOMAIN got[Peer(e)][g] PROVE got[Peer(e)][g][j].n < m.n
        BY <1>5, <1>7, <3>2, <4>1
      <4> QED BY <2>1, <3>2, <4>1, <4>2, <4>3
    <3> QED BY <1>2, <3>1, <3>2
  <2>2. \A j, k \in DOMAIN got[Peer(e)][g] :
         got[Peer(e)][g][j].ordered /\ got[Peer(e)][g][k].ordered /\ j < k =>
           got[Peer(e)][g][j].n < got[Peer(e)][g][k].n
    BY DEF DataInv, OrderInv
  <2> QED BY <2>1, <2>2
<1>11. NoMixup'
  BY DEF DataInv, NoMixup
<1> QED BY <1>8, <1>9, <1>10, <1>11 DEF DataInv

(***************************************************************************)
(* The data that is left once the first packet of a socket is read.        *)
(***************************************************************************)
LEMMA PopChannel ==
  ASSUME TypeInv, DataInv, NEW r \in Ends, NEW d, d = Peer(r), NEW z \in Sockets,
         chan[d][z] # <<>>, Pop(r, z), NEW p, p = Head(chan[d][z]),
         NEW e \in Ends, NEW g \in Streams, NEW s \in Sockets,
         NEW k \in DOMAIN chan'[e][s], IsData(chan'[e][s][k], g)
  PROVE  /\ chan'[e][s][k].n \in 1..sent[e][g]
         /\ \A j \in DOMAIN got[Peer(e)][g] : got[Peer(e)][g][j].n # chan'[e][s][k].n
         /\ \A t \in Sockets : \A j \in DOMAIN chan'[e][t] :
              IsData(chan'[e][t][j], g) /\ chan'[e][t][j].n = chan'[e][s][k].n => s = t /\ j = k
         /\ e = d /\ IsData(p, g) => p.n # chan'[e][s][k].n
         /\ chan'[e][s][k].ordered =>
              /\ s = SocketOf(idOf[g])
              /\ \A j \in DOMAIN got[Peer(e)][g] :
                   got[Peer(e)][g][j].ordered => got[Peer(e)][g][j].n < chan'[e][s][k].n
              /\ \A j \in DOMAIN chan'[e][s] :
                   IsData(chan'[e][s][j], g) /\ chan'[e][s][j].ordered /\ j > k =>
                     chan'[e][s][k].n < chan'[e][s][j].n
              /\ e = d /\ IsData(p, g) /\ p.ordered => p.n < chan'[e][s][k].n
<1> DEFINE sh(t) == Shift(e, t, d, z)
<1>1. \A t \in Sockets : \A j \in DOMAIN chan'[e][t] :
        /\ j \in Nat \ {0} /\ j + sh(t) \in DOMAIN chan[e][t]
        /\ chan'[e][t][j] = chan[e][t][j + sh(t)]
  BY PopEffect
<1>2. /\ \A t \in Sockets : sh(t) \in Nat
      /\ e = d => sh(z) = 1
  BY DEF Shift
<1>3. p = chan[d][z][1] /\ 1 \in DOMAIN chan[d][z]
  BY PopEffect
<1> HIDE DEF sh
<1>4. PICK i : i = k + sh(s)
  OBVIOUS
<1>5. /\ k \in Nat \ {0} /\ i \in Nat /\ i \in DOMAIN chan[e][s] /\ chan'[e][s][k] = chan[e][s][i]
      /\ IsData(chan[e][s][i], g)
  BY <1>1, <1>2, <1>4
<1>6. /\ chan[e][s][i].n \in 1..sent[e][g]
      /\ \A j \in DOMAIN got[Peer(e)][g] : got[Peer(e)][g][j].n # chan[e][s][i].n
      /\ \A t \in Sockets : \A j \in DOMAIN chan[e][t] :
           IsData(chan[e][t][j], g) /\ chan[e][t][j].n = chan[e][s][i].n => s = t /\ j = i
  BY <1>5 DEF DataInv, OnceInv
<1>7. ASSUME NEW t \in Sockets, NEW j \in DOMAIN chan'[e][t],
             IsData(chan'[e][t][j], g), chan'[e][t][j].n = chan'[e][s][k].n
      PROVE  s = t /\ j = k
  <2>1. j \in Nat /\ j + sh(t) \in DOMAIN chan[e][t] /\ chan'[e][t][j] = chan[e][t][j + sh(t)]
    BY <1>1
  <2>2. s = t /\ j + sh(t) = k + sh(s)
    BY <1>4, <1>5, <1>6, <1>7, <2>1
  <2> QED BY <1>2, <1>5, <2>1, <2>2
<1>8. ASSUME e = d, IsData(p, g) PROVE p.n # chan'[e][s][k].n
  <2>1. s = z => i # 1
    BY <1>2, <1>4, <1>5, <1>8
  <2> QED BY <1>3, <1>5, <1>6, <1>8, <2>1
<1>9. ASSUME chan'[e][s][k].ordered
      PROVE  /\ s = SocketOf(idOf[g])
             /\ \A j \in DOMAIN got[Peer(e)][g] :
                  got[Peer(e)][g][j].ordered => got[Peer(e)][g][j].n < chan'[e][s][k].n
             /\ \A j \in DOMAIN chan'[e][s] :
                  IsData(chan'[e][s][j], g) /\ chan'[e][s][j].ordered /\ j > k =>
                    chan'[e][s][k].n < chan'[e][s][j].n
             /\ e = d /\ IsData(p, g) /\ p.ordered => p.n < chan'[e][s][k].n
  <2>1. /\ s = SocketOf(idOf[g])
        /\ \A j \in DOMAIN got[Peer(e)][g] :
             got[Peer(e)][g][j].ordered => got[Peer(e)][g][j].n < chan[e][s][i].n
        /\ \A j \in DOMAIN chan[e][s] :
             IsData(chan[e][s][j], g) /\ chan[e][s][j].ordered /\ j > i =>
               chan[e][s][i].n < chan[e][s][j].n
    BY <1>5, <1>9 DEF DataInv, OrderInv
  <2>2. ASSUME NEW j \in DOMAIN chan'[e][s], IsData(chan'[e][s][j], g), chan'[e][s][j].ordered, j > k
        PROVE  chan'[e][s][k].n < chan'[e][s][j].n
    <3>1. j \in Nat /\ j + sh(s) \in DOMAIN chan[e][s] /\ chan'[e][s][j] = chan[e][s][j + sh(s)]
      BY <1>1
    <3>2. j + sh(s) > i
      BY <1>2, <1>4, <1>5, <2>2, <3>1
    <3> QED BY <1>5, <2>1, <2>2, <3>1, <3>2
  <2>3. ASSUME e = d, IsData(p, g), p.ordered PROVE p.n < chan'[e][s][k].n
    <3>1. /\ z = SocketOf(idOf[g])
          /\ \A j \in DOMAIN chan[d][z] :
               IsData(chan[d][z][j], g) /\ chan[d][z][j].ordered /\ j > 1 => p.n < chan[d][z][j].n
      BY <1>3, <2>3 DEF DataInv, OrderInv
    <3>2. s = z /\ i > 1
      BY <1>2, <1>4, <1>5, <2>1, <2>3, <3>1
    <3> QED BY <1>5, <1>9, <2>3, <3>1, <3>2
  <2> QED BY <1>5, <2>1, <2>2, <2>3
<1> QED BY <1>5, <1>6, <1>7, <1>8, <1>9

(***************************************************************************)
(* What the connector sent and is not read stays under way.                *)
(***************************************************************************)
LEMMA PopCover ==
  ASSUME TypeInv, NEW r \in Ends, NEW d, d = Peer(r), NEW z \in Sockets,
         chan[d][z] # <<>>, Pop(r, z), NEW p, p = Head(chan[d][z]),
         NEW g \in Streams, NEW n, UnderWay(g, n)
  PROVE  UnderWay(g, n)' \/ (d = Connector /\ IsData(p, g) /\ p.n = n)
<1>1. PICK s \in Sockets : \E k \in DOMAIN chan[Connector][s] :
        IsData(chan[Connector][s][k], g) /\ chan[Connector][s][k].n = n
  BY DEF UnderWay
<1>2. PICK k \in DOMAIN chan[Connector][s] :
        IsData(chan[Connector][s][k], g) /\ chan[Connector][s][k].n = n
  BY <1>1
<1>3. \A e \in Ends, t \in Sockets : \A j \in DOMAIN chan[e][t] :
        \/ e = d /\ t = z /\ j = 1
        \/ /\ j - Shift(e, t, d, z) \in DOMAIN chan'[e][t]
           /\ chan'[e][t][j - Shift(e, t, d, z)] = chan[e][t][j]
  BY PopEffect
<1>4. Connector \in Ends /\ p = chan[d][z][1]
  BY Constants, PopEffect
<1>5. CASE Connector = d /\ s = z /\ k = 1
  BY <1>2, <1>4, <1>5
<1>6. CASE \E j \in DOMAIN chan'[Connector][s] : chan'[Connector][s][j] = chan[Connector][s][k]
  <2>1. PICK j \in DOMAIN chan'[Connector][s] : chan'[Connector][s][j] = chan[Connector][s][k]
    BY <1>6
  <2>2. IsData(chan'[Connector][s][j], g) /\ chan'[Connector][s][j].n = n
    BY <1>2, <2>1
  <2>3. \E t \in Sockets : \E i \in DOMAIN chan'[Connector][t] :
          IsData(chan'[Connector][t][i], g) /\ chan'[Connector][t][i].n = n
    BY <2>2
  <2> QED BY <2>3 DEF UnderWay, IsData
<1> QED BY <1>3, <1>4, <1>5, <1>6

(***************************************************************************)
(* A Close or an Ack is read, or the connector drops data of a stream that *)
(* it has closed.                                                          *)
(***************************************************************************)
LEMMA PopDropData ==
  ASSUME TypeInv, DataInv, NEW r \in Ends, NEW d, d = Peer(r), NEW z \in Sockets,
         chan[d][z] # <<>>, Pop(r, z), sent' = sent, got' = got, idOf' = idOf,
         NEW p, p = Head(chan[d][z]), p.type # "data" \/ d = Listener
  PROVE  DataInv'
<1>1. OnceInv'
  <2> SUFFICES ASSUME NEW e \in Ends, NEW g \in Streams
               PROVE
    /\ \A s \in Sockets : \A k \in DOMAIN chan'[e][s] :
         IsData(chan'[e][s][k], g) =>
           /\ chan'[e][s][k].n \in 1..sent'[e][g]
           /\ \A j \in DOMAIN got'[Peer(e)][g] : got'[Peer(e)][g][j].n # chan'[e][s][k].n
           /\ \A t \in Sockets : \A j \in DOMAIN chan'[e][t] :
                IsData(chan'[e][t][j], g) /\ chan'[e][t][j].n = chan'[e][s][k].n => s = t /\ j = k
    /\ \A j \in DOMAIN got'[Peer(e)][g] : got'[Peer(e)][g][j].n \in 1..sent'[e][g]
    /\ \A j, k \in DOMAIN got'[Peer(e)][g] :
         got'[Peer(e)][g][j].n = got'[Peer(e)][g][k].n => j = k
    BY DEF OnceInv, IsData
  <2>1. /\ \A j \in DOMAIN got[Peer(e)][g] : got[Peer(e)][g][j].n \in 1..sent[e][g]
        /\ \A j, k \in DOMAIN got[Peer(e)][g] :
             got[Peer(e)][g][j].n = got[Peer(e)][g][k].n => j = k
    BY DEF DataInv, OnceInv
  <2> QED BY <2>1, PopChannel
<1>2. CoverInv'
  <2> SUFFICES ASSUME NEW g \in Streams, NEW n \in 1..sent[Connector][g]
               PROVE  UnderWay(g, n)' \/ \E j \in DOMAIN got[Listener][g] : got[Listener][g][j].n = n
    BY DEF CoverInv
  <2>1. ~(d = Connector /\ IsData(p, g))
    BY Constants DEF IsData
  <2>2. UnderWay(g, n) \/ \E j \in DOMAIN got[Listener][g] : got[Listener][g][j].n = n
    BY DEF DataInv, CoverInv
  <2> QED BY <2>1, <2>2, PopCover
<1>3. OrderInv'
  <2> SUFFICES ASSUME NEW e \in Ends, NEW g \in Streams
               PROVE
    /\ \A s \in Sockets : \A k \in DOMAIN chan'[e][s] :
         IsData(chan'[e][s][k], g) /\ chan'[e][s][k].ordered =>
           /\ s = SocketOf(idOf'[g])
           /\ \A j \in DOMAIN got'[Peer(e)][g] :
                got'[Peer(e)][g][j].ordered => got'[Peer(e)][g][j].n < chan'[e][s][k].n
           /\ \A j \in DOMAIN chan'[e][s] :
                IsData(chan'[e][s][j], g) /\ chan'[e][s][j].ordered /\ j > k =>
                  chan'[e][s][k].n < chan'[e][s][j].n
    /\ \A j, k \in DOMAIN got'[Peer(e)][g] :
         got'[Peer(e)][g][j].ordered /\ got'[Peer(e)][g][k].ordered /\ j < k =>
           got'[Peer(e)][g][j].n < got'[Peer(e)][g][k].n
    BY DEF OrderInv, IsData
  <2>1. \A j, k \in DOMAIN got[Peer(e)][g] :
         got[Peer(e)][g][j].ordered /\ got[Peer(e)][g][k].ordered /\ j < k =>
           got[Peer(e)][g][j].n < got[Peer(e)][g][k].n
    BY DEF DataInv, OrderInv
  <2> QED BY <2>1, PopChannel
<1>4. NoMixup'
  BY DEF DataInv, NoMixup
<1> QED BY <1>1, <1>2, <1>3, <1>4 DEF DataInv

(***************************************************************************)
(* A packet is read and given to the callback of its stream.               *)
(***************************************************************************)
LEMMA PopDeliverData ==
  ASSUME TypeInv, DataInv, NEW r \in Ends, NEW d, d = Peer(r), NEW z \in Sockets,
         chan[d][z] # <<>>, Pop(r, z), NEW p, p = Head(chan[d][z]),
         NEW x \in Streams, IsData(p, x),
         sent' = sent, idOf' = idOf, got' = [got EXCEPT ![r][x] = Append(@, p)]
  PROVE  DataInv' /\ got' \in [Ends -> [Streams -> Seq(Packets)]]
<1>1. p \in Packets /\ p = chan[d][z][1] /\ 1 \in DOMAIN chan[d][z] /\ d \in Ends /\ Peer(d) = r
  BY PopEffect, Constants
<1>2. PICK q \in Seq(Packets) : q = got[r][x]
  BY DEF TypeInv
<1>3. /\ Append(q, p) \in Seq(Packets)
      /\ Len(q) \in Nat /\ DOMAIN q = 1..Len(q)
      /\ DOMAIN Append(q, p) = 1..(Len(q) + 1)
      /\ \A k \in 1..Len(q) : Append(q, p)[k] = q[k]
      /\ Append(q, p)[Len(q) + 1] = p
  BY <1>1, AppendFacts
<1>4. /\ got'[r][x] = Append(q, p)
      /\ \A e \in Ends, g \in Streams : e # r \/ g # x => got'[e][g] = got[e][g]
      /\ got' \in [Ends -> [Streams -> Seq(Packets)]]
  BY <1>2, <1>3 DEF TypeInv
<1>5. \A e \in Ends, g \in Streams : \A j \in DOMAIN got'[e][g] :
        \/ j \in DOMAIN got[e][g] /\ got'[e][g][j] = got[e][g][j]
        \/ e = r /\ g = x /\ j = Len(q) + 1 /\ got'[e][g][j] = p
  <2> SUFFICES ASSUME NEW e \in Ends, NEW g \in Streams, NEW j \in DOMAIN got'[e][g]
               PROVE  \/ j \in DOMAIN got[e][g] /\ got'[e][g][j] = got[e][g][j]
                      \/ e = r /\ g = x /\ j = Len(q) + 1 /\ got'[e][g][j] = p
    OBVIOUS
  <2>1. CASE e = r /\ g = x
    <3>1. j \in 1..(Len(q) + 1) /\ got[e][g] = q /\ got'[e][g] = Append(q, p)
      BY <1>2, <1>3, <1>4, <2>1
    <3>2. j = Len(q) + 1 \/ j \in 1..Len(q)
      BY <1>3, <3>1
    <3> QED BY <1>3, <2>1, <3>1, <3>2
  <2>2. CASE e # r \/ g # x
    BY <1>4, <2>2
  <2> QED BY <2>1, <2>2
<1>6. \A e \in Ends, g \in Streams : \A j \in DOMAIN got[e][g] :
        j \in DOMAIN got'[e][g] /\ got'[e][g][j] = got[e][g][j]
  <2> SUFFICES ASSUME NEW e \in Ends, NEW g \in Streams, NEW j \in DOMAIN got[e][g]
               PROVE  j \in DOMAIN got'[e][g] /\ got'[e][g][j] = got[e][g][j]
    OBVIOUS
  <2>1. CASE e = r /\ g = x
    <3>1. j \in 1..Len(q) /\ got[e][g] = q /\ got'[e][g] = Append(q, p)
      BY <1>2, <1>3, <1>4, <2>1
    <3>2. j \in 1..(Len(q) + 1)
      BY <1>3, <3>1
    <3> QED BY <1>3, <2>1, <3>1, <3>2
  <2>2. CASE e # r \/ g # x
    BY <1>4, <2>2
  <2> QED BY <2>1, <2>2
<1>7. /\ Len(q) + 1 \in DOMAIN got'[r][x] /\ got'[r][x][Len(q) + 1] = p
      /\ \A j \in DOMAIN got[r][x] : j \in Nat /\ j < Len(q) + 1
      /\ Len(q) + 1 \in Nat
  <2>1. Len(q) + 1 \in 1..(Len(q) + 1) /\ \A j \in 1..Len(q) : j \in Nat /\ j < Len(q) + 1
    BY <1>3
  <2> QED BY <1>2, <1>3, <1>4, <2>1
<1>8. PICK n0 : n0 = Len(q) + 1
  OBVIOUS
<1>9. \A e \in Ends : Peer(e) \in Ends /\ (Peer(e) = r <=> e = d)
  BY Constants
<1>10. /\ p.n \in 1..sent[d][x]
       /\ \A j \in DOMAIN got[r][x] : got[r][x][j].n # p.n
       /\ p.ordered => \A j \in DOMAIN got[r][x] : got[r][x][j].ordered => got[r][x][j].n < p.n
  BY <1>1 DEF DataInv, OnceInv, OrderInv
<1>11. OnceInv'
  <2> SUFFICES ASSUME NEW e \in Ends, NEW g \in Streams
               PROVE
    /\ \A s \in Sockets : \A k \in DOMAIN chan'[e][s] :
         IsData(chan'[e][s][k], g) =>
           /\ chan'[e][s][k].n \in 1..sent'[e][g]
           /\ \A j \in DOMAIN got'[Peer(e)][g] : got'[Peer(e)][g][j].n # chan'[e][s][k].n
           /\ \A t \in Sockets : \A j \in DOMAIN chan'[e][t] :
                IsData(chan'[e][t][j], g) /\ chan'[e][t][j].n = chan'[e][s][k].n => s = t /\ j = k
    /\ \A j \in DOMAIN got'[Peer(e)][g] : got'[Peer(e)][g][j].n \in 1..sent'[e][g]
    /\ \A j, k \in DOMAIN got'[Peer(e)][g] :
         got'[Peer(e)][g][j].n = got'[Peer(e)][g][k].n => j = k
    BY DEF OnceInv, IsData
  <2>1. /\ \A j \in DOMAIN got[Peer(e)][g] : got[Peer(e)][g][j].n \in 1..sent[e][g]
        /\ \A j, k \in DOMAIN got[Peer(e)][g] :
             got[Peer(e)][g][j].n = got[Peer(e)][g][k].n => j = k
    BY DEF DataInv, OnceInv
  <2>2. ASSUME NEW s \in Sockets, NEW k \in DOMAIN chan'[e][s], IsData(chan'[e][s][k], g),
               NEW j \in DOMAIN got'[Peer(e)][g]
        PROVE  got'[Peer(e)][g][j].n # chan'[e][s][k].n
    <3>1. CASE j \in DOMAIN got[Peer(e)][g] /\ got'[Peer(e)][g][j] = got[Peer(e)][g][j]
      BY <2>2, <3>1, PopChannel
    <3>2. CASE Peer(e) = r /\ g = x /\ got'[Peer(e)][g][j] = p
      <4>1. e = d /\ IsData(p, g)
        BY <1>9, <3>2
      <4>2. p.n # chan'[e][s][k].n
        BY <2>2, <4>1, PopChannel
      <4> QED BY <3>2, <4>2
    <3> QED BY <1>5, <1>9, <3>1, <3>2
  <2>a. PICK f : f = Peer(e)
    OBVIOUS
  <2>b. f \in Ends /\ (f = r => e = d)
    BY <1>9, <2>a
  <2>c. \A j \in DOMAIN got'[f][g] :
          \/ j \in DOMAIN got[f][g] /\ got'[f][g][j] = got[f][g][j]
          \/ f = r /\ g = x /\ j = n0 /\ got'[f][g][j] = p
    BY <1>5, <1>8, <2>b
  <2>3. ASSUME NEW j \in DOMAIN got'[Peer(e)][g] PROVE got'[Peer(e)][g][j].n \in 1..sent[e][g]
    <3>1. CASE j \in DOMAIN got[f][g] /\ got'[f][g][j] = got[f][g][j]
      BY <2>1, <2>a, <3>1
    <3>2. CASE f = r /\ g = x /\ j = n0 /\ got'[f][g][j] = p
      BY <1>10, <2>a, <2>b, <3>2
    <3> QED BY <2>a, <2>c, <3>1, <3>2
  <2>4. ASSUME NEW j \in DOMAIN got'[Peer(e)][g], NEW k \in DOMAIN got'[Peer(e)][g],
               got'[Peer(e)][g][j].n = got'[Peer(e)][g][k].n
        PROVE  j = k
    <3>1. CASE j \in DOMAIN got[f][g] /\ got'[f][g][j] = got[f][g][j]
      <4>1. CASE k \in DOMAIN got[f][g] /\ got'[f][g][k] = got[f][g][k]
        BY <2>1, <2>4, <2>a, <3>1, <4>1
      <4>2. CASE f = r /\ g = x /\ k = n0 /\ got'[f][g][k] = p
        BY <1>10, <2>4, <2>a, <3>1, <4>2
      <4> QED BY <2>a, <2>c, <4>1, <4>2
    <3>2. CASE f = r /\ g = x /\ j = n0 /\ got'[f][g][j] = p
      <4>1. CASE k \in DOMAIN got[f][g] /\ got'[f][g][k] = got[f][g][k]
        BY <1>10, <2>4, <2>a, <3>2, <4>1
      <4>2. CASE f = r /\ g = x /\ k = n0 /\ got'[f][g][k] = p
        BY <3>2, <4>2
      <4> QED BY <2>a, <2>c, <4>1, <4>2
    <3> QED BY <2>a, <2>c, <3>1, <3>2
  <2>5. ASSUME NEW s \in Sockets, NEW k \in DOMAIN chan'[e][s], IsData(chan'[e][s][k], g)
        PROVE  /\ chan'[e][s][k].n \in 1..sent[e][g]
               /\ \A t \in Sockets : \A j \in DOMAIN chan'[e][t] :
                    IsData(chan'[e][t][j], g) /\ chan'[e][t][j].n = chan'[e][s][k].n => s = t /\ j = k
    BY <2>5, PopChannel
  <2> QED BY <2>2, <2>3, <2>4, <2>5
<1>12. CoverInv'
  <2> SUFFICES ASSUME NEW g \in Streams, NEW n \in 1..sent[Connector][g]
               PROVE  UnderWay(g, n)' \/ \E j \in DOMAIN got'[Listener][g] : got'[Listener][g][j].n = n
    BY DEF CoverInv
  <2>1. CASE \E j \in DOMAIN got[Listener][g] : got[Listener][g][j].n = n
    BY <1>6, <2>1, Constants
  <2>2. CASE d = Connector /\ IsData(p, g) /\ p.n = n
    <3>1. r = Listener /\ g = x
      BY <1>1, <2>2, Constants DEF IsData
    <3> QED BY <1>7, <2>2, <3>1
  <2>3. CASE UnderWay(g, n)
    BY <2>2, <2>3, PopCover
  <2> QED BY <2>1, <2>3 DEF DataInv, CoverInv
<1>13. OrderInv'
  <2> SUFFICES ASSUME NEW e \in Ends, NEW g \in Streams
               PROVE
    /\ \A s \in Sockets : \A k \in DOMAIN chan'[e][s] :
         IsData(chan'[e][s][k], g) /\ chan'[e][s][k].ordered =>
           /\ s = SocketOf(idOf'[g])
           /\ \A j \in DOMAIN got'[Peer(e)][g] :
                got'[Peer(e)][g][j].ordered => got'[Peer(e)][g][j].n < chan'[e][s][k].n
           /\ \A j \in DOMAIN chan'[e][s] :
                IsData(chan'[e][s][j], g) /\ chan'[e][s][j].ordered /\ j > k =>
                  chan'[e][s][k].n < chan'[e][s][j].n
    /\ \A j, k \in DOMAIN got'[Peer(e)][g] :
         got'[Peer(e)][g][j].ordered /\ got'[Peer(e)][g][k].ordered /\ j < k =>
           got'[Peer(e)][g][j].n < got'[Peer(e)][g][k].n
    BY DEF OrderInv, IsData
  <2>1. \A j, k \in DOMAIN got[Peer(e)][g] :
         got[Peer(e)][g][j].ordered /\ got[Peer(e)][g][k].ordered /\ j < k =>
           got[Peer(e)][g][j].n < got[Peer(e)][g][k].n
    BY DEF DataInv, OrderInv
  <2>a. PICK f : f = Peer(e)
    OBVIOUS
  <2>b. f \in Ends /\ (f = r => e = d)
    BY <1>9, <2>a
  <2>c. \A j \in DOMAIN got'[f][g] :
          \/ j \in DOMAIN got[f][g] /\ got'[f][g][j] = got[f][g][j]
          \/ f = r /\ g = x /\ j = n0 /\ got'[f][g][j] = p
    BY <1>5, <1>8, <2>b
  <2>2. ASSUME NEW s \in Sockets, NEW k \in DOMAIN chan'[e][s], IsData(chan'[e][s][k], g),
               chan'[e][s][k].ordered
        PROVE  /\ s = SocketOf(idOf[g])
               /\ \A j \in DOMAIN got[f][g] : got[f][g][j].ordered => got[f][g][j].n < chan'[e][s][k].n
               /\ \A j \in DOMAIN chan'[e][s] :
                    IsData(chan'[e][s][j], g) /\ chan'[e][s][j].ordered /\ j > k =>
                      chan'[e][s][k].n < chan'[e][s][j].n
               /\ e = d /\ IsData(p, g) /\ p.ordered => p.n < chan'[e][s][k].n
    <3> HIDE DEF IsData
    <3> QED BY <2>2, <2>a, PopChannel
  <2>3. ASSUME NEW s \in Sockets, NEW k \in DOMAIN chan'[e][s], IsData(chan'[e][s][k], g),
               chan'[e][s][k].ordered, NEW j \in DOMAIN got'[f][g], got'[f][g][j].ordered
        PROVE  got'[f][g][j].n < chan'[e][s][k].n
    <3>1. CASE j \in DOMAIN got[f][g] /\ got'[f][g][j] = got[f][g][j]
      BY <2>2, <2>3, <3>1
    <3>2. CASE f = r /\ g = x /\ j = n0 /\ got'[f][g][j] = p
      BY <2>2, <2>3, <2>b, <3>2
    <3> QED BY <2>c, <3>1, <3>2
  <2>4. ASSUME NEW j \in DOMAIN got'[f][g], NEW k \in DOMAIN got'[f][g],
               got'[f][g][j].ordered, got'[f][g][k].ordered, j < k
        PROVE  got'[f][g][j].n < got'[f][g][k].n
    <3>1. CASE j \in DOMAIN got[f][g] /\ got'[f][g][j] = got[f][g][j]
      <4>1. CASE k \in DOMAIN got[f][g] /\ got'[f][g][k] = got[f][g][k]
        BY <2>1, <2>4, <2>a, <3>1, <4>1
      <4>2. CASE f = r /\ g = x /\ k = n0 /\ got'[f][g][k] = p
        BY <1>10, <2>4, <3>1, <4>2
      <4> QED BY <2>c, <4>1, <4>2
    <3>2. CASE f = r /\ g = x /\ j = n0
      <4>1. k = n0 \/ k \in DOMAIN got[r][x]
        BY <2>c, <3>2
      <4>2. n0 \in Nat /\ (k = n0 \/ (k \in Nat /\ k < n0))
        BY <1>7, <1>8, <4>1
      <4> QED BY <2>4, <3>2, <4>2
    <3> QED BY <2>c, <3>1, <3>2
  <2> QED BY <2>2, <2>3, <2>4, <2>a
<1>14. NoMixup'
  <2>1. p.stream = x
    BY DEF IsData
  <2> QED BY <1>5, <2>1 DEF DataInv, NoMixup
<1> QED BY <1>4, <1>11, <1>12, <1>13, <1>14 DEF DataInv

-----------------------------------------------------------------------------
(* The parts of the invariant that a step leaves alone *)

(***************************************************************************)
(* The counts of control packets (mAckedClosingStreams) agree with what    *)
(* was read as long as no control packet is read and no counter moves.     *)
(***************************************************************************)
LEMMA CountFrame ==
  ASSUME NEW g \in Streams, CountOK(g), CloseRead(g)' = CloseRead(g), Heard(g)' <=> Heard(g),
         AckSame(g), idOf'[g] = idOf[g],
         \A s \in CloseRead(g) : Clear(Connector, s, g) => Clear(Connector, s, g)',
         \A s \in AckRead(g) : Clear(Listener, s, g) => Clear(Listener, s, g)',
         \A e \in Ends : ms'[e].acked[idOf[g]] = ms[e].acked[idOf[g]]
  PROVE  CountOK(g)'
<1>1. Connector \in Ends /\ Listener \in Ends
  BY Constants
<1>2. /\ ms'[Listener].acked[idOf[g]] = ms[Listener].acked[idOf[g]]
      /\ ms'[Connector].acked[idOf[g]] = ms[Connector].acked[idOf[g]]
  BY <1>1
<1> QED BY <1>2 DEF CountOK, AckSame

(***************************************************************************)
(* A step that leaves a stream of the connecting end and its callback      *)
(* alone keeps what is said of it.                                         *)
(***************************************************************************)
LEMMA ConnectorFrame ==
  ASSUME NEW g \in Streams, ConnectorOK(g), closing'[Connector][g] = closing[Connector][g],
         status'[Connector][g] = status[Connector][g], idOf'[g] = idOf[g],
         told'[Connector][g] = told[Connector][g], Live(g)' <=> Live(g),
         Live(g) => /\ View(Connector)'.callbacks[idOf[g]] = View(Connector).callbacks[idOf[g]]
                    /\ idOf[g] \in View(Connector).oneSided => idOf[g] \in View(Connector)'.oneSided
  PROVE  ConnectorOK(g)'
<1>1. PICK v, w : v = View(Connector) /\ w = View(Connector)'
  OBVIOUS
<1> QED BY <1>1 DEF ConnectorOK

(***************************************************************************)
(* A step that leaves a stream of the listening end and its callback alone *)
(* keeps what is said of it.                                               *)
(***************************************************************************)
LEMMA ListenerFrame ==
  ASSUME NEW g \in Streams, ListenerOK(g), closing'[Listener][g] = closing[Listener][g],
         status'[Listener][g] = status[Listener][g], idOf'[g] = idOf[g],
         told'[Listener][g] = told[Listener][g], Live(g)' <=> Live(g), Heard(g)' <=> Heard(g),
         Busy(g)' <=> Busy(g), Busy(g) => reactor'[Listener] = reactor[Listener],
         Live(g) => View(Listener)'.callbacks[idOf[g]] = View(Listener).callbacks[idOf[g]]
  PROVE  ListenerOK(g)'
<1>1. PICK v, w : v = View(Listener) /\ w = View(Listener)'
  OBVIOUS
<1> QED BY <1>1 DEF ListenerOK

(***************************************************************************)
(* An id that stands for no live stream has no callback and no count as    *)
(* long as no id changes hands.                                            *)
(***************************************************************************)
LEMMA UnusedFrame ==
  ASSUME UnusedInv, idOf' = idOf, \A g \in Streams : Live(g)' <=> Live(g),
         \A e \in Ends : /\ ms'[e].acked = ms[e].acked
                         /\ View(e)'.callbacks = View(e).callbacks
  PROVE  UnusedInv'
BY DEF UnusedInv

(***************************************************************************)
(* The committed state of an end changes only with its MultiplexedSocket.  *)
(***************************************************************************)
LEMMA SameView ==
  ASSUME NEW e, ms'[e] = ms[e]
  PROVE  View(e)' = View(e)
BY DEF View

(***************************************************************************)
(* A stream whose id, Close and Ack are left alone keeps its packets well  *)
(* placed.                                                                 *)
(***************************************************************************)
LEMMA KeepsSame ==
  ASSUME NEW g, CloseSame(g), AckSame(g), idOf'[g] = idOf[g], Live(g)' <=> Live(g)
  PROVE  Keeps(g)
BY DEF Keeps, CloseSame, AckSame

-----------------------------------------------------------------------------
(* The steps *)

(***************************************************************************)
(* Only a live stream is open, and nothing of it can come behind its Close *)
(* or its Ack.                                                             *)
(***************************************************************************)
LEMMA OpenStream ==
  ASSUME IInv, NEW e \in Ends, NEW g \in Streams, status[e][g] = "open"
  PROVE  /\ Live(g)
         /\ e = Connector => CloseSent(g) = {}
         /\ e = Listener => ~Heard(g) /\ AckSent(g) = {}
<1>1. ConnectorOK(g) /\ ListenerOK(g) /\ TypeInv
  BY DEF IInv, ControlInv, ConnectorInv, ListenerInv
<1>2. Live(g)
  BY <1>1, Constants DEF ConnectorOK, ListenerOK
<1>3. e = Connector => closing[Connector][g].step = "no"
  BY <1>1 DEF ConnectorOK
<1>4. e = Listener => ~Heard(g)
  BY <1>1, <1>2 DEF ListenerOK
<1> QED BY <1>1, <1>2, <1>3, <1>4, SocketSets

(***************************************************************************)
(* TCPStream::send: the stream is open, so no Close or Ack of it is on the *)
(* socket the packet takes.                                                *)
(***************************************************************************)
LEMMA SendStep ==
  ASSUME IInv, NEW e \in Ends, NEW g \in Streams, Send(e, g)
  PROVE  IInv'
<1>1. TypeInv /\ ControlInv /\ DataInv
  BY DEF IInv
<1>2. /\ ms' = ms /\ reactor' = reactor /\ idOf' = idOf /\ status' = status
      /\ closing' = closing /\ got' = got /\ told' = told
      /\ sent' = [sent EXCEPT ![e][g] = @ + 1] /\ status[e][g] = "open"
  BY DEF Send
<1>3. PICK ordered \in BOOLEAN : \E s \in Sockets :
        /\ ordered => s = SocketOf(idOf[g])
        /\ Put(e, s, Data(g, sent[e][g] + 1, ordered))
  BY DEF Send
<1>4. PICK s \in Sockets : /\ ordered => s = SocketOf(idOf[g])
                           /\ Put(e, s, Data(g, sent[e][g] + 1, ordered))
  BY <1>3
<1>5. /\ Live(g)
      /\ e = Connector => CloseSent(g) = {}
      /\ e = Listener => ~Heard(g) /\ AckSent(g) = {}
  BY <1>2, OpenStream
<1>6. PICK m : m = Data(g, sent[e][g] + 1, ordered)
  OBVIOUS
<1>7. /\ m \in Packets /\ m.type = "data" /\ m.stream = g /\ m.n = sent[e][g] + 1
      /\ m.id = idOf[g] /\ m.ordered = ordered
  <2>1. idOf[g] \in Ids /\ sent[e][g] + 1 \in Nat
    BY <1>1, <1>5, LiveId DEF TypeInv
  <2> QED BY <1>6, <2>1 DEF Data, Packets
<1>8. Put(e, s, m)
  BY <1>4, <1>6
<1>9. DataInv'
  BY <1>1, <1>2, <1>4, <1>7, <1>8, SendData
<1>10. TypeInv'
  <2>1. chan' \in [Ends -> [Sockets -> Seq(Packets)]]
    BY <1>1, <1>7, <1>8, PutEffect
  <2>2. sent' \in [Ends -> [Streams -> Nat]]
    BY <1>1, <1>2 DEF TypeInv
  <2> QED BY <1>1, <1>2, <2>1, <2>2 DEF TypeInv
<1>11. ASSUME NEW x \in Streams
       PROVE  CloseSame(x) /\ AckSame(x) /\ (Live(x)' <=> Live(x)) /\ (Busy(x)' <=> Busy(x))
  <2>1. \A d \in Ends, z \in Sockets : \A type \in {"close", "ack"} :
          Holding(d, z, x, type)' <=> Holding(d, z, x, type)
    BY <1>1, <1>7, <1>8, PutHolding
  <2>2. CloseSame(x)
    BY <1>2, <2>1, CloseSentFrame, CloseFrame, Constants
  <2>3. Busy(x)' <=> Busy(x)
    BY <1>2 DEF Busy
  <2>4. AckSent(x)' = AckSent(x)
    BY <1>2, <2>2, <2>3, AckSentFrame DEF CloseSame
  <2>5. AckSame(x)
    BY <2>1, <2>2, <2>4, AckFrame, Constants
  <2>6. Live(x)' <=> Live(x)
    BY <1>2, LiveFrame
  <2> QED BY <2>2, <2>3, <2>5, <2>6
<1>12. \A d : View(d)' = View(d)
  BY <1>2, SameView
<1>13. CreatedInv' /\ FreeInv'
  BY <1>1, <1>2, IdsFrame DEF ControlInv
<1>14. PacketInv'
  <2>1. \A x \in Streams : Keeps(x)
    BY <1>2, <1>11, KeepsSame
  <2>2. ASSUME NEW type \in {"close", "ack"} PROVE ~Holding(e, s, g, type)
    <3>1. SUFFICES ASSUME NEW k \in DOMAIN chan[e][s],
                          chan[e][s][k].stream = g, chan[e][s][k].type = type
                   PROVE  FALSE
      BY DEF Holding
    <3>2. PacketOK(e, s, k)
      BY <1>1 DEF ControlInv, PacketInv
    <3> QED BY <1>5, <3>1, <3>2, Constants DEF PacketOK
  <2>3. Live(m.stream)' /\ m.id = idOf'[m.stream]
    BY <1>2, <1>5, <1>7, <1>11
  <2> QED BY <1>1, <1>7, <1>8, <2>1, <2>2, <2>3, PutPackets DEF ControlInv
<1>15. CountInv'
  <2> SUFFICES ASSUME NEW x \in Streams, Live(x)' PROVE CountOK(x)'
    BY DEF CountInv
  <2>1. CountOK(x)
    BY <1>1, <1>11 DEF ControlInv, CountInv
  <2>2. ASSUME NEW z \in CloseRead(x), Clear(Connector, z, x) PROVE Clear(Connector, z, x)'
    <3>1. z \in CloseSent(x) /\ z \in Sockets
      BY <1>1, SocketSets
    <3> QED BY <1>1, <1>5, <1>7, <1>8, <2>2, <3>1, PutHolding, Constants
  <2>3. ASSUME NEW z \in AckRead(x), Clear(Listener, z, x) PROVE Clear(Listener, z, x)'
    <3>1. z \in AckSent(x) /\ z \in Sockets
      BY <1>1, SocketSets
    <3> QED BY <1>1, <1>5, <1>7, <1>8, <2>3, <3>1, PutHolding, Constants
  <2> QED BY <1>2, <1>11, <2>1, <2>2, <2>3, CountFrame DEF CloseSame
<1>16. UnusedInv'
  BY <1>1, <1>2, <1>11, <1>12, UnusedFrame DEF ControlInv
<1>17. ConnectorInv'
  <2>1. \A x \in Streams : ConnectorOK(x)'
    BY <1>1, <1>2, <1>11, <1>12, ConnectorFrame DEF ControlInv, ConnectorInv
  <2> QED BY <1>1, <1>2, <2>1 DEF ControlInv, ConnectorInv
<1>18. ListenerInv'
  <2>1. \A x \in Streams : ListenerOK(x)'
    BY <1>1, <1>2, <1>11, <1>12, ListenerFrame DEF ControlInv, ListenerInv, CloseSame
  <2>2. \A x \in Streams : Heard(x)' <=> Heard(x)
    BY <1>11 DEF CloseSame
  <2> QED BY <1>1, <1>2, <1>11, <1>12, <2>1, <2>2 DEF ControlInv, ListenerInv
<1> QED BY <1>9, <1>10, <1>13, <1>14, <1>15, <1>16, <1>17, <1>18 DEF IInv, ControlInv

(***************************************************************************)
(* The first part of close(): mSendStatus is closed, and nothing is sent   *)
(* on the stream from here on.                                             *)
(***************************************************************************)
LEMMA CloseSendStatusStep ==
  ASSUME IInv, OneEndOpensAndCloses, NEW e \in Ends, NEW g \in Streams, CloseSendStatus(e, g)
  PROVE  IInv'
<1>1. TypeInv /\ ControlInv /\ DataInv /\ e = Connector
  BY DEF IInv, OneEndOpensAndCloses, CloseSendStatus
<1>2. /\ chan' = chan /\ ms' = ms /\ reactor' = reactor /\ idOf' = idOf /\ got' = got
      /\ told' = told /\ sent' = sent
      /\ status[Connector][g] # "none" /\ closing[Connector][g].step = "no"
      /\ status' = [status EXCEPT ![Connector][g] = "closed"]
      /\ closing' = [closing EXCEPT ![Connector][g].step = "unregister"]
  BY <1>1 DEF CloseSendStatus, ghostVars
<1>3. /\ status'[Listener] = status[Listener] /\ closing'[Listener] = closing[Listener]
      /\ status'[Connector][g] = "closed"
      /\ closing'[Connector][g] = [closing[Connector][g] EXCEPT !.step = "unregister"]
      /\ \A x \in Streams : x # g => /\ status'[Connector][x] = status[Connector][x]
                                     /\ closing'[Connector][x] = closing[Connector][x]
      /\ closing[Connector][g] \in Closings
  <2>1. /\ status \in [Ends -> [Streams -> {"none", "open", "closed"}]]
        /\ closing \in [Ends -> [Streams -> Closings]]
        /\ Connector \in Ends /\ Listener \in Ends /\ Connector # Listener
    BY <1>1, Constants DEF TypeInv
  <2>2. PICK c : c = [closing[Connector][g] EXCEPT !.step = "unregister"]
    OBVIOUS
  <2>3. closing' = [closing EXCEPT ![Connector][g] = c]
    BY <1>2, <2>2
  <2> QED BY <1>2, <2>1, <2>2, <2>3
<1>4. /\ closing'[Connector][g].step = "unregister"
      /\ closing'[Connector][g].next = closing[Connector][g].next
      /\ closing'[Connector][g] \in Closings
  BY <1>3 DEF Closings
<1>5. TypeInv'
  <2>1. status' \in [Ends -> [Streams -> {"none", "open", "closed"}]]
    BY <1>1, <1>2, Constants DEF TypeInv
  <2>2. closing' \in [Ends -> [Streams -> Closings]]
    BY <1>1, <1>2, <1>3, <1>4, Constants DEF TypeInv
  <2> QED BY <1>1, <1>2, <2>1, <2>2 DEF TypeInv
<1>6. DataInv'
  BY <1>1, <1>2, SameData
<1>7. \A x \in Streams : \A type : \A d \in Ends, z \in Sockets :
        /\ Holding(d, z, x, type)' <=> Holding(d, z, x, type)
        /\ Clear(d, z, x)' <=> Clear(d, z, x)
  BY <1>2 DEF Holding, Clear
<1>8. ASSUME NEW x \in Streams
      PROVE  CloseSame(x) /\ AckSame(x) /\ (Live(x)' <=> Live(x)) /\ (Busy(x)' <=> Busy(x))
  <2>1. CloseSent(x)' = CloseSent(x)
    <3>1. CASE x = g
      BY <1>2, <1>4, <3>1 DEF CloseSent
    <3>2. CASE x # g
      BY <1>3, <3>2, CloseSentFrame
    <3> QED BY <3>1, <3>2
  <2>2. CloseSame(x)
    BY <1>7, <2>1, CloseFrame, Constants
  <2>3. Busy(x)' <=> Busy(x)
    BY <1>2 DEF Busy
  <2>4. AckSent(x)' = AckSent(x)
    BY <1>2, <2>2, <2>3, AckSentFrame DEF CloseSame
  <2>5. AckSame(x)
    BY <1>7, <2>2, <2>4, AckFrame, Constants
  <2>6. Live(x)' <=> Live(x)
    BY <1>2, LiveFrame
  <2> QED BY <2>2, <2>3, <2>5, <2>6
<1>9. \A d : View(d)' = View(d)
  BY <1>2, SameView
<1>10. CreatedInv' /\ FreeInv'
  BY <1>1, <1>2, IdsFrame DEF ControlInv
<1>11. PacketInv'
  BY <1>1, <1>2, <1>8, KeepsSame, SamePackets DEF ControlInv
<1>12. CountInv'
  <2> SUFFICES ASSUME NEW x \in Streams, Live(x)' PROVE CountOK(x)'
    BY DEF CountInv
  <2>1. CountOK(x)
    BY <1>1, <1>8 DEF ControlInv, CountInv
  <2>2. CloseRead(x) \subseteq Sockets /\ AckRead(x) \subseteq Sockets
    BY <1>1, SocketSets
  <2> QED BY <1>2, <1>7, <1>8, <2>1, <2>2, CountFrame, Constants DEF CloseSame
<1>13. UnusedInv'
  BY <1>1, <1>2, <1>8, <1>9, UnusedFrame DEF ControlInv
<1>14. ConnectorInv'
  <2>1. ASSUME NEW x \in Streams PROVE ConnectorOK(x)'
    <3>1. ConnectorOK(x)
      BY <1>1 DEF ControlInv, ConnectorInv
    <3>2. CASE x = g
      BY <1>2, <1>3, <1>4, <1>8, <1>9, <3>1, <3>2 DEF ConnectorOK
    <3>3. CASE x # g
      BY <1>2, <1>3, <1>8, <1>9, <3>1, <3>3, ConnectorFrame
    <3> QED BY <3>2, <3>3
  <2> QED BY <1>1, <1>2, <2>1 DEF ControlInv, ConnectorInv
<1>15. ListenerInv'
  <2>1. \A x \in Streams : ListenerOK(x)'
    BY <1>1, <1>2, <1>3, <1>8, <1>9, ListenerFrame DEF ControlInv, ListenerInv, CloseSame
  <2>2. \A x \in Streams : Heard(x)' <=> Heard(x)
    BY <1>8 DEF CloseSame
  <2> QED BY <1>1, <1>2, <1>8, <1>9, <2>1, <2>2 DEF ControlInv, ListenerInv
<1> QED BY <1>5, <1>6, <1>10, <1>11, <1>12, <1>13, <1>14, <1>15 DEF IInv, ControlInv

(***************************************************************************)
(* The second part of close(): addCallbacks with a NULL callback.  The id  *)
(* is closing at this end once the registration is committed.              *)
(***************************************************************************)
LEMMA UnregisterStep ==
  ASSUME IInv, NEW e \in Ends, NEW g \in Streams, Unregister(e, g)
  PROVE  IInv'
<1>1. TypeInv /\ ControlInv /\ DataInv
  BY DEF IInv
<1>2. e = Connector
  <2>1. closing[Listener][g].step = "no"
    BY <1>1 DEF ControlInv, ListenerInv, ListenerOK
  <2> QED BY <2>1, Constants DEF Unregister
<1>3. /\ chan' = chan /\ reactor' = reactor /\ idOf' = idOf /\ got' = got
      /\ told' = told /\ sent' = sent /\ status' = status
      /\ closing[Connector][g].step = "unregister"
      /\ ms' = [ms EXCEPT ![Connector] = Registered(ms[Connector], idOf[g], None)]
      /\ closing' = [closing EXCEPT ![Connector][g].step = "announce"]
  BY <1>2 DEF Unregister, ghostVars
<1>4. /\ closing'[Listener] = closing[Listener]
      /\ closing'[Connector][g] = [closing[Connector][g] EXCEPT !.step = "announce"]
      /\ \A x \in Streams : x # g => closing'[Connector][x] = closing[Connector][x]
      /\ closing[Connector][g] \in Closings
      /\ ms'[Listener] = ms[Listener]
      /\ ms'[Connector] = Registered(ms[Connector], idOf[g], None)
  <2>1. /\ ms \in [Ends -> SocketStates]
        /\ closing \in [Ends -> [Streams -> Closings]]
        /\ Connector \in Ends /\ Listener \in Ends /\ Connector # Listener
    BY <1>1, Constants DEF TypeInv
  <2>2. PICK c : c = [closing[Connector][g] EXCEPT !.step = "announce"]
    OBVIOUS
  <2>3. closing' = [closing EXCEPT ![Connector][g] = c]
    BY <1>3, <2>2
  <2> QED BY <1>3, <2>1, <2>2, <2>3
<1>5. /\ closing'[Connector][g].step = "announce"
      /\ closing'[Connector][g].next = closing[Connector][g].next
      /\ closing'[Connector][g] \in Closings
  BY <1>4 DEF Closings
<1>6. ConnectorOK(g)
  BY <1>1 DEF ControlInv, ConnectorInv
<1>7. closing[Connector][g].next = 1 /\ Live(g) /\ View(Connector).callbacks[idOf[g]] = g
  BY <1>3, <1>6 DEF ConnectorOK
<1>8. idOf[g] \in Ids /\ ms[Connector] \in SocketStates /\ None \in Streams \cup {None}
  BY <1>1, <1>7, LiveId, Constants DEF TypeInv
<1>9. /\ ms'[Connector] \in SocketStates
      /\ View(Connector)' = CommitCallback(View(Connector), [id |-> idOf[g], stream |-> None])
      /\ View(Connector) \in SocketStates
  BY <1>4, <1>8, CommittedAppend, CommittedType DEF View
<1>10. /\ View(Connector)'.callbacks = [View(Connector).callbacks EXCEPT ![idOf[g]] = None]
       /\ View(Connector)'.oneSided = View(Connector).oneSided \cup {idOf[g]}
  <2>1. PICK v, w : v = View(Connector) /\ w = View(Connector)'
    OBVIOUS
  <2>2. w = CommitCallback(v, [id |-> idOf[g], stream |-> None]) /\ v \in SocketStates
    BY <1>9, <2>1
  <2>3. w.callbacks = [v.callbacks EXCEPT ![idOf[g]] = None] /\ w.oneSided = v.oneSided \cup {idOf[g]}
    BY <2>2, Zenon DEF CommitCallback, SocketStates
  <2> QED BY <2>1, <2>3
<1>11. /\ View(Connector)'.callbacks[idOf[g]] = None
       /\ idOf[g] \in View(Connector)'.oneSided
       /\ \A i \in Ids : i # idOf[g] => View(Connector)'.callbacks[i] = View(Connector).callbacks[i]
       /\ \A i : i \in View(Connector).oneSided => i \in View(Connector)'.oneSided
  <2>1. PICK v, w : v = View(Connector) /\ w = View(Connector)'
    OBVIOUS
  <2>2. v.callbacks \in [Ids -> Streams \cup {None}]
    BY <1>9, <2>1 DEF SocketStates
  <2> QED BY <1>8, <1>10, <2>1, <2>2
<1>12. /\ ms'[Connector].free = ms[Connector].free /\ ms'[Connector].acked = ms[Connector].acked
       /\ ms'[Connector].highest = ms[Connector].highest
  BY <1>4, <1>8 DEF Registered, SocketStates
<1>13. TypeInv'
  <2>1. ms' \in [Ends -> SocketStates]
    BY <1>1, <1>3, <1>4, <1>9, Constants DEF TypeInv
  <2>2. closing' \in [Ends -> [Streams -> Closings]]
    BY <1>1, <1>3, <1>4, <1>5, Constants DEF TypeInv
  <2> QED BY <1>1, <1>3, <2>1, <2>2 DEF TypeInv
<1>14. DataInv'
  BY <1>1, <1>3, SameData
<1>15. \A x \in Streams : \A type : \A d \in Ends, z \in Sockets :
         /\ Holding(d, z, x, type)' <=> Holding(d, z, x, type)
         /\ Clear(d, z, x)' <=> Clear(d, z, x)
  BY <1>3 DEF Holding, Clear
<1>16. ASSUME NEW x \in Streams
       PROVE  CloseSame(x) /\ AckSame(x) /\ (Live(x)' <=> Live(x)) /\ (Busy(x)' <=> Busy(x))
  <2>1. CloseSent(x)' = CloseSent(x)
    <3>1. CASE x = g
      <4>1. ASSUME NEW s \in Sockets PROVE ~(Position(s) < 1)
        <5>1. PICK k \in Sockets : k = Position(s)
          BY PositionFacts
        <5>2. k \in Nat /\ 1 <= k
          BY PositionFacts
        <5> QED BY <5>1, <5>2
      <4>2. CloseSent(g) = {}
        BY <1>3 DEF CloseSent
      <4>3. CloseSent(g)' = {}
        BY <1>5, <1>7, <4>1 DEF CloseSent
      <4> QED BY <3>1, <4>2, <4>3
    <3>2. CASE x # g
      BY <1>4, <3>2, CloseSentFrame
    <3> QED BY <3>1, <3>2
  <2>2. CloseSame(x)
    BY <1>15, <2>1, CloseFrame, Constants
  <2>3. Busy(x)' <=> Busy(x)
    BY <1>3 DEF Busy
  <2>4. AckSent(x)' = AckSent(x)
    BY <1>3, <2>2, <2>3, AckSentFrame DEF CloseSame
  <2>5. AckSame(x)
    BY <1>15, <2>2, <2>4, AckFrame, Constants
  <2>6. Live(x)' <=> Live(x)
    BY <1>3, <1>12, LiveFrame
  <2> QED BY <2>2, <2>3, <2>5, <2>6
<1>17. View(Listener)' = View(Listener)
  BY <1>4, SameView
<1>18. CreatedInv' /\ FreeInv'
  BY <1>1, <1>3, <1>4, <1>12, IdsFrame DEF ControlInv
<1>19. PacketInv'
  BY <1>1, <1>3, <1>16, KeepsSame, SamePackets DEF ControlInv
<1>20. CountInv'
  <2> SUFFICES ASSUME NEW x \in Streams, Live(x)' PROVE CountOK(x)'
    BY DEF CountInv
  <2>1. CountOK(x)
    BY <1>1, <1>16 DEF ControlInv, CountInv
  <2>2. CloseRead(x) \subseteq Sockets /\ AckRead(x) \subseteq Sockets
    BY <1>1, SocketSets
  <2>3. \A d \in Ends : ms'[d].acked[idOf[x]] = ms[d].acked[idOf[x]]
    BY <1>4, <1>12, Constants
  <2> QED BY <1>3, <1>15, <1>16, <2>1, <2>2, <2>3, CountFrame, Constants DEF CloseSame
<1>21. UnusedInv'
  <2> SUFFICES ASSUME NEW i \in Ids, \A x \in Streams : Live(x) => idOf[x] # i, NEW d \in Ends
               PROVE  ms'[d].acked[i] = 0 /\ View(d)'.callbacks[i] = None
    BY <1>3, <1>16 DEF UnusedInv
  <2>1. ms[d].acked[i] = 0 /\ View(d).callbacks[i] = None
    BY <1>1 DEF ControlInv, UnusedInv
  <2>2. i # idOf[g]
    BY <1>7
  <2>3. CASE d = Connector
    BY <1>11, <1>12, <2>1, <2>2, <2>3
  <2>4. CASE d = Listener
    BY <1>4, <1>17, <2>1, <2>4
  <2> QED BY <2>3, <2>4, Constants
<1>22. ConnectorInv'
  <2>1. ASSUME NEW x \in Streams PROVE ConnectorOK(x)'
    <3>1. ConnectorOK(x)
      BY <1>1 DEF ControlInv, ConnectorInv
    <3>2. CASE x = g
      <4>1. /\ View(Connector)'.callbacks[idOf[g]] = None
            /\ idOf[g] \in View(Connector)'.oneSided
        BY <1>11
      <4> QED BY <1>3, <1>5, <1>7, <1>16, <3>1, <3>2, <4>1 DEF ConnectorOK
    <3>3. CASE x # g
      <4>1. Live(x) => idOf[x] \in Ids /\ idOf[x] # idOf[g]
        BY <1>1, <1>7, <3>3, LiveUnique, LiveId
      <4>2. Live(x) => /\ View(Connector)'.callbacks[idOf[x]] = View(Connector).callbacks[idOf[x]]
                       /\ idOf[x] \in View(Connector).oneSided => idOf[x] \in View(Connector)'.oneSided
        BY <1>11, <4>1
      <4> QED BY <1>3, <1>4, <1>16, <3>1, <3>3, <4>2, ConnectorFrame
    <3> QED BY <3>2, <3>3
  <2> QED BY <1>1, <1>3, <2>1 DEF ControlInv, ConnectorInv
<1>23. ListenerInv'
  <2>1. \A x \in Streams : ListenerOK(x)'
    BY <1>1, <1>3, <1>4, <1>16, <1>17, ListenerFrame DEF ControlInv, ListenerInv, CloseSame
  <2>2. \A x \in Streams : Heard(x)' <=> Heard(x)
    BY <1>16 DEF CloseSame
  <2> QED BY <1>1, <1>3, <1>16, <1>17, <2>1, <2>2 DEF ControlInv, ListenerInv
<1> QED BY <1>13, <1>14, <1>18, <1>19, <1>20, <1>21, <1>22, <1>23 DEF IInv, ControlInv

(***************************************************************************)
(* The last part of close(): closeStream writes the Close to the next      *)
(* socket of the broadcast.                                                *)
(***************************************************************************)
LEMMA AnnounceCloseStep ==
  ASSUME IInv, NEW e \in Ends, NEW g \in Streams, AnnounceClose(e, g)
  PROVE  IInv'
<1>1. TypeInv /\ ControlInv /\ DataInv
  BY DEF IInv
<1>2. e = Connector
  <2>1. closing[Listener][g].step = "no"
    BY <1>1 DEF ControlInv, ListenerInv, ListenerOK
  <2> QED BY <2>1, Constants DEF AnnounceClose
<1>3. PICK c, b : c = closing[Connector][g] /\ b = Further(c, "done")
  OBVIOUS
<1>4. PICK z : z = BroadcastSocket(c.next)
  OBVIOUS
<1>5. PICK m : m = Control("close", idOf[g], g)
  OBVIOUS
<1>6. /\ ms' = ms /\ reactor' = reactor /\ idOf' = idOf /\ got' = got
      /\ told' = told /\ sent' = sent /\ status' = status
      /\ c.step = "announce" /\ Put(Connector, z, m)
      /\ closing' = [closing EXCEPT ![Connector][g] = b]
  BY <1>2, <1>3, <1>4, <1>5 DEF AnnounceClose, ghostVars
<1>7. c \in Closings /\ c.next \in Sockets /\ z \in Sockets /\ Position(z) = c.next
  <2>1. c \in Closings
    BY <1>1, <1>3, Constants DEF TypeInv
  <2>2. c.next \in Sockets
    BY <2>1 DEF Closings
  <2> QED BY <1>4, <2>1, <2>2, PositionFacts
<1>8. /\ c.next = NumSockets => b.step = "done" /\ b.next = 1
      /\ c.next # NumSockets => b.step = "announce" /\ b.next = c.next + 1
      /\ b \in Closings
  <2>1. CASE c.next = NumSockets
    BY <1>3, <1>7, <2>1, Constants DEF Further, Closings
  <2>2. CASE c.next # NumSockets
    <3>1. c.next + 1 \in Sockets
      BY <1>7, <2>2, LifecycleAssumption DEF Sockets
    <3> QED BY <1>3, <1>6, <1>7, <2>2, <3>1 DEF Further, Closings
  <2> QED BY <2>1, <2>2
<1>9. /\ closing'[Listener] = closing[Listener] /\ closing'[Connector][g] = b
      /\ \A x \in Streams : x # g => closing'[Connector][x] = closing[Connector][x]
      /\ closing' \in [Ends -> [Streams -> Closings]]
  <2>1. /\ closing \in [Ends -> [Streams -> Closings]]
        /\ Connector \in Ends /\ Listener \in Ends /\ Connector # Listener
    BY <1>1, Constants DEF TypeInv
  <2> QED BY <1>6, <1>8, <2>1
<1>10. ConnectorOK(g)
  BY <1>1 DEF ControlInv, ConnectorInv
<1>11. Live(g) /\ idOf[g] \in Ids
  <2>1. Live(g)
    BY <1>3, <1>6, <1>10 DEF ConnectorOK
  <2> QED BY <1>1, <2>1, LiveId
<1>12. m \in Packets /\ m.type = "close" /\ m.id = idOf[g] /\ m.stream = g
  BY <1>5, <1>11 DEF Control, Packets
<1>13. TypeInv'
  <2>1. chan' \in [Ends -> [Sockets -> Seq(Packets)]]
    BY <1>1, <1>6, <1>7, <1>12, PutEffect, Constants
  <2> QED BY <1>1, <1>6, <1>9, <2>1 DEF TypeInv
<1>14. DataInv'
  BY <1>1, <1>6, <1>7, <1>12, PutControlData, Constants
<1>15. \A x \in Streams : \A d \in Ends, s \in Sockets :
         /\ \A type : Holding(d, s, x, type)' <=>
              \/ Holding(d, s, x, type)
              \/ d = Connector /\ s = z /\ x = g /\ type = "close"
         /\ Clear(d, s, x)' <=> Clear(d, s, x) /\ ~(d = Connector /\ s = z /\ x = g)
  <2> SUFFICES ASSUME NEW x \in Streams, NEW d \in Ends, NEW s \in Sockets
               PROVE /\ \A type : Holding(d, s, x, type)' <=>
                           \/ Holding(d, s, x, type)
                           \/ d = Connector /\ s = z /\ x = g /\ type = "close"
                     /\ Clear(d, s, x)' <=> Clear(d, s, x) /\ ~(d = Connector /\ s = z /\ x = g)
    OBVIOUS
  <2>1. /\ \A type : Holding(d, s, x, type)' <=>
              \/ Holding(d, s, x, type)
              \/ d = Connector /\ s = z /\ m.stream = x /\ m.type = type
        /\ Clear(d, s, x)' <=> Clear(d, s, x) /\ ~(d = Connector /\ s = z /\ m.stream = x)
    <3>1. /\ TypeInv /\ Connector \in Ends /\ z \in Sockets /\ m \in Packets
          /\ Put(Connector, z, m)
      BY <1>1, <1>6, <1>7, <1>12, Constants
    <3>2. Clear(d, s, x)' <=> Clear(d, s, x) /\ ~(d = Connector /\ s = z /\ m.stream = x)
      BY <3>1, PutHolding
    <3>3. ASSUME NEW type
          PROVE  Holding(d, s, x, type)' <=>
                   \/ Holding(d, s, x, type)
                   \/ d = Connector /\ s = z /\ m.stream = x /\ m.type = type
      BY <3>1, PutHolding
    <3> QED BY <3>2, <3>3
  <2> QED BY <1>12, <2>1
<1>16. z \notin CloseSent(g) /\ CloseSent(g)' = CloseSent(g) \cup {z}
  <2>1. z \notin CloseSent(g)
    <3>1. ~(Position(z) < c.next)
      <4>1. c.next \in Nat
        BY <1>7, PositionFacts
      <4> QED BY <1>7, <4>1
    <3> QED BY <1>3, <1>6, <3>1 DEF CloseSent
  <2>2. ASSUME NEW s \in Sockets PROVE s \in CloseSent(g)' <=> s \in CloseSent(g) \/ s = z
    <3>1. PICK k \in Sockets : k = Position(s)
      BY PositionFacts
    <3>2. k = c.next <=> s = z
      BY <1>4, <1>7, <3>1, PositionFacts
    <3>3. k \in Nat /\ k <= NumSockets /\ c.next \in Nat /\ NumSockets \in Nat
      BY <1>7, PositionFacts
    <3>4. s \in CloseSent(g) <=> k < c.next
      BY <1>3, <1>6, <3>1 DEF CloseSent
    <3>5. s \in CloseSent(g)' <=> (b.step = "done" \/ (b.step = "announce" /\ k < b.next))
      BY <1>9, <3>1 DEF CloseSent
    <3>6. CASE c.next = NumSockets
      BY <1>8, <3>2, <3>3, <3>4, <3>5, <3>6
    <3>7. CASE c.next # NumSockets
      BY <1>8, <3>2, <3>3, <3>4, <3>5, <3>7
    <3> QED BY <3>6, <3>7
  <2>3. CloseSent(g) \subseteq Sockets /\ CloseSent(g)' \subseteq Sockets
    BY DEF CloseSent
  <2> QED BY <1>7, <2>1, <2>2, <2>3
<1>17. CloseRead(g)' = CloseRead(g) /\ ~Heard(g) /\ ~Heard(g)'
  <2>1. \A s \in Sockets : Holding(Connector, s, g, "close")' <=>
          Holding(Connector, s, g, "close") \/ s = z
    BY <1>15, Constants
  <2>2. CloseSent(g) \subseteq Sockets
    BY DEF CloseSent
  <2>3. CloseRead(g)' = CloseRead(g)
    BY <1>7, <1>16, <2>1, <2>2 DEF CloseRead
  <2>4. z \notin CloseRead(g)
    BY <1>16 DEF CloseRead
  <2> QED BY <1>7, <2>3, <2>4 DEF Heard
<1>18. ASSUME NEW x \in Streams
       PROVE  /\ CloseRead(x)' = CloseRead(x) /\ (Heard(x)' <=> Heard(x)) /\ AckSame(x)
              /\ CloseSent(x) \subseteq CloseSent(x)'
              /\ (Live(x)' <=> Live(x)) /\ (Busy(x)' <=> Busy(x))
  <2>1. CASE x = g
    <3>1. AckSent(x)' = AckSent(x)
      BY <1>17, <2>1 DEF AckSent
    <3>2. AckSame(x)
      <4>1. \A s \in Sockets : Holding(Listener, s, g, "ack")' <=> Holding(Listener, s, g, "ack")
        BY <1>15, Constants
      <4> QED BY <2>1, <3>1, <4>1, AckFrame
    <3> QED BY <1>6, <1>16, <1>17, <2>1, <3>2, LiveFrame DEF Busy
  <2>2. CASE x # g
    <3>1. CloseSame(x)
      BY <1>9, <1>15, <2>2, CloseSentFrame, CloseFrame, Constants
    <3>2. Busy(x)' <=> Busy(x)
      BY <1>6 DEF Busy
    <3>3. AckSent(x)' = AckSent(x)
      BY <1>6, <3>1, <3>2, AckSentFrame DEF CloseSame
    <3>4. AckSame(x)
      <4>1. \A s \in Sockets : Holding(Listener, s, x, "ack")' <=> Holding(Listener, s, x, "ack")
        BY <1>15, <2>2, Constants
      <4> QED BY <3>3, <4>1, AckFrame
    <3> QED BY <1>6, <3>1, <3>2, <3>4, LiveFrame DEF CloseSame
  <2> QED BY <2>1, <2>2
<1>19. \A d : View(d)' = View(d)
  BY <1>6, SameView
<1>20. CreatedInv' /\ FreeInv'
  BY <1>1, <1>6, IdsFrame DEF ControlInv
<1>21. PacketInv'
  <2>1. \A x \in Streams : Keeps(x)
    BY <1>6, <1>18 DEF Keeps, AckSame
  <2>2. ASSUME NEW type \in {"close", "ack"} PROVE ~Holding(Connector, z, g, type)
    <3>1. SUFFICES ASSUME NEW k \in DOMAIN chan[Connector][z],
                          chan[Connector][z][k].stream = g, chan[Connector][z][k].type = type
                   PROVE  FALSE
      BY DEF Holding
    <3>2. PacketOK(Connector, z, k)
      BY <1>1, <1>7, Constants DEF ControlInv, PacketInv
    <3> QED BY <1>16, <3>1, <3>2, Constants DEF PacketOK
  <2>3. Live(m.stream)' /\ m.id = idOf'[m.stream] /\ z \in CloseSent(m.stream)'
    BY <1>6, <1>11, <1>12, <1>16, <1>18
  <2> QED BY <1>1, <1>6, <1>7, <1>12, <2>1, <2>2, <2>3, PutPackets, Constants DEF ControlInv
<1>22. CountInv'
  <2> SUFFICES ASSUME NEW x \in Streams, Live(x)' PROVE CountOK(x)'
    BY DEF CountInv
  <2>1. CountOK(x)
    BY <1>1, <1>18 DEF ControlInv, CountInv
  <2>2. ASSUME NEW s \in CloseRead(x), Clear(Connector, s, x) PROVE Clear(Connector, s, x)'
    <3>1. s \in CloseSent(x) /\ s \in Sockets
      BY <1>1, SocketSets
    <3> QED BY <1>15, <1>16, <2>2, <3>1, Constants
  <2>3. ASSUME NEW s \in AckRead(x), Clear(Listener, s, x) PROVE Clear(Listener, s, x)'
    <3>1. s \in Sockets
      BY <1>1, SocketSets
    <3> QED BY <1>15, <2>3, <3>1, Constants
  <2> QED BY <1>6, <1>18, <2>1, <2>2, <2>3, CountFrame
<1>23. UnusedInv'
  BY <1>1, <1>6, <1>18, <1>19, UnusedFrame DEF ControlInv
<1>24. ConnectorInv'
  <2>1. ASSUME NEW x \in Streams PROVE ConnectorOK(x)'
    <3>1. ConnectorOK(x)
      BY <1>1 DEF ControlInv, ConnectorInv
    <3>2. CASE x = g
      BY <1>3, <1>6, <1>8, <1>9, <1>11, <1>18, <1>19, <3>1, <3>2 DEF ConnectorOK
    <3>3. CASE x # g
      BY <1>6, <1>9, <1>18, <1>19, <3>1, <3>3, ConnectorFrame
    <3> QED BY <3>2, <3>3
  <2> QED BY <1>1, <1>6, <2>1 DEF ControlInv, ConnectorInv
<1>25. ListenerInv'
  <2>1. \A x \in Streams : ListenerOK(x)'
    BY <1>1, <1>6, <1>9, <1>18, <1>19, ListenerFrame DEF ControlInv, ListenerInv
  <2> QED BY <1>1, <1>6, <1>18, <1>19, <2>1 DEF ControlInv, ListenerInv
<1> QED BY <1>13, <1>14, <1>20, <1>21, <1>22, <1>23, <1>24, <1>25 DEF IInv, ControlInv

(***************************************************************************)
(* The end of shutDownClosedStream changes the one-sided closes and the    *)
(* free ids, and nothing else.                                             *)
(***************************************************************************)
LEMMA RetiredFacts ==
  ASSUME NEW m \in SocketStates, NEW id \in Ids
  PROVE  /\ Retired(m, id) \in SocketStates
         /\ Retired(m, id).callbacks = m.callbacks
         /\ Retired(m, id).registration = m.registration
         /\ Retired(m, id).acked = m.acked
         /\ Retired(m, id).highest = m.highest
         /\ Retired(m, id).oneSided = m.oneSided \ {id}
         /\ Retired(m, id).free = IF id % 2 = m.highest % 2 THEN Append(m.free, id) ELSE m.free
<1>1. PICK f : f = IF id % 2 = m.highest % 2 THEN Append(m.free, id) ELSE m.free
  OBVIOUS
<1>2. PICK o : o = m.oneSided \ {id}
  OBVIOUS
<1>3. f \in Seq(Ids) /\ o \in SUBSET Ids
  <2>1. m.free \in Seq(Ids) /\ m.oneSided \in SUBSET Ids
    BY DEF SocketStates
  <2>2. Append(m.free, id) \in Seq(Ids)
    BY <2>1, AppendProperties
  <2> QED BY <1>1, <1>2, <2>1, <2>2
<1>4. Retired(m, id) = [m EXCEPT !.oneSided = o, !.free = f]
  BY <1>1, <1>2 DEF Retired
<1> QED BY <1>1, <1>2, <1>3, <1>4, Zenon DEF SocketStates

(***************************************************************************)
(* shutDownClosedStream after the Disconnected callback: the callback of   *)
(* the stream is erased.                                                   *)
(***************************************************************************)
LEMMA EraseCallbackStep ==
  ASSUME IInv, NEW e \in Ends, EraseCallback(e)
  PROVE  IInv'
<1>1. TypeInv /\ ControlInv /\ DataInv
  BY DEF IInv
<1>2. e = Listener
  <2>1. reactor[Connector].step = "idle"
    BY <1>1 DEF ControlInv, ConnectorInv
  <2> QED BY <2>1, Constants DEF EraseCallback
<1>3. PICK r, v : r = reactor[Listener] /\ v = View(Listener)
  OBVIOUS
<1>4. PICK u : u = [v EXCEPT !.callbacks[r.id] = None, !.badErase = @ \/ v.callbacks[r.id] = None]
  OBVIOUS
<1>5. PICK w : w = Retired(u, r.id)
  OBVIOUS
<1>6. /\ chan' = chan /\ idOf' = idOf /\ got' = got /\ closing' = closing
      /\ told' = told /\ sent' = sent /\ status' = status
      /\ r.step = "erase" /\ ms' = [ms EXCEPT ![Listener] = w]
      /\ reactor' = [reactor EXCEPT ![Listener].step = "ack"]
  BY <1>2, <1>3, <1>4, <1>5 DEF EraseCallback, ghostVars, View
<1>7. PICK g \in Streams : g = r.stream /\ Live(g) /\ Heard(g) /\ r.id = idOf[g] /\ r.next = 1
  BY <1>1, <1>3, <1>6 DEF ControlInv, ListenerInv
<1>8. Busy(g) /\ idOf[g] \in Ids /\ ms[Listener] \in SocketStates
  BY <1>1, <1>3, <1>6, <1>7, LiveId, Constants DEF Busy, TypeInv
<1>9. /\ v \in SocketStates /\ v.registration = <<>> /\ v.acked = ms[Listener].acked
      /\ v.highest = ms[Listener].highest /\ v.oneSided = {}
  BY <1>1, <1>3, <1>8, CommittedType DEF View, ControlInv, ListenerInv
<1>10. /\ u \in SocketStates /\ u.registration = <<>> /\ u.acked = v.acked
       /\ u.highest = v.highest /\ u.oneSided = v.oneSided
       /\ u.callbacks = [v.callbacks EXCEPT ![r.id] = None]
  <2>1. PICK a, b : /\ a = [v.callbacks EXCEPT ![r.id] = None]
                    /\ b = (v.badErase \/ v.callbacks[r.id] = None)
    OBVIOUS
  <2>2. a \in [Ids -> Streams \cup {None}]
    BY <1>7, <1>8, <1>9, <2>1 DEF SocketStates
  <2>3. b \in BOOLEAN
    BY <1>9, <2>1, Zenon DEF SocketStates
  <2>4. u = [v EXCEPT !.callbacks = a, !.badErase = b]
    BY <1>4, <1>9, <2>1, Zenon DEF SocketStates
  <2> QED BY <1>9, <2>1, <2>2, <2>3, <2>4, Zenon DEF SocketStates
<1>11. /\ w \in SocketStates /\ w.registration = <<>> /\ w.acked = ms[Listener].acked
       /\ w.highest = ms[Listener].highest /\ w.oneSided = {}
       /\ w.callbacks = [v.callbacks EXCEPT ![r.id] = None]
  BY <1>5, <1>7, <1>8, <1>9, <1>10, RetiredFacts
<1>12. /\ ms'[Connector] = ms[Connector] /\ ms'[Listener] = w
       /\ ms' \in [Ends -> SocketStates]
       /\ reactor'[Connector] = reactor[Connector]
       /\ reactor'[Listener] = [r EXCEPT !.step = "ack"]
       /\ r \in Reactors
  <2>1. /\ ms \in [Ends -> SocketStates] /\ reactor \in [Ends -> Reactors]
        /\ Connector \in Ends /\ Listener \in Ends /\ Connector # Listener
    BY <1>1, Constants DEF TypeInv
  <2>2. PICK b : b = [r EXCEPT !.step = "ack"]
    OBVIOUS
  <2>3. reactor' = [reactor EXCEPT ![Listener] = b]
    BY <1>3, <1>6, <2>2
  <2> QED BY <1>3, <1>6, <1>11, <2>1, <2>2, <2>3
<1>13. /\ reactor'[Listener].step = "ack" /\ reactor'[Listener].stream = g
       /\ reactor'[Listener].id = idOf[g] /\ reactor'[Listener].next = 1
       /\ reactor'[Listener] \in Reactors
  BY <1>7, <1>12 DEF Reactors
<1>14. View(Connector)' = View(Connector) /\ View(Listener)' = w
  <2>1. View(Connector)' = View(Connector)
    BY <1>12, SameView
  <2>2. Committed(w) = w
    BY <1>11, CommittedNothing
  <2> QED BY <1>12, <2>1, <2>2 DEF View
<1>15. /\ w.callbacks[idOf[g]] = None
       /\ \A i \in Ids : i # idOf[g] => w.callbacks[i] = v.callbacks[i]
  <2>1. v.callbacks \in [Ids -> Streams \cup {None}]
    BY <1>9 DEF SocketStates
  <2> QED BY <1>7, <1>8, <1>11, <2>1
<1>16. TypeInv'
  <2>1. reactor' \in [Ends -> Reactors]
    BY <1>1, <1>6, <1>12, <1>13, Constants DEF TypeInv
  <2> QED BY <1>1, <1>6, <1>12, <2>1 DEF TypeInv
<1>17. DataInv'
  BY <1>1, <1>6, SameData
<1>18. \A x \in Streams : \A type : \A d \in Ends, z \in Sockets :
         /\ Holding(d, z, x, type)' <=> Holding(d, z, x, type)
         /\ Clear(d, z, x)' <=> Clear(d, z, x)
  BY <1>6 DEF Holding, Clear
<1>19. ASSUME NEW x \in Streams
       PROVE  /\ CloseSame(x) /\ AckSame(x) /\ (Live(x)' <=> Live(x)) /\ (Busy(x)' <=> Busy(x))
              /\ Busy(x) <=> x = g
  <2>1. CloseSame(x)
    BY <1>6, <1>18, CloseSentFrame, CloseFrame, Constants
  <2>2. (Busy(x)' <=> Busy(x)) /\ (Busy(x) <=> x = g)
    BY <1>3, <1>6, <1>7, <1>13 DEF Busy
  <2>3. AckSent(x)' = AckSent(x)
    <3>1. CASE x = g
      <4>1. ASSUME NEW s \in Sockets PROVE ~(Position(s) < 1)
        <5>1. PICK k \in Sockets : k = Position(s)
          BY PositionFacts
        <5>2. k \in Nat /\ 1 <= k
          BY PositionFacts
        <5> QED BY <5>1, <5>2
      <4>2. AckSent(g) = {}
        BY <1>3, <1>6, <1>8 DEF AckSent
      <4>3. AckSent(g)' = {}
        BY <1>13, <2>2, <3>1, <4>1 DEF AckSent
      <4> QED BY <3>1, <4>2, <4>3
    <3>2. CASE x # g
      BY <2>1, <2>2, <3>2, AckSentFrame DEF CloseSame
    <3> QED BY <3>1, <3>2
  <2>4. AckSame(x)
    BY <1>18, <2>3, AckFrame, Constants
  <2>5. Live(x)' <=> Live(x)
    BY <1>6, <1>12, LiveFrame
  <2> QED BY <2>1, <2>2, <2>4, <2>5
<1>20. CreatedInv' /\ FreeInv'
  BY <1>1, <1>6, <1>11, <1>12, IdsFrame DEF ControlInv
<1>21. PacketInv'
  BY <1>1, <1>6, <1>19, KeepsSame, SamePackets DEF ControlInv
<1>22. \A d \in Ends : ms'[d].acked = ms[d].acked
  BY <1>11, <1>12, Constants
<1>23. CountInv'
  <2> SUFFICES ASSUME NEW x \in Streams, Live(x)' PROVE CountOK(x)'
    BY DEF CountInv
  <2>1. CountOK(x)
    BY <1>1, <1>19 DEF ControlInv, CountInv
  <2>2. CloseRead(x) \subseteq Sockets /\ AckRead(x) \subseteq Sockets
    BY <1>1, SocketSets
  <2> QED BY <1>6, <1>18, <1>19, <1>22, <2>1, <2>2, CountFrame, Constants DEF CloseSame
<1>24. UnusedInv'
  <2> SUFFICES ASSUME NEW i \in Ids, \A x \in Streams : Live(x) => idOf[x] # i, NEW d \in Ends
               PROVE  ms'[d].acked[i] = 0 /\ View(d)'.callbacks[i] = None
    BY <1>6, <1>19 DEF UnusedInv
  <2>1. ms[d].acked[i] = 0 /\ View(d).callbacks[i] = None
    BY <1>1 DEF ControlInv, UnusedInv
  <2>2. CASE d = Connector
    BY <1>14, <1>22, <2>1, <2>2
  <2>3. CASE d = Listener
    BY <1>3, <1>7, <1>14, <1>15, <1>22, <2>1, <2>3
  <2> QED BY <2>2, <2>3, Constants
<1>25. ConnectorInv'
  <2>1. \A x \in Streams : ConnectorOK(x)'
    BY <1>1, <1>6, <1>14, <1>19, ConnectorFrame DEF ControlInv, ConnectorInv
  <2> QED BY <1>1, <1>12, <2>1 DEF ControlInv, ConnectorInv
<1>26. ListenerInv'
  <2>1. ASSUME NEW x \in Streams PROVE ListenerOK(x)'
    <3>1. ListenerOK(x)
      BY <1>1 DEF ControlInv, ListenerInv
    <3>2. CASE x = g
      <4>1. View(Listener)'.callbacks[idOf[g]] = None
        BY <1>14, <1>15
      <4> QED BY <1>6, <1>7, <1>13, <1>19, <3>1, <3>2, <4>1 DEF ListenerOK, CloseSame
    <3>3. CASE x # g
      <4>1. Live(x) => View(Listener)'.callbacks[idOf[x]] = View(Listener).callbacks[idOf[x]]
        BY <1>1, <1>3, <1>7, <1>14, <1>15, <3>3, LiveUnique, LiveId
      <4> QED BY <1>6, <1>19, <3>1, <3>3, <4>1, ListenerFrame DEF CloseSame
    <3> QED BY <3>2, <3>3
  <2>2. Heard(g)' /\ Live(g)'
    BY <1>7, <1>19 DEF CloseSame
  <2> QED BY <1>6, <1>11, <1>13, <1>14, <2>1, <2>2 DEF ListenerInv
<1> QED BY <1>16, <1>17, <1>20, <1>21, <1>23, <1>24, <1>25, <1>26 DEF IInv, ControlInv

(***************************************************************************)
(* The reactor writes the Ack of a Close to the next socket of the         *)
(* broadcast.                                                              *)
(***************************************************************************)
LEMMA ReactorBroadcastStep ==
  ASSUME IInv, NEW e \in Ends, ReactorBroadcast(e)
  PROVE  IInv'
<1>1. TypeInv /\ ControlInv /\ DataInv
  BY DEF IInv
<1>2. e = Listener
  <2>1. reactor[Connector].step = "idle"
    BY <1>1 DEF ControlInv, ConnectorInv
  <2> QED BY <2>1, Constants DEF ReactorBroadcast
<1>3. PICK r : r = reactor[Listener]
  OBVIOUS
<1>4. r \in Reactors
  BY <1>1, <1>3, Constants DEF TypeInv
<1>5. r.step = "ack"
  BY <1>2, <1>3, <1>4 DEF ReactorBroadcast, Reactors
<1>6. PICK z, b : /\ z = BroadcastSocket(r.next)
                  /\ b = IF r.next = NumSockets THEN Idle ELSE Further(r, "idle")
  OBVIOUS
<1>7. PICK m : m = Control(r.step, r.id, r.stream)
  OBVIOUS
<1>8. /\ ms' = ms /\ idOf' = idOf /\ got' = got /\ closing' = closing
      /\ told' = told /\ sent' = sent /\ status' = status
      /\ Put(Listener, z, m) /\ reactor' = [reactor EXCEPT ![Listener] = b]
  BY <1>2, <1>3, <1>6, <1>7 DEF ReactorBroadcast, ghostVars
<1>9. PICK g \in Streams : g = r.stream /\ Live(g) /\ Heard(g) /\ r.id = idOf[g]
  BY <1>1, <1>3, <1>5 DEF ControlInv, ListenerInv
<1>10. idOf[g] \in Ids /\ r.next \in Sockets /\ z \in Sockets /\ Position(z) = r.next
  <2>1. r.next \in Sockets
    BY <1>4 DEF Reactors
  <2> QED BY <1>1, <1>6, <1>9, <2>1, LiveId, PositionFacts
<1>11. /\ r.next = NumSockets => b = Idle
       /\ r.next # NumSockets => /\ b.step = "ack" /\ b.next = r.next + 1
                                 /\ b.stream = g /\ b.id = idOf[g]
       /\ b \in Reactors
  <2>1. CASE r.next = NumSockets
    BY <1>6, <2>1, Constants DEF Idle, Reactors
  <2>2. CASE r.next # NumSockets
    <3>1. r.next + 1 \in Sockets
      BY <1>10, <2>2, LifecycleAssumption DEF Sockets
    <3>2. b = [r EXCEPT !.next = r.next + 1]
      BY <1>6, <2>2 DEF Further
    <3> QED BY <1>4, <1>5, <1>9, <2>2, <3>1, <3>2 DEF Reactors
  <2> QED BY <2>1, <2>2
<1>12. /\ reactor'[Connector] = reactor[Connector] /\ reactor'[Listener] = b
       /\ reactor' \in [Ends -> Reactors]
  <2>1. reactor \in [Ends -> Reactors] /\ Connector \in Ends /\ Listener \in Ends /\ Connector # Listener
    BY <1>1, Constants DEF TypeInv
  <2> QED BY <1>8, <1>11, <2>1
<1>13. m \in Packets /\ m.type = "ack" /\ m.id = idOf[g] /\ m.stream = g
  BY <1>5, <1>7, <1>9, <1>10 DEF Control, Packets
<1>14. TypeInv'
  <2>1. chan' \in [Ends -> [Sockets -> Seq(Packets)]]
    BY <1>1, <1>8, <1>10, <1>13, PutEffect, Constants
  <2> QED BY <1>1, <1>8, <1>12, <2>1 DEF TypeInv
<1>15. DataInv'
  BY <1>1, <1>8, <1>10, <1>13, PutControlData, Constants
<1>16. \A x \in Streams : \A d \in Ends, s \in Sockets :
         /\ \A type : Holding(d, s, x, type)' <=>
              \/ Holding(d, s, x, type)
              \/ d = Listener /\ s = z /\ x = g /\ type = "ack"
         /\ Clear(d, s, x)' <=> Clear(d, s, x) /\ ~(d = Listener /\ s = z /\ x = g)
  <2> SUFFICES ASSUME NEW x \in Streams, NEW d \in Ends, NEW s \in Sockets
               PROVE /\ \A type : Holding(d, s, x, type)' <=>
                           \/ Holding(d, s, x, type)
                           \/ d = Listener /\ s = z /\ x = g /\ type = "ack"
                     /\ Clear(d, s, x)' <=> Clear(d, s, x) /\ ~(d = Listener /\ s = z /\ x = g)
    OBVIOUS
  <2>1. /\ TypeInv /\ Listener \in Ends /\ z \in Sockets /\ m \in Packets
        /\ Put(Listener, z, m)
    BY <1>1, <1>8, <1>10, <1>13, Constants
  <2>2. Clear(d, s, x)' <=> Clear(d, s, x) /\ ~(d = Listener /\ s = z /\ m.stream = x)
    BY <2>1, PutHolding
  <2>3. ASSUME NEW type
        PROVE  Holding(d, s, x, type)' <=>
                 \/ Holding(d, s, x, type)
                 \/ d = Listener /\ s = z /\ m.stream = x /\ m.type = type
    BY <2>1, PutHolding
  <2> QED BY <1>13, <2>2, <2>3
<1>17. ASSUME NEW x \in Streams
       PROVE  CloseSame(x) /\ (Live(x)' <=> Live(x)) /\ (Busy(x) <=> x = g) /\ (Busy(x)' => x = g)
  <2>1. \A s \in Sockets : Holding(Connector, s, x, "close")' <=> Holding(Connector, s, x, "close")
    BY <1>16, Constants
  <2>2. CloseSame(x)
    BY <1>8, <2>1, CloseSentFrame, CloseFrame
  <2>3. Live(x)' <=> Live(x)
    BY <1>8, LiveFrame
  <2>4. Busy(x) <=> x = g
    BY <1>3, <1>5, <1>9 DEF Busy
  <2>5. Busy(x)' => x = g
    BY <1>11, <1>12 DEF Busy, Idle
  <2> QED BY <2>2, <2>3, <2>4, <2>5
<1>18. z \notin AckSent(g) /\ AckSent(g)' = AckSent(g) \cup {z}
  <2>0. Busy(g) /\ Heard(g)'
    BY <1>9, <1>17 DEF CloseSame
  <2>1. z \notin AckSent(g)
    <3>1. ~(Position(z) < r.next)
      <4>1. r.next \in Nat
        BY <1>10, PositionFacts
      <4> QED BY <1>10, <4>1
    <3> QED BY <1>3, <2>0, <3>1 DEF AckSent
  <2>2. ASSUME NEW s \in Sockets PROVE s \in AckSent(g)' <=> s \in AckSent(g) \/ s = z
    <3>1. PICK k \in Sockets : k = Position(s)
      BY PositionFacts
    <3>2. k = r.next <=> s = z
      BY <1>6, <1>10, <3>1, PositionFacts
    <3>3. k \in Nat /\ k <= NumSockets /\ r.next \in Nat /\ NumSockets \in Nat
      BY <1>10, PositionFacts
    <3>4. s \in AckSent(g) <=> k < r.next
      BY <1>3, <1>5, <1>9, <2>0, <3>1 DEF AckSent
    <3>5. s \in AckSent(g)' <=> (Busy(g)' => (b.step = "ack" /\ k < b.next))
      BY <1>12, <2>0, <3>1 DEF AckSent
    <3>6. CASE r.next = NumSockets
      <4>1. ~Busy(g)'
        BY <1>11, <1>12, <3>6 DEF Busy, Idle
      <4> QED BY <3>2, <3>3, <3>4, <3>5, <3>6, <4>1
    <3>7. CASE r.next # NumSockets
      <4>1. Busy(g)'
        BY <1>11, <1>12, <3>7 DEF Busy
      <4> QED BY <1>11, <3>2, <3>3, <3>4, <3>5, <3>7, <4>1
    <3> QED BY <3>6, <3>7
  <2>3. AckSent(g) \subseteq Sockets /\ AckSent(g)' \subseteq Sockets
    BY DEF AckSent
  <2> QED BY <1>10, <2>1, <2>2, <2>3
<1>19. AckRead(g)' = AckRead(g)
  <2>1. \A s \in Sockets : Holding(Listener, s, g, "ack")' <=> Holding(Listener, s, g, "ack") \/ s = z
    BY <1>16, Constants
  <2>2. AckSent(g) \subseteq Sockets
    BY DEF AckSent
  <2> QED BY <1>10, <1>18, <2>1, <2>2 DEF AckRead
<1>20. ASSUME NEW x \in Streams, x # g PROVE AckSame(x)
  <2>1. AckSent(x)' = AckSent(x)
    BY <1>17, <1>20, AckSentFrame DEF CloseSame
  <2>2. \A s \in Sockets : Holding(Listener, s, x, "ack")' <=> Holding(Listener, s, x, "ack")
    BY <1>16, <1>20, Constants
  <2> QED BY <2>1, <2>2, AckFrame
<1>21. \A d : View(d)' = View(d)
  BY <1>8, SameView
<1>22. CreatedInv' /\ FreeInv'
  BY <1>1, <1>8, IdsFrame DEF ControlInv
<1>23. PacketInv'
  <2>1. ASSUME NEW x \in Streams PROVE Keeps(x)
    <3>1. CASE x = g
      BY <1>8, <1>17, <1>18, <3>1 DEF Keeps, CloseSame
    <3>2. CASE x # g
      BY <1>8, <1>17, <1>20, <3>2, KeepsSame
    <3> QED BY <3>1, <3>2
  <2>2. ASSUME NEW type \in {"close", "ack"} PROVE ~Holding(Listener, z, g, type)
    <3>1. SUFFICES ASSUME NEW k \in DOMAIN chan[Listener][z],
                          chan[Listener][z][k].stream = g, chan[Listener][z][k].type = type
                   PROVE  FALSE
      BY DEF Holding
    <3>2. PacketOK(Listener, z, k)
      BY <1>1, <1>10, Constants DEF ControlInv, PacketInv
    <3> QED BY <1>18, <3>1, <3>2, Constants DEF PacketOK
  <2>3. Live(m.stream)' /\ m.id = idOf'[m.stream] /\ z \in AckSent(m.stream)'
    BY <1>8, <1>9, <1>13, <1>17, <1>18
  <2> QED BY <1>1, <1>8, <1>10, <1>13, <2>1, <2>2, <2>3, PutPackets, Constants DEF ControlInv
<1>24. CountInv'
  <2> SUFFICES ASSUME NEW x \in Streams, Live(x)' PROVE CountOK(x)'
    BY DEF CountInv
  <2>1. CountOK(x)
    BY <1>1, <1>17 DEF ControlInv, CountInv
  <2>2. CloseRead(x)' = CloseRead(x) /\ (Heard(x)' <=> Heard(x))
    BY <1>17 DEF CloseSame
  <2>3. AckRead(x)' = AckRead(x)
    BY <1>19, <1>20 DEF AckSame
  <2>4. ASSUME NEW s \in CloseRead(x), Clear(Connector, s, x) PROVE Clear(Connector, s, x)'
    <3>1. s \in Sockets
      BY <1>1, SocketSets
    <3> QED BY <1>16, <2>4, <3>1, Constants
  <2>5. ASSUME NEW s \in AckRead(x), Clear(Listener, s, x) PROVE Clear(Listener, s, x)'
    <3>1. s \in AckSent(x) /\ s \in Sockets
      BY <1>1, SocketSets
    <3> QED BY <1>16, <1>18, <2>5, <3>1, Constants
  <2> QED BY <1>8, <2>1, <2>2, <2>3, <2>4, <2>5 DEF CountOK
<1>25. UnusedInv'
  BY <1>1, <1>8, <1>17, <1>21, UnusedFrame DEF ControlInv
<1>26. ConnectorInv'
  <2>1. \A x \in Streams : ConnectorOK(x)'
    BY <1>1, <1>8, <1>17, <1>21, ConnectorFrame DEF ControlInv, ConnectorInv
  <2> QED BY <1>1, <1>12, <2>1 DEF ControlInv, ConnectorInv
<1>27. ListenerInv'
  <2>1. ASSUME NEW x \in Streams PROVE ListenerOK(x)'
    <3>1. ListenerOK(x) /\ (Heard(x)' <=> Heard(x))
      BY <1>1, <1>17 DEF ControlInv, ListenerInv, CloseSame
    <3>2. CASE x = g
      <4>1. View(Listener).callbacks[idOf[g]] = None
        BY <1>3, <1>5, <1>9, <3>1, <3>2 DEF ListenerOK
      <4>2. View(Listener)'.callbacks[idOf[g]] = None /\ reactor'[Listener].step # "erase"
        BY <1>11, <1>12, <1>21, <4>1 DEF Idle
      <4> QED BY <1>8, <1>9, <1>17, <3>1, <3>2, <4>2 DEF ListenerOK
    <3>3. CASE x # g
      BY <1>8, <1>17, <1>21, <3>1, <3>3, ListenerFrame
    <3> QED BY <3>2, <3>3
  <2>2. Heard(g)' /\ Live(g)'
    BY <1>9, <1>17 DEF CloseSame
  <2>3. View(Listener)'.oneSided = {}
    BY <1>1, <1>21 DEF ControlInv, ListenerInv
  <2> QED BY <1>8, <1>11, <1>12, <2>1, <2>2, <2>3 DEF ListenerInv, Idle
<1> QED BY <1>14, <1>15, <1>22, <1>23, <1>24, <1>25, <1>26, <1>27 DEF IInv, ControlInv

(***************************************************************************)
(* What the reactor reads belongs to the stream that its id stands for.    *)
(***************************************************************************)
LEMMA ReceivedPacket ==
  ASSUME IInv, NEW e \in Ends, NEW s \in Sockets, chan[Peer(e)][s] # <<>>,
         NEW p, p = Head(chan[Peer(e)][s])
  PROVE  /\ p \in Packets /\ p.stream \in Streams /\ Live(p.stream)
         /\ p.id = idOf[p.stream] /\ p.id \in Ids
         /\ p.type = "close" => e = Listener /\ s \in CloseSent(p.stream)
         /\ p.type = "ack" => e = Connector /\ s \in AckSent(p.stream)
         /\ ~Clear(Peer(e), s, p.stream)
         /\ Holding(Peer(e), s, p.stream, p.type)
<1>1. TypeInv /\ PacketInv
  BY DEF IInv, ControlInv
<1>2. PICK q : q = chan[Peer(e)][s]
  OBVIOUS
<1>3. q \in Seq(Packets) /\ q # <<>> /\ Peer(e) \in Ends
  BY <1>1, <1>2, Constants DEF TypeInv
<1>4. p = q[1] /\ p \in Packets /\ 1 \in DOMAIN q
  <2>1. Head(q) = q[1] /\ Head(q) \in Packets /\ Len(q) \in Nat \ {0} /\ DOMAIN q = 1..Len(q)
    BY <1>3, TailFacts
  <2> QED BY <1>2, <2>1
<1>5. PacketOK(Peer(e), s, 1)
  BY <1>1, <1>2, <1>3, <1>4 DEF PacketInv
<1>6. p.stream \in Streams
  BY <1>4 DEF Packets
<1>7. /\ Live(p.stream) /\ p.id = idOf[p.stream]
      /\ p.type = "close" => Peer(e) = Connector /\ s \in CloseSent(p.stream)
      /\ p.type = "ack" => Peer(e) = Listener /\ s \in AckSent(p.stream)
  BY <1>2, <1>4, <1>5 DEF PacketOK
<1>8. idOf[p.stream] \in Ids
  BY <1>1, <1>6, <1>7, LiveId
<1>9. ~Clear(Peer(e), s, p.stream) /\ Holding(Peer(e), s, p.stream, p.type)
  BY <1>2, <1>4 DEF Clear, Holding
<1> QED BY <1>4, <1>6, <1>7, <1>8, <1>9, Constants

(***************************************************************************)
(* The listener reads data: it goes to its stream, which is opened first   *)
(* when it is new.                                                         *)
(***************************************************************************)
LEMMA ListenerDataStep ==
  ASSUME IInv, OneEndOpensAndCloses, NEW s \in Sockets, chan[Connector][s] # <<>>,
         NEW p, p = Head(chan[Connector][s]), reactor[Listener].step = "idle",
         ReceiveData(Listener, s, p)
  PROVE  IInv'
<1>1. TypeInv /\ ControlInv /\ DataInv
  BY DEF IInv
<1>2. Peer(Listener) = Connector /\ Listener \in Ends /\ Connector \in Ends /\ Connector # Listener
  BY Constants
<1>3. PICK g : g = p.stream
  OBVIOUS
<1>4. /\ p \in Packets /\ g \in Streams /\ Live(g) /\ p.id = idOf[g] /\ idOf[g] \in Ids
      /\ ~Clear(Connector, s, g)
  BY <1>2, <1>3, ReceivedPacket
<1>5. ~Heard(g)
  <2>1. CountOK(g)
    BY <1>1, <1>4 DEF ControlInv, CountInv
  <2> QED BY <1>4, <2>1 DEF CountOK, Heard
<1>6. PICK v, h : v = View(Listener) /\ h = v.callbacks[idOf[g]]
  OBVIOUS
<1>7. /\ v \in SocketStates /\ v.registration = <<>> /\ v.acked = ms[Listener].acked
      /\ v.highest = ms[Listener].highest /\ v.oneSided = {}
      /\ v.callbacks \in [Ids -> Streams \cup {None}] /\ Committed(v) = v
  <2>1. ms[Listener] \in SocketStates
    BY <1>1, <1>2 DEF TypeInv
  <2>2. /\ v \in SocketStates /\ v.registration = <<>> /\ v.acked = ms[Listener].acked
        /\ v.highest = ms[Listener].highest
    BY <1>6, <2>1, CommittedType DEF View
  <2>3. v.callbacks \in [Ids -> Streams \cup {None}]
    BY <2>2 DEF SocketStates
  <2> QED BY <1>1, <1>6, <2>2, <2>3, CommittedNothing DEF ControlInv, ListenerInv
<1>8. h = IF status[Listener][g] = "open" THEN g ELSE None
  BY <1>1, <1>4, <1>5, <1>6 DEF ControlInv, ListenerInv, ListenerOK
<1>9. /\ chan' = chan' /\ Pop(Listener, s) /\ idOf' = idOf /\ closing' = closing /\ sent' = sent
      /\ told' = told /\ p.type = "data"
  BY DEF ReceiveData
<1>10. PICK w : /\ ms' = [ms EXCEPT ![Listener] = w]
                /\ w \in SocketStates /\ w.registration = <<>> /\ w.acked = v.acked
                /\ w.highest = v.highest /\ w.oneSided = {}
                /\ w.callbacks = [v.callbacks EXCEPT ![idOf[g]] = g]
                /\ status' = [status EXCEPT ![Listener][g] = "open"]
                /\ got' = [got EXCEPT ![Listener][g] = Append(@, p)]
                /\ reactor' = reactor
  <2>1. CASE h # None
    <3>1. h = g /\ status[Listener][g] = "open"
      BY <1>8, <2>1
    <3>a. /\ ms' = [ms EXCEPT ![Listener] = v] /\ got' = [got EXCEPT ![Listener][h] = Append(@, p)]
          /\ reactor' = reactor /\ status' = status
      BY <1>4, <1>6, <2>1, Zenon DEF ReceiveData, View
    <3>2. /\ ms' = [ms EXCEPT ![Listener] = v] /\ got' = [got EXCEPT ![Listener][g] = Append(@, p)]
          /\ reactor' = reactor /\ status' = status
      BY <3>a, <3>1, Zenon
    <3>3. v.callbacks = [v.callbacks EXCEPT ![idOf[g]] = g]
      BY <1>4, <1>6, <1>7, <3>1
    <3>4. status = [status EXCEPT ![Listener][g] = "open"]
      BY <1>1, <1>2, <1>4, <3>1 DEF TypeInv
    <3> QED BY <1>7, <3>2, <3>3, <3>4
  <2>2. CASE h = None
    <3>0. p.id \notin v.oneSided /\ Listener \notin Refusers
      BY <1>7 DEF OneEndOpensAndCloses
    <3>1. PICK w : w = Committed(Registered(v, idOf[g], g))
      OBVIOUS
    <3>2. /\ ms' = [ms EXCEPT ![Listener] = w] /\ got' = [got EXCEPT ![Listener][g] = Append(@, p)]
          /\ reactor' = reactor /\ status' = [status EXCEPT ![Listener][g] = "open"]
      BY <1>3, <1>4, <1>6, <2>2, <3>0, <3>1 DEF ReceiveData, View
    <3>3. w = CommitCallback(v, [id |-> idOf[g], stream |-> g])
      BY <1>4, <1>7, <3>1, CommittedAppend
    <3>4. w = [v EXCEPT !.callbacks[idOf[g]] = g]
      BY <1>4, <1>6, <2>2, <3>3, Constants DEF CommitCallback, None
    <3>5. /\ w \in SocketStates /\ w.registration = v.registration /\ w.acked = v.acked
          /\ w.highest = v.highest
      BY <1>4, <1>7, <3>3, CommitCallbackType DEF Registrations
    <3>6. w.oneSided = v.oneSided /\ w.callbacks = [v.callbacks EXCEPT ![idOf[g]] = g]
      BY <1>7, <3>4 DEF SocketStates
    <3> QED BY <1>7, <3>2, <3>5, <3>6
  <2> QED BY <2>1, <2>2
<1>11. /\ ms'[Connector] = ms[Connector] /\ ms'[Listener] = w /\ ms' \in [Ends -> SocketStates]
       /\ status'[Connector] = status[Connector] /\ status'[Listener][g] = "open"
       /\ \A x \in Streams : x # g => status'[Listener][x] = status[Listener][x]
       /\ status' \in [Ends -> [Streams -> {"none", "open", "closed"}]]
  <2>1. /\ ms \in [Ends -> SocketStates]
        /\ status \in [Ends -> [Streams -> {"none", "open", "closed"}]]
    BY <1>1 DEF TypeInv
  <2> QED BY <1>2, <1>4, <1>10, <2>1
<1>12. /\ w.callbacks[idOf[g]] = g
       /\ \A i \in Ids : i # idOf[g] => w.callbacks[i] = v.callbacks[i]
  BY <1>4, <1>7, <1>10
<1>13. View(Connector)' = View(Connector) /\ View(Listener)' = w
  <2>1. View(Connector)' = View(Connector)
    BY <1>11, SameView
  <2>2. Committed(w) = w
    BY <1>10, CommittedNothing
  <2> QED BY <1>11, <2>1, <2>2 DEF View
<1>14. DataInv' /\ got' \in [Ends -> [Streams -> Seq(Packets)]]
  <2>1. IsData(p, g)
    BY <1>3, <1>9 DEF IsData
  <2> QED BY <1>1, <1>2, <1>4, <1>9, <1>10, <2>1, PopDeliverData
<1>15. TypeInv'
  <2>1. chan' \in [Ends -> [Sockets -> Seq(Packets)]]
    BY <1>1, <1>2, <1>9, PopEffect
  <2> QED BY <1>1, <1>9, <1>10, <1>11, <1>14, <2>1 DEF TypeInv
<1>16. \A x \in Streams : \A d \in Ends, z \in Sockets :
         /\ \A type \in {"close", "ack"} : Holding(d, z, x, type)' <=> Holding(d, z, x, type)
         /\ Clear(d, z, x) => Clear(d, z, x)'
  <2> SUFFICES ASSUME NEW x \in Streams, NEW d \in Ends, NEW z \in Sockets
               PROVE  /\ \A type \in {"close", "ack"} :
                           Holding(d, z, x, type)' <=> Holding(d, z, x, type)
                      /\ Clear(d, z, x) => Clear(d, z, x)'
    OBVIOUS
  <2>1. Clear(d, z, x) => Clear(d, z, x)'
    BY <1>1, <1>2, <1>9, PopHolding
  <2>2. ASSUME NEW type \in {"close", "ack"}
        PROVE  Holding(d, z, x, type)' <=> Holding(d, z, x, type)
    <3>1. Holding(d, z, x, type)' => Holding(d, z, x, type)
      BY <1>1, <1>2, <1>9, PopHolding
    <3>2. Holding(d, z, x, type) => Holding(d, z, x, type)' \/ p.type = type
      BY <1>1, <1>2, <1>9, PopHolding
    <3> QED BY <1>9, <3>1, <3>2
  <2> QED BY <2>1, <2>2
<1>17. ASSUME NEW x \in Streams
       PROVE  CloseSame(x) /\ AckSame(x) /\ (Live(x)' <=> Live(x)) /\ (Busy(x)' <=> Busy(x))
  <2>1. CloseSame(x)
    BY <1>9, <1>16, CloseSentFrame, CloseFrame, <1>2
  <2>2. Busy(x)' <=> Busy(x)
    BY <1>10 DEF Busy
  <2>3. AckSent(x)' = AckSent(x)
    BY <1>10, <2>1, <2>2, AckSentFrame DEF CloseSame
  <2>4. AckSame(x)
    BY <1>2, <1>16, <2>3, AckFrame
  <2>5. Live(x)' <=> Live(x)
    BY <1>9, <1>11, LiveFrame
  <2> QED BY <2>1, <2>2, <2>4, <2>5
<1>18. CreatedInv' /\ FreeInv'
  BY <1>1, <1>7, <1>9, <1>10, <1>11, IdsFrame DEF ControlInv
<1>19. PacketInv'
  <2>1. \A x \in Streams : Keeps(x)
    BY <1>9, <1>17, KeepsSame
  <2> QED BY <1>1, <1>2, <1>9, <2>1, PopPackets DEF ControlInv
<1>20. \A d \in Ends : ms'[d].acked = ms[d].acked
  BY <1>7, <1>10, <1>11, Constants
<1>21. CountInv'
  <2> SUFFICES ASSUME NEW x \in Streams, Live(x)' PROVE CountOK(x)'
    BY DEF CountInv
  <2>1. CountOK(x)
    BY <1>1, <1>17 DEF ControlInv, CountInv
  <2>2. CloseRead(x) \subseteq Sockets /\ AckRead(x) \subseteq Sockets
    BY <1>1, SocketSets
  <2> QED BY <1>2, <1>9, <1>16, <1>17, <1>20, <2>1, <2>2, CountFrame DEF CloseSame
<1>22. UnusedInv'
  <2> SUFFICES ASSUME NEW i \in Ids, \A x \in Streams : Live(x) => idOf[x] # i, NEW d \in Ends
               PROVE  ms'[d].acked[i] = 0 /\ View(d)'.callbacks[i] = None
    BY <1>9, <1>17 DEF UnusedInv
  <2>1. ms[d].acked[i] = 0 /\ View(d).callbacks[i] = None
    BY <1>1 DEF ControlInv, UnusedInv
  <2>2. CASE d = Connector
    BY <1>13, <1>20, <2>1, <2>2
  <2>3. CASE d = Listener
    BY <1>4, <1>6, <1>12, <1>13, <1>20, <2>1, <2>3
  <2> QED BY <2>2, <2>3, Constants
<1>23. ConnectorInv'
  <2>1. \A x \in Streams : ConnectorOK(x)'
    BY <1>1, <1>9, <1>11, <1>13, <1>17, ConnectorFrame DEF ControlInv, ConnectorInv
  <2> QED BY <1>1, <1>10, <2>1 DEF ControlInv, ConnectorInv
<1>24. ListenerInv'
  <2>1. ASSUME NEW x \in Streams PROVE ListenerOK(x)'
    <3>1. ListenerOK(x) /\ (Heard(x)' <=> Heard(x))
      BY <1>1, <1>17 DEF ControlInv, ListenerInv, CloseSame
    <3>2. CASE x = g
      <4>1. View(Listener)'.callbacks[idOf[g]] = g
        BY <1>12, <1>13
      <4> QED BY <1>4, <1>5, <1>9, <1>11, <1>17, <3>1, <3>2, <4>1 DEF ListenerOK
    <3>3. CASE x # g
      <4>1. Live(x) => View(Listener)'.callbacks[idOf[x]] = View(Listener).callbacks[idOf[x]]
        BY <1>1, <1>4, <1>6, <1>12, <1>13, <3>3, LiveUnique, LiveId
      <4> QED BY <1>9, <1>10, <1>11, <1>17, <3>1, <3>3, <4>1, ListenerFrame
    <3> QED BY <3>2, <3>3
  <2> QED BY <1>10, <1>13, <2>1 DEF ListenerInv
<1> QED BY <1>14, <1>15, <1>18, <1>19, <1>21, <1>22, <1>23, <1>24 DEF IInv, ControlInv

(***************************************************************************)
(* The connector reads data: it goes to its stream, or is dropped when the *)
(* user has closed the stream.                                             *)
(***************************************************************************)
LEMMA ConnectorDataStep ==
  ASSUME IInv, NEW s \in Sockets, chan[Listener][s] # <<>>,
         NEW p, p = Head(chan[Listener][s]), ReceiveData(Connector, s, p)
  PROVE  IInv'
<1>1. TypeInv /\ ControlInv /\ DataInv
  BY DEF IInv
<1>2. Peer(Connector) = Listener /\ Listener \in Ends /\ Connector \in Ends /\ Connector # Listener
  BY Constants
<1>3. PICK g : g = p.stream
  OBVIOUS
<1>4. p \in Packets /\ g \in Streams /\ Live(g) /\ p.id = idOf[g] /\ idOf[g] \in Ids
  BY <1>2, <1>3, ReceivedPacket
<1>5. PICK v, h : v = View(Connector) /\ h = v.callbacks[idOf[g]]
  OBVIOUS
<1>6. /\ v \in SocketStates /\ v.registration = <<>> /\ v.acked = ms[Connector].acked
      /\ v.highest = ms[Connector].highest /\ v.free = ms[Connector].free /\ Committed(v) = v
  <2>1. ms[Connector] \in SocketStates
    BY <1>1, <1>2 DEF TypeInv
  <2>2. /\ v \in SocketStates /\ v.registration = <<>> /\ v.acked = ms[Connector].acked
        /\ v.highest = ms[Connector].highest /\ v.free = ms[Connector].free
    BY <1>5, <2>1, CommittedType DEF View
  <2> QED BY <2>2, CommittedNothing
<1>7. h = g \/ (h = None /\ idOf[g] \in v.oneSided)
  <2>1. ConnectorOK(g) /\ closing[Connector][g].step \in {"no", "unregister", "announce", "done"}
    <3>1. closing[Connector][g] \in Closings
      BY <1>1, <1>2, <1>4 DEF TypeInv
    <3> QED BY <1>1, <1>4, <3>1 DEF ControlInv, ConnectorInv, Closings
  <2> QED BY <1>4, <1>5, <2>1 DEF ConnectorOK
<1>8. /\ Pop(Connector, s) /\ idOf' = idOf /\ closing' = closing /\ sent' = sent
      /\ told' = told /\ p.type = "data"
  BY DEF ReceiveData
<1>9. /\ ms' = [ms EXCEPT ![Connector] = v] /\ reactor' = reactor /\ status' = status
      /\ got' = [got EXCEPT ![Connector][g] = Append(@, p)] \/ got' = got
  <2>1. CASE h # None
    <3>1. /\ ms' = [ms EXCEPT ![Connector] = v] /\ got' = [got EXCEPT ![Connector][h] = Append(@, p)]
          /\ reactor' = reactor /\ status' = status
      BY <1>4, <1>5, <2>1, Zenon DEF ReceiveData, View
    <3>2. h = g
      BY <1>7, <2>1
    <3> QED BY <3>1, <3>2, Zenon
  <2>2. CASE h = None
    <3>1. p.id \in v.oneSided
      BY <1>4, <1>7, <2>2, Constants DEF None
    <3> QED BY <1>4, <1>5, <2>2, <3>1 DEF ReceiveData, View
  <2> QED BY <2>1, <2>2
<1>10. /\ ms'[Connector] = v /\ ms'[Listener] = ms[Listener] /\ ms' \in [Ends -> SocketStates]
  BY <1>1, <1>2, <1>6, <1>9 DEF TypeInv
<1>11. View(Connector)' = View(Connector) /\ View(Listener)' = View(Listener)
  <2>1. View(Listener)' = View(Listener)
    BY <1>10, SameView
  <2> QED BY <1>5, <1>6, <1>10, <2>1 DEF View
<1>12. DataInv' /\ got' \in [Ends -> [Streams -> Seq(Packets)]]
  <2>1. CASE got' = got
    BY <1>1, <1>2, <1>8, <2>1, PopDropData DEF TypeInv
  <2>2. CASE got' = [got EXCEPT ![Connector][g] = Append(@, p)]
    <3>1. IsData(p, g)
      BY <1>3, <1>8 DEF IsData
    <3> QED BY <1>1, <1>2, <1>4, <1>8, <2>2, <3>1, PopDeliverData
  <2> QED BY <1>9, <2>1, <2>2
<1>13. TypeInv'
  <2>1. chan' \in [Ends -> [Sockets -> Seq(Packets)]]
    BY <1>1, <1>2, <1>8, PopEffect
  <2> QED BY <1>1, <1>8, <1>9, <1>10, <1>12, <2>1 DEF TypeInv
<1>14. \A x \in Streams : \A d \in Ends, z \in Sockets :
         /\ \A type \in {"close", "ack"} : Holding(d, z, x, type)' <=> Holding(d, z, x, type)
         /\ Clear(d, z, x) => Clear(d, z, x)'
  <2> SUFFICES ASSUME NEW x \in Streams, NEW d \in Ends, NEW z \in Sockets
               PROVE  /\ \A type \in {"close", "ack"} :
                           Holding(d, z, x, type)' <=> Holding(d, z, x, type)
                      /\ Clear(d, z, x) => Clear(d, z, x)'
    OBVIOUS
  <2>1. Clear(d, z, x) => Clear(d, z, x)'
    BY <1>1, <1>2, <1>8, PopHolding
  <2>2. ASSUME NEW type \in {"close", "ack"}
        PROVE  Holding(d, z, x, type)' <=> Holding(d, z, x, type)
    <3>1. Holding(d, z, x, type)' => Holding(d, z, x, type)
      BY <1>1, <1>2, <1>8, PopHolding
    <3>2. Holding(d, z, x, type) => Holding(d, z, x, type)' \/ p.type = type
      BY <1>1, <1>2, <1>8, PopHolding
    <3> QED BY <1>8, <3>1, <3>2
  <2> QED BY <2>1, <2>2
<1>15. ASSUME NEW x \in Streams
       PROVE  CloseSame(x) /\ AckSame(x) /\ (Live(x)' <=> Live(x)) /\ (Busy(x)' <=> Busy(x))
  <2>1. CloseSame(x)
    BY <1>2, <1>8, <1>14, CloseSentFrame, CloseFrame
  <2>2. Busy(x)' <=> Busy(x)
    BY <1>9 DEF Busy
  <2>3. AckSent(x)' = AckSent(x)
    BY <1>9, <2>1, <2>2, AckSentFrame DEF CloseSame
  <2>4. AckSame(x)
    BY <1>2, <1>14, <2>3, AckFrame
  <2>5. Live(x)' <=> Live(x)
    BY <1>6, <1>8, <1>10, LiveFrame
  <2> QED BY <2>1, <2>2, <2>4, <2>5
<1>16. CreatedInv' /\ FreeInv'
  BY <1>1, <1>6, <1>8, <1>10, IdsFrame DEF ControlInv
<1>17. PacketInv'
  <2>1. \A x \in Streams : Keeps(x)
    BY <1>8, <1>15, KeepsSame
  <2> QED BY <1>1, <1>2, <1>8, <2>1, PopPackets DEF ControlInv
<1>18. \A d \in Ends : ms'[d].acked = ms[d].acked
  BY <1>6, <1>10, Constants
<1>19. CountInv'
  <2> SUFFICES ASSUME NEW x \in Streams, Live(x)' PROVE CountOK(x)'
    BY DEF CountInv
  <2>1. CountOK(x)
    BY <1>1, <1>15 DEF ControlInv, CountInv
  <2>2. CloseRead(x) \subseteq Sockets /\ AckRead(x) \subseteq Sockets
    BY <1>1, SocketSets
  <2> QED BY <1>2, <1>8, <1>14, <1>15, <1>18, <2>1, <2>2, CountFrame DEF CloseSame
<1>20. UnusedInv'
  <2>1. \A d \in Ends : View(d)' = View(d)
    BY <1>11, Constants
  <2> QED BY <1>1, <1>8, <1>15, <1>18, <2>1, UnusedFrame DEF ControlInv
<1>21. ConnectorInv'
  <2>1. \A x \in Streams : ConnectorOK(x)'
    BY <1>1, <1>8, <1>9, <1>11, <1>15, ConnectorFrame DEF ControlInv, ConnectorInv
  <2> QED BY <1>1, <1>9, <2>1 DEF ControlInv, ConnectorInv
<1>22. ListenerInv'
  <2>1. \A x \in Streams : ListenerOK(x)'
    BY <1>1, <1>8, <1>9, <1>11, <1>15, ListenerFrame DEF ControlInv, ListenerInv, CloseSame
  <2>2. \A x \in Streams : Heard(x)' <=> Heard(x)
    BY <1>15 DEF CloseSame
  <2> QED BY <1>1, <1>8, <1>9, <1>11, <1>15, <2>1, <2>2 DEF ControlInv, ListenerInv
<1> QED BY <1>12, <1>13, <1>16, <1>17, <1>19, <1>20, <1>21, <1>22 DEF IInv, ControlInv

(***************************************************************************)
(* The count of control packets of an id reaches the number of sockets     *)
(* exactly when every socket has carried one.                              *)
(***************************************************************************)
LEMMA SocketCount ==
  ASSUME NEW R \in SUBSET Sockets
  PROVE  /\ Cardinality(R) \in Nat /\ Cardinality({}) = 0
         /\ Cardinality(R) = NumSockets <=> R = Sockets
         /\ \A s : s \notin R => Cardinality(R \cup {s}) = Cardinality(R) + 1
<1>1. IsFiniteSet(Sockets) /\ Cardinality(Sockets) = NumSockets
  <2>1. 1 \in Int /\ NumSockets \in Int /\ NumSockets \in Nat \ {0}
    BY LifecycleAssumption
  <2> QED BY <2>1, FS_Interval DEF Sockets
<1>2. IsFiniteSet(R) /\ (Cardinality(R) = Cardinality(Sockets) => R = Sockets)
  BY <1>1, FS_Subset
<1>3. Cardinality(R) \in Nat
  BY <1>2, FS_CardinalityType
<1>4. ASSUME NEW s, s \notin R PROVE Cardinality(R \cup {s}) = Cardinality(R) + 1
  BY <1>2, <1>4, FS_AddElement
<1> QED BY <1>1, <1>2, <1>3, <1>4, FS_EmptySet

(***************************************************************************)
(* The listener reads a Close: it counts it, and tells the stream when it  *)
(* was the last one.                                                       *)
(***************************************************************************)
LEMMA ListenerControlStep ==
  ASSUME IInv, NEW s \in Sockets, chan[Connector][s] # <<>>,
         NEW p, p = Head(chan[Connector][s]), reactor[Listener].step = "idle",
         ReceiveControl(Listener, s, p)
  PROVE  IInv'
<1>1. TypeInv /\ ControlInv /\ DataInv
  BY DEF IInv
<1>2. Peer(Listener) = Connector /\ Listener \in Ends /\ Connector \in Ends /\ Connector # Listener
  BY Constants
<1>3. PICK g : g = p.stream
  OBVIOUS
<1>4. /\ p \in Packets /\ g \in Streams /\ Live(g) /\ p.id = idOf[g] /\ idOf[g] \in Ids
      /\ p.type = "close" /\ s \in CloseSent(g) /\ Holding(Connector, s, g, "close")
  <2>1. p.type \in {"close", "ack"}
    BY DEF ReceiveControl
  <2> QED BY <1>2, <1>3, <2>1, ReceivedPacket
<1>5. PICK i, R : i = idOf[g] /\ R = CloseRead(g)
  OBVIOUS
<1>6. R \in SUBSET Sockets /\ s \notin R /\ ~Heard(g) /\ AckSent(g) = {}
  <2>1. R \in SUBSET Sockets /\ s \notin R
    BY <1>1, <1>4, <1>5, SocketSets DEF CloseRead
  <2>2. ~Heard(g)
    BY <1>5, <2>1 DEF Heard
  <2> QED BY <2>1, <2>2 DEF AckSent
<1>7. PICK last : last \in BOOLEAN /\ (last <=> R \cup {s} = Sockets)
  <2>1. (R \cup {s} = Sockets) \in BOOLEAN
    OBVIOUS
  <2> QED BY <2>1, Zenon
<1>8. /\ ms[Listener].acked[i] = Cardinality(R) /\ Cardinality(R) \in Nat
      /\ Cardinality(R \cup {s}) = Cardinality(R) + 1
      /\ last <=> Cardinality(R) + 1 = NumSockets
  <2>1. ms[Listener].acked[i] = Cardinality(R)
    BY <1>1, <1>4, <1>5, <1>6 DEF ControlInv, CountInv, CountOK
  <2>2. Cardinality(R) \in Nat /\ Cardinality(R \cup {s}) = Cardinality(R) + 1
    BY <1>6, SocketCount
  <2>3. R \cup {s} \in SUBSET Sockets
    BY <1>6
  <2>4. Cardinality(R \cup {s}) = NumSockets <=> R \cup {s} = Sockets
    BY <2>3, SocketCount
  <2> QED BY <1>7, <2>1, <2>2, <2>4
<1>9. PICK v, h : v = View(Listener) /\ h = v.callbacks[i]
  OBVIOUS
<1>10. v.oneSided = {} /\ h = IF status[Listener][g] = "open" THEN g ELSE None
  BY <1>1, <1>4, <1>5, <1>6, <1>9 DEF ControlInv, ListenerInv, ListenerOK
<1>11. PICK m : m = [ms[Listener] EXCEPT !.acked[i] = IF last THEN 0 ELSE Cardinality(R) + 1]
  OBVIOUS
<1>12. /\ m \in SocketStates /\ m.callbacks = ms[Listener].callbacks
       /\ m.registration = ms[Listener].registration /\ m.oneSided = ms[Listener].oneSided
       /\ m.highest = ms[Listener].highest
       /\ m.acked = [ms[Listener].acked EXCEPT ![i] = IF last THEN 0 ELSE Cardinality(R) + 1]
       /\ ms[Listener] \in SocketStates
  <2>1. ms[Listener] \in SocketStates
    BY <1>1, <1>2 DEF TypeInv
  <2>2. PICK a : a = [ms[Listener].acked EXCEPT ![i] = IF last THEN 0 ELSE Cardinality(R) + 1]
    OBVIOUS
  <2>3. a \in [Ids -> Nat]
    BY <1>4, <1>5, <1>8, <2>1, <2>2 DEF SocketStates
  <2>4. m = [ms[Listener] EXCEPT !.acked = a]
    BY <1>11, <2>2
  <2> QED BY <2>1, <2>2, <2>3, <2>4, Zenon DEF SocketStates
<1>13. PICK c : c = Committed(m)
  OBVIOUS
<1>14. /\ c \in SocketStates /\ c.registration = <<>> /\ c.acked = m.acked
       /\ c.highest = m.highest /\ c.callbacks = v.callbacks /\ c.oneSided = {}
  <2>1. /\ c \in SocketStates /\ c.registration = <<>> /\ c.acked = m.acked
        /\ c.highest = m.highest
    BY <1>12, <1>13, CommittedType
  <2>2. /\ c.callbacks = v.callbacks
        /\ \A j \in Ids : j \in c.oneSided <=> j \in v.oneSided
    BY <1>9, <1>12, <1>13, CommittedSame DEF View
  <2>3. c.oneSided \in SUBSET Ids
    BY <2>1 DEF SocketStates
  <2> QED BY <1>10, <2>1, <2>2, <2>3
<1>15. /\ Pop(Listener, s) /\ idOf' = idOf /\ closing' = closing /\ sent' = sent /\ got' = got
  BY DEF ReceiveControl
<1> DEFINE Answer(step) == [Idle EXCEPT !.step = step, !.id = p.id, !.stream = p.stream]
<1>16. IF last
       THEN IF h # None
            THEN /\ ms' = [ms EXCEPT ![Listener] = c]
                 /\ status' = [status EXCEPT ![Listener][h] = "closed"]
                 /\ told' = [told EXCEPT ![Listener][h] = TRUE]
                 /\ reactor' = [reactor EXCEPT ![Listener] = Answer("erase")]
            ELSE /\ ms' = [ms EXCEPT ![Listener] = Retired(c, p.id)]
                 /\ reactor' = [reactor EXCEPT ![Listener] = Answer("ack")]
                 /\ status' = status /\ told' = told
       ELSE /\ ms' = [ms EXCEPT ![Listener].acked[p.id] = ms[Listener].acked[p.id] + 1]
            /\ status' = status /\ told' = told /\ reactor' = reactor
  <2>1. CASE last
    <3>1. ms[Listener].acked[p.id] + 1 = NumSockets
      BY <1>4, <1>5, <1>8, <2>1
    <3>2. LastControl(Listener, p, m)
      BY <1>4, <1>5, <1>11, <2>1, <3>1 DEF ReceiveControl
    <3>3. Committed(m).callbacks[p.id] = h
      BY <1>4, <1>5, <1>9, <1>13, <1>14
    <3>4. CASE h # None
      BY <1>4, <1>13, <2>1, <3>2, <3>3, <3>4, Zenon DEF LastControl
    <3>5. CASE h = None
      BY <1>4, <1>13, <2>1, <3>2, <3>3, <3>5, Zenon DEF LastControl
    <3> QED BY <3>4, <3>5, Zenon
  <2>2. CASE ~last
    <3>1. ms[Listener].acked[p.id] + 1 # NumSockets
      BY <1>4, <1>5, <1>8, <2>2
    <3> QED BY <2>2, <3>1 DEF ReceiveControl
  <2> QED BY <2>1, <2>2
<1>17. PICK w : /\ ms' = [ms EXCEPT ![Listener] = w] /\ w \in SocketStates
                /\ w.acked = m.acked /\ w.highest = ms[Listener].highest
                /\ Committed(w).callbacks = v.callbacks /\ Committed(w).oneSided = {}
  <2>1. CASE last /\ h # None
    BY <1>12, <1>14, <1>16, <2>1, CommittedNothing
  <2>2. CASE last /\ h = None
    <3>1. PICK w : w = Retired(c, p.id)
      OBVIOUS
    <3>2. /\ w \in SocketStates /\ w.registration = <<>> /\ w.acked = m.acked
          /\ w.highest = ms[Listener].highest /\ w.callbacks = v.callbacks /\ w.oneSided = {}
      BY <1>4, <1>12, <1>14, <3>1, RetiredFacts
    <3>3. Committed(w) = w
      BY <3>2, CommittedNothing
    <3> QED BY <1>16, <2>2, <3>1, <3>2, <3>3
  <2>3. CASE ~last
    <3>1. ms' = [ms EXCEPT ![Listener] = m]
      BY <1>4, <1>5, <1>8, <1>11, <1>16, <2>3
    <3> QED BY <1>12, <1>13, <1>14, <3>1
  <2> QED BY <2>1, <2>2, <2>3
<1>18. PICK b : /\ reactor' = [reactor EXCEPT ![Listener] = b] /\ b \in Reactors
                /\ ~last => b = reactor[Listener]
                /\ last => /\ b.stream = g /\ b.id = idOf[g] /\ b.next = 1
                           /\ b.step = IF h # None THEN "erase" ELSE "ack"
  <2>1. CASE last
    <3>1. PICK b : b = Answer(IF h # None THEN "erase" ELSE "ack")
      OBVIOUS
    <3>2. /\ b.stream = g /\ b.id = idOf[g] /\ b.next = 1 /\ b \in Reactors
          /\ b.step = IF h # None THEN "erase" ELSE "ack"
      BY <1>3, <1>4, <3>1, Constants DEF Idle, Reactors
    <3>3. reactor' = [reactor EXCEPT ![Listener] = b]
      <4> HIDE DEF Answer
      <4> QED BY <1>16, <2>1, <3>1
    <3> QED BY <2>1, <3>2, <3>3
  <2>2. CASE ~last
    <3>1. reactor' = reactor /\ reactor[Listener] \in Reactors
      BY <1>1, <1>2, <1>16, <2>2 DEF TypeInv
    <3>2. reactor' = [reactor EXCEPT ![Listener] = reactor[Listener]]
      BY <1>1, <1>2, <3>1 DEF TypeInv
    <3> QED BY <2>2, <3>1, <3>2
  <2> QED BY <2>1, <2>2
<1> HIDE DEF Answer
<1>19. /\ ms'[Connector] = ms[Connector] /\ ms'[Listener] = w /\ ms' \in [Ends -> SocketStates]
       /\ reactor'[Connector] = reactor[Connector] /\ reactor'[Listener] = b
       /\ reactor' \in [Ends -> Reactors]
  BY <1>1, <1>2, <1>17, <1>18 DEF TypeInv
<1>20. /\ status'[Connector] = status[Connector] /\ told'[Connector] = told[Connector]
       /\ \A x \in Streams : x # g => /\ status'[Listener][x] = status[Listener][x]
                                      /\ told'[Listener][x] = told[Listener][x]
       /\ status' \in [Ends -> [Streams -> {"none", "open", "closed"}]]
       /\ told' \in [Ends -> [Streams -> BOOLEAN]]
       /\ ~last => status'[Listener][g] = status[Listener][g] /\ told'[Listener][g] = told[Listener][g]
       /\ last => status'[Listener][g] # "open"
  <2>1. /\ status \in [Ends -> [Streams -> {"none", "open", "closed"}]]
        /\ told \in [Ends -> [Streams -> BOOLEAN]]
    BY <1>1 DEF TypeInv
  <2>2. CASE last /\ h # None
    <3>1. h = g
      BY <1>10, <2>2
    <3>2. status' = [status EXCEPT ![Listener][g] = "closed"] /\ told' = [told EXCEPT ![Listener][g] = TRUE]
      BY <1>16, <2>2, <3>1, Zenon
    <3> QED BY <1>2, <1>4, <2>1, <2>2, <3>2
  <2>3. CASE last /\ h = None
    <3>1. status[Listener][g] # "open"
      BY <1>4, <1>10, <2>3, Constants DEF None
    <3> QED BY <1>16, <2>1, <2>3, <3>1
  <2>4. CASE ~last
    BY <1>16, <2>1, <2>4
  <2> QED BY <2>2, <2>3, <2>4
<1>21. View(Connector)' = View(Connector) /\ View(Listener)'.callbacks = v.callbacks /\ View(Listener)'.oneSided = {}
  <2>1. View(Connector)' = View(Connector)
    BY <1>19, SameView
  <2> QED BY <1>17, <1>19, <2>1 DEF View
<1>22. TypeInv'
  <2>1. chan' \in [Ends -> [Sockets -> Seq(Packets)]]
    BY <1>1, <1>2, <1>15, PopEffect
  <2> QED BY <1>1, <1>15, <1>19, <1>20, <2>1 DEF TypeInv
<1>23. DataInv'
  BY <1>1, <1>2, <1>4, <1>15, PopDropData
<1>24. Clear(Connector, s, g)'
  BY <1>1, <1>2, <1>3, <1>4, <1>15, PopLast DEF ControlInv
<1>25. ASSUME NEW x \in Streams, NEW d \in Ends, NEW z \in Sockets
       PROVE  /\ Clear(d, z, x) => Clear(d, z, x)'
              /\ Holding(d, z, x, "ack")' <=> Holding(d, z, x, "ack")
              /\ x # g \/ z # s => (Holding(d, z, x, "close")' <=> Holding(d, z, x, "close"))
  <2>1. Clear(d, z, x) => Clear(d, z, x)'
    BY <1>1, <1>2, <1>15, PopHolding
  <2>2. Holding(d, z, x, "ack")' => Holding(d, z, x, "ack")
    BY <1>1, <1>2, <1>15, PopHolding
  <2>3. Holding(d, z, x, "ack") => Holding(d, z, x, "ack")' \/ p.type = "ack"
    BY <1>1, <1>2, <1>15, PopHolding
  <2>4. Holding(d, z, x, "close")' => Holding(d, z, x, "close")
    BY <1>1, <1>2, <1>15, PopHolding
  <2>5. Holding(d, z, x, "close") => Holding(d, z, x, "close")' \/ (z = s /\ p.stream = x)
    BY <1>1, <1>2, <1>15, PopHolding
  <2> QED BY <1>3, <1>4, <2>1, <2>2, <2>3, <2>4, <2>5
<1>26. CloseRead(g)' = R \cup {s} /\ (Heard(g)' <=> last)
  <2>1. ~Holding(Connector, s, g, "close")'
    BY <1>24 DEF Clear, Holding
  <2>2. CloseSent(g)' = CloseSent(g)
    BY <1>15, CloseSentFrame
  <2>3. CloseSent(g) \subseteq Sockets
    BY DEF CloseSent
  <2>4. CloseRead(g)' = R \cup {s}
    BY <1>2, <1>4, <1>5, <1>25, <2>1, <2>2, <2>3 DEF CloseRead
  <2> QED BY <1>7, <2>4 DEF Heard
<1>27. ASSUME NEW x \in Streams
       PROVE  /\ ~Busy(x) /\ (Busy(x)' <=> last /\ x = g)
              /\ (Live(x)' <=> Live(x)) /\ CloseSent(x)' = CloseSent(x)
              /\ x # g => CloseSame(x)
              /\ AckSame(x)
  <2>1. ~Busy(x)
    BY DEF Busy
  <2>2. Busy(x)' <=> last /\ x = g
    BY <1>18, <1>19 DEF Busy
  <2>3. Live(x)' <=> Live(x)
    BY <1>15, <1>19, LiveFrame
  <2>4. CloseSent(x)' = CloseSent(x)
    BY <1>15, CloseSentFrame
  <2>5. ASSUME x # g PROVE CloseSame(x)
    BY <1>2, <1>25, <2>4, <2>5, CloseFrame
  <2>6. AckSent(x)' = AckSent(x)
    <3>1. CASE x # g
      <4>1. Heard(x)' <=> Heard(x)
        BY <2>5, <3>1 DEF CloseSame
      <4> QED BY <2>1, <2>2, <3>1, <4>1, AckSentFrame
    <3>2. CASE x = g /\ last
      <4>1. ASSUME NEW z \in Sockets PROVE ~(Position(z) < 1)
        <5>1. PICK k \in Sockets : k = Position(z)
          BY PositionFacts
        <5>2. k \in Nat /\ 1 <= k
          BY PositionFacts
        <5> QED BY <5>1, <5>2
      <4>2. Busy(g)' /\ reactor'[Listener].next = 1
        BY <1>18, <1>19, <2>2, <3>2
      <4>3. AckSent(g)' = {}
        BY <4>1, <4>2 DEF AckSent
      <4> QED BY <1>6, <3>2, <4>3
    <3>3. CASE x = g /\ ~last
      <4>1. AckSent(g)' = {}
        BY <1>26, <3>3 DEF AckSent
      <4> QED BY <1>6, <3>3, <4>1
    <3> QED BY <3>1, <3>2, <3>3
  <2>7. AckSame(x)
    BY <1>2, <1>25, <2>6, AckFrame
  <2> QED BY <2>1, <2>2, <2>3, <2>4, <2>5, <2>7
<1>28. CreatedInv' /\ FreeInv'
  BY <1>1, <1>15, <1>17, <1>19, IdsFrame DEF ControlInv
<1>29. PacketInv'
  <2>1. \A x \in Streams : Keeps(x)
    BY <1>15, <1>27 DEF Keeps, AckSame
  <2> QED BY <1>1, <1>2, <1>15, <2>1, PopPackets DEF ControlInv
<1>30. /\ ms'[Connector].acked = ms[Connector].acked
       /\ ms'[Listener].acked[i] = IF last THEN 0 ELSE Cardinality(R) + 1
       /\ \A j \in Ids : j # i => ms'[Listener].acked[j] = ms[Listener].acked[j]
  <2>1. ms[Listener].acked \in [Ids -> Nat]
    BY <1>12 DEF SocketStates
  <2> QED BY <1>4, <1>5, <1>12, <1>17, <1>19, <2>1
<1>31. CountInv'
  <2> SUFFICES ASSUME NEW x \in Streams, Live(x)' PROVE CountOK(x)'
    BY DEF CountInv
  <2>1. CountOK(x) /\ Live(x)
    BY <1>1, <1>27 DEF ControlInv, CountInv
  <2>2. CASE x = g
    <3>1. \A z \in CloseRead(g)' : Clear(Connector, z, g)'
      BY <1>2, <1>4, <1>5, <1>6, <1>24, <1>25, <1>26, <2>1, <2>2 DEF CountOK
    <3>2. AckRead(g) = {} /\ AckRead(g)' = {}
      BY <1>6, <1>27, <2>2 DEF AckRead, AckSame
    <3>3. ms'[Listener].acked[idOf'[g]] = IF Heard(g)' THEN 0 ELSE Cardinality(CloseRead(g)')
      BY <1>5, <1>8, <1>15, <1>26, <1>30
    <3>4. ms'[Connector].acked[idOf'[g]] = Cardinality(AckRead(g)') /\ AckRead(g)' # Sockets
      BY <1>15, <1>30, <2>1, <2>2, <3>2 DEF CountOK
    <3> QED BY <2>2, <3>1, <3>2, <3>3, <3>4 DEF CountOK
  <2>3. CASE x # g
    <3>1. idOf[x] \in Ids /\ idOf[x] # i
      BY <1>1, <1>4, <1>5, <2>1, <2>3, LiveUnique, LiveId
    <3>2. \A d \in Ends : ms'[d].acked[idOf[x]] = ms[d].acked[idOf[x]]
      BY <1>30, <3>1, Constants
    <3>3. CloseRead(x) \subseteq Sockets /\ AckRead(x) \subseteq Sockets
      BY <1>1, SocketSets
    <3> QED BY <1>2, <1>15, <1>25, <1>27, <2>1, <2>3, <3>2, <3>3, CountFrame DEF CloseSame
  <2> QED BY <2>2, <2>3
<1>32. UnusedInv'
  <2> SUFFICES ASSUME NEW j \in Ids, \A x \in Streams : Live(x) => idOf[x] # j, NEW d \in Ends
               PROVE  ms'[d].acked[j] = 0 /\ View(d)'.callbacks[j] = None
    BY <1>15, <1>27 DEF UnusedInv
  <2>1. ms[d].acked[j] = 0 /\ View(d).callbacks[j] = None
    BY <1>1 DEF ControlInv, UnusedInv
  <2>2. CASE d = Connector
    BY <1>21, <1>30, <2>1, <2>2
  <2>3. CASE d = Listener
    BY <1>4, <1>5, <1>9, <1>21, <1>30, <2>1, <2>3
  <2> QED BY <2>2, <2>3, Constants
<1>33. ConnectorInv'
  <2>1. \A x \in Streams : ConnectorOK(x)'
    BY <1>1, <1>15, <1>20, <1>21, <1>27, ConnectorFrame DEF ControlInv, ConnectorInv
  <2> QED BY <1>1, <1>19, <2>1 DEF ControlInv, ConnectorInv
<1>34. ListenerInv'
  <2>1. ASSUME NEW x \in Streams PROVE ListenerOK(x)'
    <3>1. ListenerOK(x)
      BY <1>1 DEF ControlInv, ListenerInv
    <3>2. CASE x = g /\ last
      <4>1. View(Listener)'.callbacks[idOf[g]] = h
        BY <1>5, <1>9, <1>21
      <4>2. View(Listener)'.callbacks[idOf[g]] =
              IF reactor'[Listener].step = "erase" THEN g ELSE None
        BY <1>10, <1>18, <1>19, <3>2, <4>1
      <4>3. Heard(g)' /\ Busy(g)' /\ Live(g)' /\ idOf'[g] # 0
        BY <1>4, <1>15, <1>26, <1>27, <3>2 DEF Live
      <4> QED BY <1>15, <1>20, <3>1, <3>2, <4>2, <4>3 DEF ListenerOK
    <3>3. CASE x = g /\ ~last
      <4>1. View(Listener)'.callbacks[idOf[g]] = IF status'[Listener][g] = "open" THEN g ELSE None
        BY <1>5, <1>9, <1>10, <1>20, <1>21, <3>3
      <4>2. ~Heard(g)' /\ Live(g)'
        BY <1>4, <1>26, <1>27, <3>3
      <4>3. ~told'[Listener][g]
        BY <1>4, <1>6, <1>20, <3>1, <3>3 DEF ListenerOK
      <4> QED BY <1>15, <1>20, <3>1, <3>3, <4>1, <4>2, <4>3 DEF ListenerOK
    <3>4. CASE x # g
      <4>1. (Heard(x)' <=> Heard(x)) /\ ~Busy(x) /\ ~Busy(x)'
        BY <1>27, <3>4 DEF CloseSame
      <4>2. Live(x) => View(Listener)'.callbacks[idOf[x]] = View(Listener).callbacks[idOf[x]]
        BY <1>9, <1>21
      <4> QED BY <1>15, <1>20, <1>27, <3>1, <3>4, <4>1, <4>2, ListenerFrame
    <3> QED BY <3>2, <3>3, <3>4
  <2>2. Live(g)' /\ idOf'[g] = idOf[g] /\ (last => Heard(g)')
    BY <1>4, <1>15, <1>26, <1>27
  <2>3. CASE last
    BY <1>4, <1>18, <1>19, <1>21, <2>1, <2>2, <2>3 DEF ListenerInv
  <2>4. CASE ~last
    BY <1>18, <1>19, <1>21, <2>1, <2>4 DEF ListenerInv
  <2> QED BY <2>3, <2>4
<1> QED BY <1>22, <1>23, <1>28, <1>29, <1>31, <1>32, <1>33, <1>34 DEF IInv, ControlInv

(***************************************************************************)
(* mFreeStreamIDs once an id is given back.                                *)
(***************************************************************************)
LEMMA FreeAppend ==
  ASSUME NEW f \in Seq(Ids), NEW i \in Ids
  PROVE  /\ \A k \in DOMAIN Append(f, i) :
              \/ k \in DOMAIN f /\ Append(f, i)[k] = f[k]
              \/ k = Len(f) + 1 /\ Append(f, i)[k] = i
         /\ \A k \in DOMAIN f : k \in DOMAIN Append(f, i) /\ Append(f, i)[k] = f[k]
         /\ Len(f) + 1 \in DOMAIN Append(f, i) /\ Append(f, i)[Len(f) + 1] = i
<1>1. /\ Append(f, i) \in Seq(Ids) /\ Len(Append(f, i)) = Len(f) + 1
      /\ \A k \in 1..Len(f) : Append(f, i)[k] = f[k]
      /\ Append(f, i)[Len(f) + 1] = i
  BY AppendProperties
<1>2. Len(f) \in Nat /\ DOMAIN f = 1..Len(f) /\ DOMAIN Append(f, i) = 1..(Len(f) + 1)
  BY <1>1, LenProperties
<1>3. \A k \in 1..(Len(f) + 1) : k \in 1..Len(f) \/ k = Len(f) + 1
  BY <1>2
<1>4. Len(f) + 1 \in 1..(Len(f) + 1) /\ \A k \in 1..Len(f) : k \in 1..(Len(f) + 1)
  BY <1>2
<1> QED BY <1>1, <1>2, <1>3, <1>4

(***************************************************************************)
(* The connector reads an Ack: it counts it, and gives the id back when it *)
(* was the last one.                                                       *)
(***************************************************************************)
LEMMA ConnectorControlStep ==
  ASSUME IInv, NEW s \in Sockets, chan[Listener][s] # <<>>,
         NEW p, p = Head(chan[Listener][s]), ReceiveControl(Connector, s, p)
  PROVE  IInv'
<1>1. TypeInv /\ ControlInv /\ DataInv
  BY DEF IInv
<1>2. Peer(Connector) = Listener /\ Listener \in Ends /\ Connector \in Ends /\ Connector # Listener
  BY Constants
<1>3. PICK g : g = p.stream
  OBVIOUS
<1>4. /\ p \in Packets /\ g \in Streams /\ Live(g) /\ p.id = idOf[g] /\ idOf[g] \in Ids
      /\ p.type = "ack" /\ s \in AckSent(g) /\ Holding(Listener, s, g, "ack")
  <2>1. p.type \in {"close", "ack"}
    BY DEF ReceiveControl
  <2> QED BY <1>2, <1>3, <2>1, ReceivedPacket
<1>5. PICK i, R : i = idOf[g] /\ R = AckRead(g)
  OBVIOUS
<1>6. R \in SUBSET Sockets /\ s \notin R /\ Heard(g) /\ R \subseteq AckSent(g) /\ AckSent(g) \subseteq Sockets
  BY <1>1, <1>4, <1>5, SocketSets DEF AckRead
<1>7. PICK last : last \in BOOLEAN /\ (last <=> R \cup {s} = Sockets)
  <2>1. (R \cup {s} = Sockets) \in BOOLEAN
    OBVIOUS
  <2> QED BY <2>1, Zenon
<1>8. /\ ms[Connector].acked[i] = Cardinality(R) /\ Cardinality(R) \in Nat
      /\ Cardinality(R \cup {s}) = Cardinality(R) + 1
      /\ last <=> Cardinality(R) + 1 = NumSockets
  <2>1. ms[Connector].acked[i] = Cardinality(R)
    BY <1>1, <1>4, <1>5 DEF ControlInv, CountInv, CountOK
  <2>2. Cardinality(R) \in Nat /\ Cardinality(R \cup {s}) = Cardinality(R) + 1
    BY <1>6, SocketCount
  <2>3. R \cup {s} \in SUBSET Sockets
    BY <1>6
  <2>4. Cardinality(R \cup {s}) = NumSockets <=> R \cup {s} = Sockets
    BY <2>3, SocketCount
  <2> QED BY <1>7, <2>1, <2>2, <2>4
<1>9. PICK v : v = View(Connector)
  OBVIOUS
<1>10. PICK m : m = [ms[Connector] EXCEPT !.acked[i] = IF last THEN 0 ELSE Cardinality(R) + 1]
  OBVIOUS
<1>11. /\ m \in SocketStates /\ m.callbacks = ms[Connector].callbacks
       /\ m.registration = ms[Connector].registration /\ m.oneSided = ms[Connector].oneSided
       /\ m.highest = ms[Connector].highest /\ m.free = ms[Connector].free
       /\ m.acked = [ms[Connector].acked EXCEPT ![i] = IF last THEN 0 ELSE Cardinality(R) + 1]
       /\ ms[Connector] \in SocketStates
  <2>1. ms[Connector] \in SocketStates
    BY <1>1, <1>2 DEF TypeInv
  <2>2. PICK a : a = [ms[Connector].acked EXCEPT ![i] = IF last THEN 0 ELSE Cardinality(R) + 1]
    OBVIOUS
  <2>3. a \in [Ids -> Nat]
    BY <1>4, <1>5, <1>8, <2>1, <2>2 DEF SocketStates
  <2>4. m = [ms[Connector] EXCEPT !.acked = a]
    BY <1>10, <2>2
  <2> QED BY <2>1, <2>2, <2>3, <2>4, Zenon DEF SocketStates
<1>12. /\ Pop(Connector, s) /\ idOf' = idOf /\ closing' = closing /\ sent' = sent /\ got' = got
  BY DEF ReceiveControl
<1>13. /\ ms' = [ms EXCEPT ![Connector] = IF last THEN Retired(m, i) ELSE m]
       /\ reactor' = reactor /\ status' = status /\ told' = told
  <2>1. CASE last
    <3>1. ms[Connector].acked[p.id] + 1 = NumSockets
      BY <1>4, <1>5, <1>8, <2>1
    <3>2. LastControl(Connector, p, m)
      BY <1>4, <1>5, <1>10, <2>1, <3>1 DEF ReceiveControl
    <3> QED BY <1>4, <1>5, <2>1, <3>2 DEF LastControl
  <2>2. CASE ~last
    <3>1. ms[Connector].acked[p.id] + 1 # NumSockets
      BY <1>4, <1>5, <1>8, <2>2
    <3>2. /\ ms' = [ms EXCEPT ![Connector].acked[p.id] = ms[Connector].acked[p.id] + 1]
          /\ reactor' = reactor /\ status' = status /\ told' = told
      BY <3>1 DEF ReceiveControl
    <3> QED BY <1>4, <1>5, <1>8, <1>10, <2>2, <3>2
  <2> QED BY <2>1, <2>2
<1>14. i % 2 = ms[Connector].highest % 2
  BY <1>1, <1>4, <1>5 DEF ControlInv, CreatedInv, CreatedUpTo, Live
<1>15. PICK w : /\ ms' = [ms EXCEPT ![Connector] = w] /\ w \in SocketStates
                /\ w.acked = m.acked /\ w.highest = ms[Connector].highest
                /\ Committed(w).callbacks = v.callbacks
                /\ \A j \in Ids : j # i \/ ~last =>
                     (j \in Committed(w).oneSided <=> j \in v.oneSided)
                /\ w.free = IF last THEN Append(ms[Connector].free, i) ELSE ms[Connector].free
  <2>1. PICK w : w = IF last THEN Retired(m, i) ELSE m
    OBVIOUS
  <2>2. /\ w \in SocketStates /\ w.acked = m.acked /\ w.highest = m.highest
        /\ w.callbacks = m.callbacks /\ w.registration = m.registration
        /\ w.oneSided = IF last THEN m.oneSided \ {i} ELSE m.oneSided
        /\ w.free = IF last THEN Append(m.free, i) ELSE m.free
    <3>1. CASE last
      <4>1. w = Retired(m, i) /\ m \in SocketStates /\ i \in Ids /\ i % 2 = m.highest % 2
        BY <1>4, <1>5, <1>11, <1>14, <2>1, <3>1
      <4> QED BY <3>1, <4>1, RetiredFacts
    <3>2. CASE ~last
      BY <1>11, <2>1, <3>2
    <3> QED BY <3>1, <3>2
  <2>3. /\ Committed(w).callbacks = v.callbacks
        /\ \A j \in Ids : (j \in w.oneSided <=> j \in ms[Connector].oneSided) =>
             (j \in Committed(w).oneSided <=> j \in v.oneSided)
    BY <1>9, <1>11, <2>2, CommittedSame DEF View
  <2> QED BY <1>11, <1>13, <2>1, <2>2, <2>3
<1>16. /\ ms'[Connector] = w /\ ms'[Listener] = ms[Listener] /\ ms' \in [Ends -> SocketStates]
  BY <1>1, <1>2, <1>15 DEF TypeInv
<1>17. /\ View(Listener)' = View(Listener) /\ View(Connector)'.callbacks = v.callbacks
       /\ \A j \in Ids : j # i \/ ~last => (j \in View(Connector)'.oneSided <=> j \in v.oneSided)
  <2>1. View(Listener)' = View(Listener)
    BY <1>16, SameView
  <2> QED BY <1>15, <1>16, <2>1 DEF View
<1>18. TypeInv'
  <2>1. chan' \in [Ends -> [Sockets -> Seq(Packets)]]
    BY <1>1, <1>2, <1>12, PopEffect
  <2> QED BY <1>1, <1>12, <1>13, <1>16, <2>1 DEF TypeInv
<1>19. DataInv'
  BY <1>1, <1>2, <1>4, <1>12, PopDropData
<1>20. Clear(Listener, s, g)'
  BY <1>1, <1>2, <1>3, <1>4, <1>12, PopLast DEF ControlInv
<1>21. ASSUME NEW x \in Streams, NEW d \in Ends, NEW z \in Sockets
       PROVE  /\ Clear(d, z, x) => Clear(d, z, x)'
              /\ Holding(d, z, x, "close")' <=> Holding(d, z, x, "close")
              /\ x # g \/ z # s => (Holding(d, z, x, "ack")' <=> Holding(d, z, x, "ack"))
  <2>1. Clear(d, z, x) => Clear(d, z, x)'
    BY <1>1, <1>2, <1>12, PopHolding
  <2>2. Holding(d, z, x, "close")' => Holding(d, z, x, "close")
    BY <1>1, <1>2, <1>12, PopHolding
  <2>3. Holding(d, z, x, "close") => Holding(d, z, x, "close")' \/ p.type = "close"
    BY <1>1, <1>2, <1>12, PopHolding
  <2>4. Holding(d, z, x, "ack")' => Holding(d, z, x, "ack")
    BY <1>1, <1>2, <1>12, PopHolding
  <2>5. Holding(d, z, x, "ack") => Holding(d, z, x, "ack")' \/ (z = s /\ p.stream = x)
    BY <1>1, <1>2, <1>12, PopHolding
  <2> QED BY <1>3, <1>4, <2>1, <2>2, <2>3, <2>4, <2>5
<1>22. ASSUME NEW x \in Streams
       PROVE  /\ CloseSame(x) /\ (Busy(x)' <=> Busy(x)) /\ AckSent(x)' = AckSent(x)
              /\ x # g => AckSame(x)
  <2>1. CloseSame(x)
    BY <1>2, <1>12, <1>21, CloseSentFrame, CloseFrame
  <2>2. Busy(x)' <=> Busy(x)
    BY <1>13 DEF Busy
  <2>3. AckSent(x)' = AckSent(x)
    BY <1>13, <2>1, <2>2, AckSentFrame DEF CloseSame
  <2>4. ASSUME x # g PROVE AckSame(x)
    BY <1>2, <1>21, <2>3, <2>4, AckFrame
  <2> QED BY <2>1, <2>2, <2>3, <2>4
<1>23. AckRead(g)' = R \cup {s}
  <2>1. ~Holding(Listener, s, g, "ack")'
    BY <1>20 DEF Clear, Holding
  <2> QED BY <1>2, <1>4, <1>5, <1>6, <1>21, <1>22, <2>1 DEF AckRead
<1>24. /\ ms'[Listener].acked = ms[Listener].acked
       /\ ms'[Connector].acked[i] = IF last THEN 0 ELSE Cardinality(R) + 1
       /\ \A j \in Ids : j # i => ms'[Connector].acked[j] = ms[Connector].acked[j]
  <2>1. ms[Connector].acked \in [Ids -> Nat]
    BY <1>11 DEF SocketStates
  <2> QED BY <1>4, <1>5, <1>11, <1>15, <1>16, <2>1
<1>25. CreatedInv'
  BY <1>1, <1>12, <1>15, <1>16 DEF ControlInv, CreatedInv, CreatedUpTo
<1>26. \A j : GivenBack(j)' <=> GivenBack(j) \/ (last /\ j = i)
  <2>1. ms[Connector].free \in Seq(Ids) /\ ms'[Connector].free = w.free
    BY <1>11, <1>16 DEF SocketStates
  <2>2. PICK f, h : f = ms[Connector].free /\ h = w.free
    OBVIOUS
  <2>3. CASE last
    <3>1. h = Append(f, i)
      BY <1>15, <2>2, <2>3
    <3>2. /\ \A k \in DOMAIN h : \/ k \in DOMAIN f /\ h[k] = f[k]
                                 \/ k = Len(f) + 1 /\ h[k] = i
          /\ \A k \in DOMAIN f : k \in DOMAIN h /\ h[k] = f[k]
          /\ Len(f) + 1 \in DOMAIN h /\ h[Len(f) + 1] = i
      BY <1>4, <1>5, <2>1, <2>2, <3>1, FreeAppend
    <3>3. \A j : (\E k \in DOMAIN h : h[k] = j) <=> (\E k \in DOMAIN f : f[k] = j) \/ j = i
      BY <3>2, Zenon
    <3>4. ASSUME NEW j
          PROVE  /\ GivenBack(j)' <=> \E k \in DOMAIN h : h[k] = j
                 /\ GivenBack(j) <=> \E k \in DOMAIN f : f[k] = j
      <4>1. GivenBack(j)' <=> \E k \in DOMAIN ms'[Connector].free : ms'[Connector].free[k] = j
        BY DEF GivenBack
      <4>2. ms'[Connector].free = h
        BY <2>1, <2>2
      <4>3. GivenBack(j) <=> \E k \in DOMAIN f : f[k] = j
        BY <2>2 DEF GivenBack
      <4> QED BY <4>1, <4>2, <4>3
    <3> QED BY <2>3, <3>3, <3>4
  <2>4. CASE ~last
    BY <1>15, <2>1, <2>4 DEF GivenBack
  <2> QED BY <2>3, <2>4
<1>27. Live(g)' <=> ~last
  BY <1>4, <1>5, <1>12, <1>26 DEF Live
<1>28. ASSUME NEW x \in Streams, x # g PROVE Live(x)' <=> Live(x)
  <2>1. Live(x) => idOf[x] # i
    BY <1>4, <1>5, <1>28, LiveUnique
  <2> QED BY <1>12, <1>26, <2>1 DEF Live
<1>29. last => /\ CloseRead(g) = Sockets /\ CloseSent(g) = Sockets /\ AckSent(g) = Sockets
               /\ ~Busy(g) /\ closing[Connector][g].step = "done"
  <2>1. last => AckSent(g) = Sockets
    BY <1>4, <1>6, <1>7
  <2> QED BY <1>1, <1>4, <1>6, <2>1, SocketSets DEF Heard
<1>30. CountOK(g)
  BY <1>1, <1>4 DEF ControlInv, CountInv
<1>31. ASSUME last, NEW d \in Ends, NEW z \in Sockets PROVE Clear(d, z, g)'
  <2>1. CASE d = Connector
    <3>1. Clear(Connector, z, g)
      BY <1>29, <1>30, <1>31 DEF CountOK
    <3> QED BY <1>2, <1>4, <1>21, <2>1, <3>1
  <2>2. CASE d = Listener /\ z \in R
    <3>1. Clear(Listener, z, g)
      BY <1>5, <1>30, <2>2 DEF CountOK
    <3> QED BY <1>2, <1>4, <1>21, <2>2, <3>1
  <2>3. CASE d = Listener /\ z = s
    BY <1>20, <2>3
  <2> QED BY <1>7, <1>31, <2>1, <2>2, <2>3, Constants
<1>32. FreeInv'
  <2>1. CASE last
    <3>1. PICK f, h : f = ms[Connector].free /\ h = ms'[Connector].free
      OBVIOUS
    <3>2. f \in Seq(Ids) /\ h = Append(f, i)
      BY <1>11, <1>15, <1>16, <2>1, <3>1 DEF SocketStates
    <3>3. /\ \A k \in DOMAIN h : \/ k \in DOMAIN f /\ h[k] = f[k]
                                 \/ k = Len(f) + 1 /\ h[k] = i
          /\ \A k \in DOMAIN f : k \in DOMAIN h /\ h[k] = f[k]
      BY <1>4, <1>5, <3>2, FreeAppend
    <3>4. \A k \in DOMAIN f : f[k] # i
      BY <1>4, <1>5, <3>1 DEF Live, GivenBack
    <3>5. /\ \A j, k \in DOMAIN f : f[j] = f[k] => j = k
          /\ \A k \in DOMAIN f : \E x \in Streams : idOf[x] = f[k]
      BY <1>1, <3>1 DEF ControlInv, FreeInv
    <3>6. \A j, k \in DOMAIN h : h[j] = h[k] => j = k
      BY <3>3, <3>4, <3>5, Zenon
    <3>7. \A k \in DOMAIN h : \E x \in Streams : idOf[x] = h[k]
      BY <1>4, <1>5, <3>3, <3>5, Zenon
    <3> QED BY <1>12, <3>1, <3>6, <3>7 DEF FreeInv
  <2>2. CASE ~last
    BY <1>1, <1>12, <1>15, <1>16, <2>2 DEF ControlInv, FreeInv
  <2> QED BY <2>1, <2>2
<1>33. PacketInv'
  <2>1. ASSUME NEW x \in Streams, x # g \/ ~last PROVE Keeps(x)
    <3>1. Live(x) => Live(x)'
      BY <1>27, <1>28, <2>1
    <3> QED BY <1>12, <1>22, <3>1 DEF Keeps, CloseSame
  <2>2. \A x \in Streams : Keeps(x) \/ \A d \in Ends, z \in Sockets : Clear(d, z, x)'
    BY <1>31, <2>1
  <2> QED BY <1>1, <1>2, <1>12, <2>2, PopPackets DEF ControlInv
<1>34. CountInv'
  <2> SUFFICES ASSUME NEW x \in Streams, Live(x)' PROVE CountOK(x)'
    BY DEF CountInv
  <2>1. CASE x = g
    <3>1. ~last
      BY <1>27, <2>1
    <3>2. CloseRead(g)' = CloseRead(g) /\ (Heard(g)' <=> Heard(g))
      BY <1>4, <1>22 DEF CloseSame
    <3>3. \A z \in CloseRead(g)' : Clear(Connector, z, g)'
      <4>1. CloseRead(g) \subseteq Sockets
        BY <1>1, <1>4, SocketSets
      <4> QED BY <1>2, <1>4, <1>21, <1>30, <3>2, <4>1 DEF CountOK
    <3>4. \A z \in AckRead(g)' : Clear(Listener, z, g)'
      <4>1. ASSUME NEW z \in R PROVE Clear(Listener, z, g)'
        <5>1. Clear(Listener, z, g) /\ z \in Sockets
          BY <1>5, <1>6, <1>30, <4>1 DEF CountOK
        <5> QED BY <1>2, <1>4, <1>21, <5>1
      <4> QED BY <1>20, <1>23, <4>1
    <3>5. ms'[Listener].acked[idOf'[g]] = IF Heard(g)' THEN 0 ELSE Cardinality(CloseRead(g)')
      BY <1>12, <1>24, <1>30, <3>2 DEF CountOK
    <3>6. ms'[Connector].acked[idOf'[g]] = Cardinality(AckRead(g)')
      BY <1>5, <1>8, <1>12, <1>23, <1>24, <3>1
    <3>7. AckRead(g)' # Sockets
      BY <1>7, <1>23, <3>1
    <3> QED BY <2>1, <3>3, <3>4, <3>5, <3>6, <3>7 DEF CountOK
  <2>2. CASE x # g
    <3>1. Live(x) /\ CountOK(x)
      BY <1>1, <1>28, <2>2 DEF ControlInv, CountInv
    <3>2. idOf[x] \in Ids /\ idOf[x] # i
      BY <1>1, <1>4, <1>5, <2>2, <3>1, LiveUnique, LiveId
    <3>3. \A d \in Ends : ms'[d].acked[idOf[x]] = ms[d].acked[idOf[x]]
      BY <1>24, <3>2, Constants
    <3>4. CloseRead(x) \subseteq Sockets /\ AckRead(x) \subseteq Sockets
      BY <1>1, SocketSets
    <3> QED BY <1>2, <1>12, <1>21, <1>22, <2>2, <3>1, <3>3, <3>4, CountFrame DEF CloseSame
  <2> QED BY <2>1, <2>2
<1>35. UnusedInv'
  <2> SUFFICES ASSUME NEW j \in Ids, \A x \in Streams : Live(x)' => idOf[x] # j, NEW d \in Ends
               PROVE  ms'[d].acked[j] = 0 /\ View(d)'.callbacks[j] = None
    BY <1>12 DEF UnusedInv
  <2>1. CASE j = i
    <3>1. last
      BY <1>4, <1>5, <1>27, <2>1
    <3>2. ms'[Connector].acked[i] = 0 /\ ms'[Listener].acked[i] = 0
      BY <1>5, <1>6, <1>24, <1>30, <3>1 DEF CountOK
    <3>3. View(Connector).callbacks[i] = None
      BY <1>1, <1>4, <1>5, <1>29, <3>1 DEF ControlInv, ConnectorInv, ConnectorOK
    <3>4. View(Listener).callbacks[i] = None
      BY <1>1, <1>4, <1>5, <1>6, <1>29, <3>1 DEF ControlInv, ListenerInv, ListenerOK
    <3>5. CASE d = Connector
      BY <1>9, <1>17, <2>1, <3>2, <3>3, <3>5
    <3>6. CASE d = Listener
      BY <1>17, <2>1, <3>2, <3>4, <3>6
    <3> QED BY <3>5, <3>6, Constants
  <2>2. CASE j # i
    <3>1. \A x \in Streams : Live(x) => idOf[x] # j
      BY <1>5, <1>28, <2>2
    <3>2. ms[d].acked[j] = 0 /\ View(d).callbacks[j] = None
      BY <1>1, <3>1 DEF ControlInv, UnusedInv
    <3>3. CASE d = Connector
      BY <1>9, <1>17, <1>24, <2>2, <3>2, <3>3
    <3>4. CASE d = Listener
      BY <1>17, <1>24, <3>2, <3>4
    <3> QED BY <3>3, <3>4, Constants
  <2> QED BY <2>1, <2>2
<1>36. ConnectorInv'
  <2>1. ASSUME NEW x \in Streams PROVE ConnectorOK(x)'
    <3>1. ConnectorOK(x)
      BY <1>1 DEF ControlInv, ConnectorInv
    <3>2. CASE x = g /\ last
      <4>1. ~Live(g)' /\ closing[Connector][g].step = "done"
        BY <1>27, <1>29, <3>2
      <4> QED BY <1>12, <1>13, <3>1, <3>2, <4>1 DEF ConnectorOK
    <3>3. CASE x # g \/ ~last
      <4>1. Live(x)' <=> Live(x)
        BY <1>4, <1>27, <1>28, <3>3
      <4>2. Live(x) => idOf[x] \in Ids /\ (idOf[x] # i \/ ~last)
        BY <1>1, <1>4, <1>5, <3>3, LiveUnique, LiveId
      <4>3. Live(x) => /\ View(Connector)'.callbacks[idOf[x]] = View(Connector).callbacks[idOf[x]]
                       /\ idOf[x] \in View(Connector).oneSided => idOf[x] \in View(Connector)'.oneSided
        BY <1>9, <1>17, <4>2
      <4> QED BY <1>12, <1>13, <3>1, <4>1, <4>3, ConnectorFrame
    <3> QED BY <3>2, <3>3
  <2> QED BY <1>1, <1>13, <2>1 DEF ControlInv, ConnectorInv
<1>37. ListenerInv'
  <2>1. ASSUME NEW x \in Streams PROVE ListenerOK(x)'
    <3>1. ListenerOK(x) /\ ConnectorOK(x)
      BY <1>1 DEF ControlInv, ListenerInv, ConnectorInv
    <3>2. CASE x = g /\ last
      <4>1. ~Live(g)' /\ status[Listener][g] # "open" /\ idOf[g] # 0
        BY <1>4, <1>6, <1>27, <3>1, <3>2 DEF ListenerOK, Live
      <4> QED BY <1>12, <1>13, <3>1, <3>2, <4>1 DEF ListenerOK
    <3>3. CASE x # g \/ ~last
      <4>1. Live(x)' <=> Live(x)
        BY <1>4, <1>27, <1>28, <3>3
      <4>2. Heard(x)' <=> Heard(x)
        BY <1>22 DEF CloseSame
      <4> QED BY <1>12, <1>13, <1>17, <1>22, <3>1, <4>1, <4>2, ListenerFrame
    <3> QED BY <3>2, <3>3
  <2>2. PICK r : r = reactor[Listener]
    OBVIOUS
  <2>3. /\ r.step # "idle" => /\ r.stream \in Streams /\ Live(r.stream)
                              /\ r.id = idOf[r.stream] /\ Heard(r.stream)
        /\ r.step = "erase" => r.next = 1
    BY <1>1, <2>2 DEF ControlInv, ListenerInv
  <2>4. r.step # "idle" => Live(r.stream)' /\ Heard(r.stream)'
    <3>1. r.step # "idle" => (r.stream # g \/ ~last)
      BY <1>29, <2>2 DEF Busy
    <3>2. r.step # "idle" => Live(r.stream)'
      BY <1>27, <1>28, <2>3, <3>1
    <3> QED BY <1>22, <2>3, <3>2 DEF CloseSame
  <2> QED BY <1>1, <1>12, <1>13, <1>17, <2>1, <2>2, <2>3, <2>4 DEF ControlInv, ListenerInv
<1> QED BY <1>18, <1>19, <1>25, <1>32, <1>33, <1>34, <1>35, <1>36, <1>37 DEF IInv, ControlInv

(***************************************************************************)
(* getNewID: the id handed out is odd, stands for no stream, and is taken  *)
(* off the list of free ids.                                               *)
(***************************************************************************)
LEMMA FreeTail ==
  ASSUME NEW f \in Seq(Ids), f # <<>>, \A j, k \in DOMAIN f : f[j] = f[k] => j = k
  PROVE  /\ Tail(f) \in Seq(Ids) /\ Head(f) \in Ids
         /\ \E k \in DOMAIN f : f[k] = Head(f)
         /\ \A j, k \in DOMAIN Tail(f) : Tail(f)[j] = Tail(f)[k] => j = k
         /\ \A i : (\E k \in DOMAIN Tail(f) : Tail(f)[k] = i) <=>
                   (\E k \in DOMAIN f : f[k] = i) /\ i # Head(f)
<1>1. /\ Tail(f) \in Seq(Ids) /\ Len(Tail(f)) = Len(f) - 1 /\ Head(f) \in Ids
      /\ \A k \in 1..Len(Tail(f)) : Tail(f)[k] = f[k + 1]
  BY HeadTailProperties
<1>2. Len(f) \in Nat \ {0} /\ DOMAIN f = 1..Len(f) /\ Head(f) = f[1]
  BY EmptySeq, LenProperties
<1>3. PICK n \in Nat \ {0} : n = Len(f)
  BY <1>2
<1>4. PICK t : t = Tail(f)
  OBVIOUS
<1>5. DOMAIN f = 1..n /\ DOMAIN t = 1..(n - 1) /\ \A k \in 1..(n - 1) : t[k] = f[k + 1]
  BY <1>1, <1>2, <1>3, <1>4, LenProperties
<1>6. \A k \in 1..(n - 1) : k + 1 \in 1..n /\ k + 1 # 1
  BY <1>3
<1>7. \A k \in 1..n : k # 1 => k - 1 \in 1..(n - 1) /\ (k - 1) + 1 = k
  BY <1>3
<1>8. 1 \in 1..n
  BY <1>3
<1>9. ASSUME NEW j \in 1..(n - 1), NEW k \in 1..(n - 1), t[j] = t[k] PROVE j = k
  <2>1. j + 1 = k + 1
    BY <1>5, <1>6, <1>9
  <2> QED BY <1>3, <2>1
<1>10. ASSUME NEW i, NEW k \in 1..(n - 1), t[k] = i
       PROVE  (\E l \in DOMAIN f : f[l] = i) /\ i # Head(f)
  BY <1>2, <1>5, <1>6, <1>8, <1>10
<1>11. ASSUME NEW i, NEW k \in 1..n, f[k] = i, i # Head(f)
       PROVE  \E l \in 1..(n - 1) : t[l] = i
  <2>1. k # 1
    BY <1>2, <1>11
  <2>2. k - 1 \in 1..(n - 1) /\ t[k - 1] = f[k]
    BY <1>5, <1>7, <2>1
  <2> QED BY <1>11, <2>2
<1>12. \A j, k \in DOMAIN t : t[j] = t[k] => j = k
  BY <1>5, <1>9
<1>13. \A i : (\E k \in DOMAIN t : t[k] = i) <=> (\E k \in DOMAIN f : f[k] = i) /\ i # Head(f)
  BY <1>5, <1>10, <1>11
<1> QED BY <1>1, <1>2, <1>4, <1>5, <1>8, <1>12, <1>13

(***************************************************************************)
(* The connecting end hands out odd ids: the next one is odd and within    *)
(* the range of ids.                                                       *)
(***************************************************************************)
LEMMA NextOdd ==
  ASSUME NEW top \in Nat, NEW last \in Nat, top <= 2 * last - 1, top % 2 = 1
  PROVE  /\ (top + 2) % 2 = 1 /\ top + 2 \in Nat /\ top <= top + 2 /\ top <= top /\ ~(top + 2 <= top)
         /\ top + 2 <= 2 * (last + 1) - 1 /\ top <= 2 * (last + 1) - 1
<1>1. (top + 2) % 2 = 1
  OBVIOUS
<1>2. /\ top + 2 \in Nat /\ top <= top + 2 /\ top <= top /\ ~(top + 2 <= top)
      /\ top + 2 <= 2 * (last + 1) - 1 /\ top <= 2 * (last + 1) - 1
  OBVIOUS
<1> QED BY <1>1, <1>2

(***************************************************************************)
(* The next stream that cloneFrom creates comes after all the streams that *)
(* have an id, and the next new id is larger than all of theirs.           *)
(***************************************************************************)
LEMMA NextStream ==
  ASSUME TypeInv, CreatedInv, NEW g \in Streams, idOf[g] = 0,
         \A h \in Streams : h < g => idOf[h] # 0, NEW top, top = ms[Connector].highest
  PROVE  /\ \A x \in Streams : idOf[x] # 0 <=> x < g
         /\ \A x \in Streams : idOf[x] <= top /\ (idOf[x] # 0 => idOf[x] % 2 = 1)
         /\ top \in Nat /\ top % 2 = 1 /\ top <= 2 * g - 1
         /\ (top + 2) % 2 = 1 /\ top + 2 <= 2 * g - 1 /\ top + 2 \in Ids /\ ~(top + 2 <= top)
<1>1. top \in Nat /\ top % 2 = 1
  BY Constants DEF TypeInv, SocketStates, CreatedInv
<1>2. PICK last \in Streams : CreatedUpTo(last)
  BY DEF CreatedInv
<1>3. /\ g \in Nat /\ last \in Nat /\ MaxStreams \in Nat /\ g <= MaxStreams /\ 1 <= g /\ 1 <= last
      /\ Streams = 1..MaxStreams /\ Ids = 1..(2 * MaxStreams + 1)
  BY LifecycleAssumption DEF Streams, Ids
<1>4. \A x \in Streams : idOf[x] # 0 <=> x <= last
  BY <1>2 DEF CreatedUpTo
<1>5. g = last + 1
  <2>1. last < g
    BY <1>3, <1>4
  <2>2. ~(last + 1 < g)
    <3>1. last + 1 < g => last + 1 \in Streams
      BY <1>3
    <3>2. ~(last + 1 <= last)
      BY <1>3
    <3> QED BY <1>4, <3>1, <3>2
  <2> QED BY <1>3, <2>1, <2>2
<1>6. \A x \in Streams : idOf[x] # 0 <=> x < g
  <2>1. \A x \in Streams : x <= last <=> x < g
    BY <1>3, <1>5
  <2> QED BY <1>4, <2>1
<1>7. /\ top <= 2 * last - 1
      /\ \A x \in Streams : idOf[x] <= top /\ (idOf[x] # 0 => idOf[x] % 2 = 1)
  BY <1>2 DEF CreatedUpTo
<1>8. /\ (top + 2) % 2 = 1 /\ top + 2 <= 2 * g - 1 /\ ~(top + 2 <= top) /\ top <= 2 * g - 1
  BY <1>1, <1>3, <1>5, <1>7, NextOdd
<1>9. top + 2 \in Ids
  BY <1>1, <1>3, <1>8
<1> QED BY <1>1, <1>6, <1>7, <1>8, <1>9

(***************************************************************************)
(* An id that stream g may be given: f2 and top2 are the free ids and the  *)
(* highest id that remain.                                                 *)
(***************************************************************************)
NewIdOK(g, id, f2, top2) ==
  /\ id \in Ids /\ id % 2 = 1 /\ id <= top2 /\ top2 \in Nat /\ ms[Connector].highest <= top2
  /\ top2 <= 2 * g - 1 /\ top2 % 2 = 1 /\ f2 \in Seq(Ids)
  /\ \A x \in Streams : idOf[x] # 0 <=> x < g
  /\ \A x \in Streams : Live(x) => idOf[x] # id
  /\ \A i : (\E k \in DOMAIN f2 : f2[k] = i) <=> GivenBack(i) /\ i # id
  /\ \A j, k \in DOMAIN f2 : f2[j] = f2[k] => j = k

(***************************************************************************)
(* getNewID with a free id: no live stream has it, and it is no longer     *)
(* free.                                                                   *)
(***************************************************************************)
LEMMA FreeIdOK ==
  ASSUME TypeInv, CreatedInv, FreeInv, NEW g \in Streams, idOf[g] = 0,
         \A h \in Streams : h < g => idOf[h] # 0, ms[Connector].free # <<>>
  PROVE  NewIdOK(g, Head(ms[Connector].free), Tail(ms[Connector].free), ms[Connector].highest)
<1>1. PICK f, top : f = ms[Connector].free /\ top = ms[Connector].highest
  OBVIOUS
<1>2. f \in Seq(Ids) /\ f # <<>>
  BY <1>1, Constants DEF TypeInv, SocketStates
<1>3. /\ \A x \in Streams : idOf[x] # 0 <=> x < g
      /\ \A x \in Streams : idOf[x] <= top /\ (idOf[x] # 0 => idOf[x] % 2 = 1)
      /\ top \in Nat /\ top % 2 = 1 /\ top <= 2 * g - 1
  BY <1>1, NextStream
<1>4. /\ \A j, k \in DOMAIN f : f[j] = f[k] => j = k
      /\ \A k \in DOMAIN f : \E x \in Streams : idOf[x] = f[k]
  BY <1>1 DEF FreeInv
<1>5. \A i : GivenBack(i) <=> \E k \in DOMAIN f : f[k] = i
  BY <1>1 DEF GivenBack
<1>6. PICK id, f2 : id = Head(f) /\ f2 = Tail(f)
  OBVIOUS
<1>7. /\ f2 \in Seq(Ids) /\ id \in Ids
      /\ \E k \in DOMAIN f : f[k] = id
      /\ \A j, k \in DOMAIN f2 : f2[j] = f2[k] => j = k
      /\ \A i : (\E k \in DOMAIN f2 : f2[k] = i) <=> (\E k \in DOMAIN f : f[k] = i) /\ i # id
  <2>1. \A j, k \in DOMAIN f : f[j] = f[k] => j = k
    BY <1>4
  <2> QED BY <1>2, <1>6, <2>1, FreeTail
<1>8. PICK x \in Streams : idOf[x] = id
  BY <1>4, <1>7
<1>9. id <= top /\ id % 2 = 1
  BY <1>3, <1>7, <1>8, Constants
<1>10. GivenBack(id)
  BY <1>5, <1>7
<1>11. \A y \in Streams : Live(y) => idOf[y] # id
  BY <1>10 DEF Live
<1>12. \A i : (\E k \in DOMAIN f2 : f2[k] = i) <=> GivenBack(i) /\ i # id
  BY <1>5, <1>7
<1>13. top <= top
  BY <1>3
<1>14. NewIdOK(g, id, f2, top)
  <2>1. /\ id \in Ids /\ id % 2 = 1 /\ id <= top /\ top \in Nat /\ ms[Connector].highest <= top
        /\ top <= 2 * g - 1 /\ top % 2 = 1 /\ f2 \in Seq(Ids)
    BY <1>1, <1>3, <1>7, <1>9, <1>13, Zenon
  <2>2. /\ \A y \in Streams : idOf[y] # 0 <=> y < g
        /\ \A j, k \in DOMAIN f2 : f2[j] = f2[k] => j = k
    BY <1>3, <1>7, Zenon
  <2> QED BY <1>11, <1>12, <2>1, <2>2, Zenon DEF NewIdOK
<1>15. id = Head(ms[Connector].free) /\ f2 = Tail(ms[Connector].free)
  BY <1>1, <1>6, Zenon
<1> QED BY <1>1, <1>14, <1>15, Zenon

(***************************************************************************)
(* getNewID without a free id: no stream has ever had the new one.         *)
(***************************************************************************)
LEMMA FreshIdOK ==
  ASSUME TypeInv, CreatedInv, FreeInv, NEW g \in Streams, idOf[g] = 0,
         \A h \in Streams : h < g => idOf[h] # 0, ms[Connector].free = <<>>
  PROVE  NewIdOK(g, ms[Connector].highest + 2, <<>>, ms[Connector].highest + 2)
<1>1. PICK top : top = ms[Connector].highest
  OBVIOUS
<1>2. PICK f2 : f2 = ms[Connector].free
  OBVIOUS
<1>3. /\ \A x \in Streams : idOf[x] # 0 <=> x < g
      /\ \A x \in Streams : idOf[x] <= top
      /\ top \in Nat /\ (top + 2) % 2 = 1 /\ top + 2 <= 2 * g - 1 /\ top + 2 \in Ids
      /\ ~(top + 2 <= top)
  BY <1>1, NextStream
<1>4. top + 2 \in Nat /\ top <= top + 2 /\ top + 2 <= top + 2
  BY <1>3
<1>5. f2 = <<>> /\ DOMAIN f2 = {} /\ \A i : ~GivenBack(i)
  BY <1>2 DEF GivenBack
<1>6. f2 \in Seq(Ids)
  BY <1>2, Constants DEF TypeInv, SocketStates
<1>7. \A x \in Streams : Live(x) => idOf[x] # top + 2
  BY <1>3
<1>8. NewIdOK(g, top + 2, f2, top + 2)
  BY <1>1, <1>3, <1>4, <1>5, <1>6, <1>7 DEF NewIdOK
<1> QED BY <1>1, <1>5, <1>8

(***************************************************************************)
(* cloneFrom: the new stream has an id with no counted control packet and  *)
(* no callback, and nothing of it is under way.                            *)
(***************************************************************************)
LEMMA CloneFromStep ==
  ASSUME IInv, OneEndOpensAndCloses, NEW e \in Ends, CloneFrom(e)
  PROVE  IInv'
<1>1. TypeInv /\ ControlInv /\ DataInv /\ e = Connector
  BY DEF IInv, OneEndOpensAndCloses, CloneFrom
<1>2. Connector \in Ends /\ Listener \in Ends /\ Connector # Listener
  BY Constants
<1>3. PICK f, top : f = ms[Connector].free /\ top = ms[Connector].highest
  OBVIOUS
<1>4. PICK id, f2, top2, m :
        /\ id = IF f # <<>> THEN Head(f) ELSE top + 2
        /\ f2 = IF f # <<>> THEN Tail(f) ELSE f
        /\ top2 = IF f # <<>> THEN top ELSE top + 2
        /\ m = IF f # <<>> THEN [ms[Connector] EXCEPT !.free = Tail(@)]
                           ELSE [ms[Connector] EXCEPT !.highest = @ + 2]
  OBVIOUS
<1>5. PICK g \in Streams :
        /\ idOf[g] = 0 /\ \A h \in Streams : h < g => idOf[h] # 0
        /\ idOf' = [idOf EXCEPT ![g] = id]
        /\ status' = [status EXCEPT ![Connector][g] = "open"]
        /\ ms' = [ms EXCEPT ![Connector] = Registered(m, id, g)]
        /\ chan' = chan /\ reactor' = reactor /\ closing' = closing /\ got' = got
        /\ told' = told /\ sent' = sent
  BY <1>1, <1>3, <1>4 DEF CloneFrom, ghostVars
<1>6. /\ id \in Ids /\ id % 2 = 1 /\ id <= top2 /\ top2 \in Nat /\ top <= top2
      /\ top2 <= 2 * g - 1 /\ top2 % 2 = 1 /\ f2 \in Seq(Ids)
      /\ \A x \in Streams : idOf[x] # 0 <=> x < g
      /\ \A x \in Streams : Live(x) => idOf[x] # id
      /\ \A i : (\E k \in DOMAIN f2 : f2[k] = i) <=> GivenBack(i) /\ i # id
      /\ \A j, k \in DOMAIN f2 : f2[j] = f2[k] => j = k
  <2>1. CreatedInv /\ FreeInv
    BY <1>1 DEF ControlInv
  <2>2. TypeInv /\ g \in Streams /\ idOf[g] = 0 /\ \A h \in Streams : h < g => idOf[h] # 0
    BY <1>1, <1>5
  <2>3. CASE f # <<>>
    <3>1. id = Head(f) /\ f2 = Tail(f) /\ top2 = top
      BY <1>4, <2>3
    <3>2. NewIdOK(g, Head(f), Tail(f), top)
      BY <1>3, <2>1, <2>2, <2>3, FreeIdOK
    <3>3. NewIdOK(g, id, f2, top2)
      BY <3>1, <3>2
    <3> QED BY <1>3, <3>3 DEF NewIdOK
  <2>4. CASE f = <<>>
    <3>1. id = top + 2 /\ f2 = <<>> /\ top2 = top + 2
      BY <1>4, <2>4
    <3>2. NewIdOK(g, top + 2, <<>>, top + 2)
      BY <1>3, <2>1, <2>2, <2>4, FreshIdOK
    <3>3. NewIdOK(g, id, f2, top2)
      BY <3>1, <3>2
    <3> QED BY <1>3, <3>3 DEF NewIdOK
  <2> QED BY <2>3, <2>4
<1>7. /\ m \in SocketStates /\ m.callbacks = ms[Connector].callbacks
      /\ m.registration = ms[Connector].registration /\ m.oneSided = ms[Connector].oneSided
      /\ m.acked = ms[Connector].acked /\ m.free = f2 /\ m.highest = top2
      /\ ms[Connector] \in SocketStates
  <2>1. ms[Connector] \in SocketStates
    BY <1>1, <1>2 DEF TypeInv
  <2>2. m = [ms[Connector] EXCEPT !.free = f2, !.highest = top2]
    BY <1>3, <1>4, <2>1 DEF SocketStates
  <2> QED BY <1>6, <2>1, <2>2 DEF SocketStates
<1>8. PICK w, v : w = Registered(m, id, g) /\ v = View(Connector)
  OBVIOUS
<1>9. /\ w \in SocketStates /\ w.acked = m.acked /\ w.free = f2 /\ w.highest = top2
      /\ Committed(w) = CommitCallback(Committed(m), [id |-> id, stream |-> g])
  <2>1. /\ w \in SocketStates
        /\ Committed(w) = CommitCallback(Committed(m), [id |-> id, stream |-> g])
    BY <1>6, <1>7, <1>8, CommittedAppend
  <2>2. PICK r : r = Append(m.registration, [id |-> id, stream |-> g])
    OBVIOUS
  <2>3. w = [m EXCEPT !.registration = r]
    BY <1>8, <2>2 DEF Registered
  <2> QED BY <1>7, <2>1, <2>3 DEF SocketStates
<1>10. /\ ms'[Connector] = w /\ ms'[Listener] = ms[Listener] /\ ms' \in [Ends -> SocketStates]
  BY <1>1, <1>2, <1>5, <1>8, <1>9 DEF TypeInv
<1>11. /\ idOf'[g] = id /\ \A x \in Streams : x # g => idOf'[x] = idOf[x]
       /\ idOf' \in [Streams -> Ids \cup {0}]
  BY <1>1, <1>5, <1>6 DEF TypeInv
<1>12. /\ status'[Listener] = status[Listener] /\ status'[Connector][g] = "open"
       /\ \A x \in Streams : x # g => status'[Connector][x] = status[Connector][x]
       /\ status' \in [Ends -> [Streams -> {"none", "open", "closed"}]]
  BY <1>1, <1>2, <1>5 DEF TypeInv
<1>13. TypeInv'
  BY <1>1, <1>5, <1>10, <1>11, <1>12 DEF TypeInv
<1>14. \A i : GivenBack(i)' <=> GivenBack(i) /\ i # id
  <2>1. \A i : GivenBack(i)' <=> \E k \in DOMAIN ms'[Connector].free : ms'[Connector].free[k] = i
    BY DEF GivenBack
  <2>2. ms'[Connector].free = f2
    BY <1>9, <1>10
  <2> QED BY <1>6, <2>1, <2>2
<1>15. ~Live(g) /\ id # 0 /\ \A x \in Streams : x # g => (idOf[x] # 0 => ~(x > g))
  <2>1. \A x \in Streams : x < g => ~(x > g)
    BY Constants
  <2> QED BY <1>5, <1>6, <2>1, Constants DEF Live
<1>16. Live(g)'
  <2>1. ASSUME NEW h \in Streams, h > g PROVE idOf'[h] # id
    <3>1. h # g /\ idOf[h] = 0
      BY <1>15, <2>1, Constants
    <3> QED BY <1>11, <1>15, <3>1
  <2> QED BY <1>11, <1>14, <1>15, <2>1 DEF Live
<1>17. ASSUME NEW x \in Streams, x # g PROVE Live(x)' <=> Live(x)
  <2>1. ASSUME Live(x) PROVE Live(x)'
    <3>1. idOf[x] # id /\ idOf[x] # 0 /\ ~GivenBack(idOf[x]) /\ idOf'[x] = idOf[x]
      BY <1>6, <1>11, <1>17, <2>1 DEF Live
    <3>2. \A h \in Streams : h > x => idOf'[h] # idOf[x]
      BY <1>11, <2>1, <3>1 DEF Live
    <3> QED BY <1>14, <3>1, <3>2 DEF Live
  <2>2. ASSUME Live(x)' PROVE Live(x)
    <3>1. idOf'[x] = idOf[x] /\ idOf[x] # 0
      BY <1>11, <1>17, <2>2 DEF Live
    <3>2. g > x
      BY <1>6, <3>1, Constants
    <3>3. \A h \in Streams : h > x => idOf'[h] # idOf[x]
      BY <2>2, <3>1 DEF Live
    <3>4. idOf[x] # id
      BY <1>11, <3>2, <3>3
    <3>5. ~GivenBack(idOf[x])
      BY <1>14, <2>2, <3>1, <3>4 DEF Live
    <3>6. \A h \in Streams : h > x => idOf[h] # idOf[x]
      BY <1>5, <1>11, <3>1, <3>3
    <3> QED BY <3>1, <3>5, <3>6 DEF Live
  <2> QED BY <2>1, <2>2
<1>18. ASSUME NEW d \in Ends, NEW s \in Sockets PROVE Clear(d, s, g)
  BY <1>1, <1>15 DEF ControlInv, PacketInv, PacketOK, Clear
<1>19. ASSUME NEW x \in Streams
       PROVE  /\ CloseSame(x) /\ AckSame(x) /\ (Busy(x)' <=> Busy(x))
              /\ \A d \in Ends, s \in Sockets : Clear(d, s, x)' <=> Clear(d, s, x)
  <2>1. \A d, s, type : Holding(d, s, x, type)' <=> Holding(d, s, x, type)
    BY <1>5 DEF Holding
  <2>2. CloseSame(x)
    BY <1>5, <2>1, CloseSentFrame, CloseFrame
  <2>3. Busy(x)' <=> Busy(x)
    BY <1>5 DEF Busy
  <2>4. AckSent(x)' = AckSent(x)
    BY <1>5, <2>2, <2>3, AckSentFrame DEF CloseSame
  <2>5. AckSame(x)
    BY <2>1, <2>4, AckFrame
  <2> QED BY <1>5, <2>2, <2>3, <2>5 DEF Clear
<1>20. /\ closing[Connector][g].step = "no" /\ closing[Connector][g].next = 1 /\ ~told[Connector][g]
       /\ closing[Listener][g].step = "no" /\ status[Listener][g] # "open" /\ ~told[Listener][g]
  BY <1>1, <1>5, <1>15 DEF ControlInv, ConnectorInv, ConnectorOK, ListenerInv, ListenerOK
<1>21. /\ CloseRead(g) = {} /\ AckRead(g) = {} /\ ~Heard(g)
  <2>1. CloseSent(g) = {} /\ Sockets # {}
    BY <1>1, <1>20, SocketSets
  <2>2. CloseRead(g) = {} /\ ~Heard(g)
    BY <2>1 DEF CloseRead, Heard
  <2> QED BY <2>2 DEF AckRead, AckSent
<1>22. \A d \in Ends : ms[d].acked[id] = 0 /\ View(d).callbacks[id] = None
  BY <1>1, <1>6 DEF ControlInv, UnusedInv
<1>23. /\ View(Listener)' = View(Listener) /\ View(Connector)'.callbacks[id] = g
       /\ \A j \in Ids : /\ j # id => View(Connector)'.callbacks[j] = v.callbacks[j]
                         /\ j \in View(Connector)'.oneSided <=> j \in v.oneSided
  <2>1. View(Listener)' = View(Listener)
    BY <1>10, SameView
  <2>2. PICK c : c = Committed(m)
    OBVIOUS
  <2>3. c \in SocketStates
    BY <1>7, <2>2, CommittedType
  <2>4. c.callbacks = v.callbacks /\ \A j \in Ids : j \in c.oneSided <=> j \in v.oneSided
    BY <1>7, <1>8, <2>2, CommittedSame DEF View
  <2>5. c.callbacks[id] = None
    BY <1>2, <1>8, <1>22, <2>4
  <2>6. Committed(w) = [c EXCEPT !.callbacks[id] = g]
    BY <1>9, <2>2, <2>5, Constants DEF CommitCallback, None
  <2>7. View(Connector)' = [c EXCEPT !.callbacks[id] = g]
    BY <1>10, <2>6 DEF View
  <2>8. PICK b : b = [c.callbacks EXCEPT ![id] = g]
    OBVIOUS
  <2>9. View(Connector)' = [c EXCEPT !.callbacks = b]
    BY <2>7, <2>8
  <2>10. View(Connector)'.callbacks = b /\ View(Connector)'.oneSided = c.oneSided
    BY <2>3, <2>9 DEF SocketStates
  <2>11. c.callbacks \in [Ids -> Streams \cup {None}]
    BY <2>3 DEF SocketStates
  <2> QED BY <1>6, <2>1, <2>4, <2>8, <2>10, <2>11
<1>24. DataInv'
  BY <1>1, <1>5, <1>11, <1>18, SameData
<1>25. CreatedInv'
  <2>1. CreatedUpTo(g)'
    <3>1. \A x \in Streams : idOf'[x] # 0 <=> x <= g
      <4>1. \A x \in Streams : x <= g <=> x < g \/ x = g
        BY Constants
      <4> QED BY <1>6, <1>11, <1>15, <4>1
    <3>2. PICK last \in Streams : CreatedUpTo(last)
      BY <1>1 DEF ControlInv, CreatedInv
    <3>3. \A x \in Streams : idOf[x] <= top /\ (idOf[x] # 0 => idOf[x] % 2 = 1)
      BY <1>3, <3>2 DEF CreatedUpTo
    <3>4. ms'[Connector].highest = top2
      BY <1>9, <1>10
    <3>5. ASSUME NEW x \in Streams
          PROVE  idOf'[x] <= top2 /\ (idOf'[x] # 0 => idOf'[x] % 2 = 1)
      <4>1. CASE x = g
        BY <1>6, <1>11, <4>1
      <4>2. CASE x # g
        <5>1. idOf[x] \in Nat /\ top \in Nat
          <6>1. idOf[x] \in Ids \cup {0} /\ Ids \subseteq Nat
            BY <1>1, Constants DEF TypeInv
          <6>2. top \in Nat
            BY <1>3, <1>7 DEF SocketStates
          <6>3. \A n \in Ids \cup {0} : n \in Nat
            BY Constants
          <6> QED BY <6>1, <6>2, <6>3, Zenon
        <5> QED BY <1>6, <1>11, <3>3, <4>2, <5>1
      <4> QED BY <4>1, <4>2
    <3> QED BY <1>6, <3>1, <3>4, <3>5 DEF CreatedUpTo
  <2> QED BY <1>1, <1>6, <1>9, <1>10, <2>1 DEF ControlInv, CreatedInv
<1>26. FreeInv'
  <2>1. ms'[Connector].free = f2
    BY <1>9, <1>10
  <2>2. ASSUME NEW k \in DOMAIN f2 PROVE \E x \in Streams : idOf'[x] = f2[k]
    <3>1. PICK x \in Streams : idOf[x] = f2[k]
      <4>1. GivenBack(f2[k])
        BY <1>6
      <4> QED BY <1>1, <4>1 DEF ControlInv, FreeInv, GivenBack
    <3>2. f2[k] \in Ids
      BY <1>6, LenProperties
    <3>3. x # g
      BY <1>5, <3>1, <3>2, Constants
    <3> QED BY <1>11, <3>1, <3>3
  <2> QED BY <1>6, <2>1, <2>2 DEF FreeInv
<1>27. PacketInv'
  <2>1. ASSUME NEW x \in Streams, x # g PROVE Keeps(x)
    BY <1>11, <1>17, <1>19, <2>1, KeepsSame
  <2> QED BY <1>1, <1>5, <1>18, <2>1, SamePackets DEF ControlInv
<1>28. \A d \in Ends : ms'[d].acked = ms[d].acked
  BY <1>7, <1>9, <1>10, Constants
<1>29. CountInv'
  <2> SUFFICES ASSUME NEW x \in Streams, Live(x)' PROVE CountOK(x)'
    BY DEF CountInv
  <2>1. CASE x = g
    <3>1. CloseRead(g)' = {} /\ AckRead(g)' = {} /\ ~Heard(g)'
      BY <1>19, <1>21 DEF CloseSame, AckSame
    <3>2. Cardinality({}) = 0 /\ Sockets # {}
      BY FS_EmptySet, Constants
    <3>3. ms'[Connector].acked[id] = 0 /\ ms'[Listener].acked[id] = 0
      BY <1>2, <1>22, <1>28
    <3> QED BY <1>11, <2>1, <3>1, <3>2, <3>3 DEF CountOK
  <2>2. CASE x # g
    <3>1. CountOK(x)
      BY <1>1, <1>17, <2>2 DEF ControlInv, CountInv
    <3>2. CloseRead(x) \subseteq Sockets /\ AckRead(x) \subseteq Sockets
      BY <1>1, SocketSets
    <3> QED BY <1>2, <1>11, <1>19, <1>28, <2>2, <3>1, <3>2, CountFrame DEF CloseSame
  <2> QED BY <2>1, <2>2
<1>30. UnusedInv'
  <2> SUFFICES ASSUME NEW j \in Ids, \A x \in Streams : Live(x)' => idOf'[x] # j, NEW d \in Ends
               PROVE  ms'[d].acked[j] = 0 /\ View(d)'.callbacks[j] = None
    BY DEF UnusedInv
  <2>1. j # id /\ \A x \in Streams : Live(x) => idOf[x] # j
    BY <1>11, <1>15, <1>16, <1>17
  <2>2. ms[d].acked[j] = 0 /\ View(d).callbacks[j] = None
    BY <1>1, <2>1 DEF ControlInv, UnusedInv
  <2>3. View(d)'.callbacks[j] = View(d).callbacks[j]
    BY <1>8, <1>23, <2>1, Constants
  <2> QED BY <1>28, <2>2, <2>3
<1>31. ConnectorInv'
  <2>1. ASSUME NEW x \in Streams PROVE ConnectorOK(x)'
    <3>1. ConnectorOK(x)
      BY <1>1 DEF ControlInv, ConnectorInv
    <3>2. CASE x = g
      BY <1>5, <1>11, <1>12, <1>15, <1>16, <1>20, <1>23, <3>2 DEF ConnectorOK
    <3>3. CASE x # g
      <4>1. Live(x) => idOf[x] \in Ids /\ idOf[x] # id
        BY <1>1, <1>6, LiveId
      <4> QED BY <1>5, <1>8, <1>11, <1>12, <1>17, <1>23, <3>1, <3>3, <4>1, ConnectorFrame
    <3> QED BY <3>2, <3>3
  <2> QED BY <1>1, <1>5, <2>1 DEF ControlInv, ConnectorInv
<1>32. ListenerInv'
  <2>1. ASSUME NEW x \in Streams PROVE ListenerOK(x)'
    <3>1. ListenerOK(x)
      BY <1>1 DEF ControlInv, ListenerInv
    <3>2. CASE x = g
      <4>1. View(Listener)'.callbacks[id] = None /\ ~Heard(g)'
        BY <1>2, <1>19, <1>21, <1>22, <1>23 DEF CloseSame
      <4> QED BY <1>5, <1>11, <1>12, <1>16, <1>20, <3>2, <4>1 DEF ListenerOK
    <3>3. CASE x # g
      <4>1. Heard(x)' <=> Heard(x)
        BY <1>19 DEF CloseSame
      <4> QED BY <1>5, <1>11, <1>12, <1>17, <1>19, <1>23, <3>1, <3>3, <4>1, ListenerFrame
    <3> QED BY <3>2, <3>3
  <2>2. PICK r : r = reactor[Listener]
    OBVIOUS
  <2>3. /\ r.step # "idle" => /\ r.stream \in Streams /\ Live(r.stream)
                              /\ r.id = idOf[r.stream] /\ Heard(r.stream)
        /\ r.step = "erase" => r.next = 1
    BY <1>1, <2>2 DEF ControlInv, ListenerInv
  <2>4. r.step # "idle" => /\ Live(r.stream)' /\ Heard(r.stream)'
                           /\ idOf'[r.stream] = idOf[r.stream]
    BY <1>11, <1>15, <1>17, <1>19, <2>3 DEF CloseSame
  <2> QED BY <1>1, <1>5, <1>23, <2>1, <2>2, <2>3, <2>4 DEF ControlInv, ListenerInv
<1> QED BY <1>13, <1>24, <1>25, <1>26, <1>27, <1>29, <1>30, <1>31, <1>32 DEF IInv, ControlInv

-----------------------------------------------------------------------------
(* Init and Next *)

(***************************************************************************)
(* The invariant holds when the connection has just been made: stream 1 is *)
(* open at both ends, and the listening end has yet to commit its          *)
(* callback.                                                               *)
(***************************************************************************)
LEMMA InitIInv == Init => IInv
<1> SUFFICES ASSUME Init PROVE IInv
  OBVIOUS
<1>1. Connector \in Ends /\ Listener \in Ends /\ Connector # Listener /\ Peer(Connector) = Listener /\ Peer(Listener) = Connector
  BY Constants
<1>2. /\ \A e \in Ends, s \in Sockets : chan[e][s] = <<>>
      /\ \A e \in Ends : reactor[e] = Idle
      /\ idOf = [g \in Streams |-> IF g = 1 THEN 1 ELSE 0]
      /\ \A e \in Ends, g \in Streams : /\ status[e][g] = IF g = 1 THEN "open" ELSE "none"
                                        /\ closing[e][g] = NotClosing
                                        /\ sent[e][g] = 0 /\ got[e][g] = <<>> /\ ~told[e][g]
  BY DEF Init
<1>3. DOMAIN <<>> = {} /\ \A S : <<>> \in Seq(S)
  OBVIOUS
<1> DEFINE nothing == [callbacks    |-> [i \in Ids |-> None],
                       registration |-> <<>>,
                       acked        |-> [i \in Ids |-> 0],
                       oneSided     |-> {},
                       free         |-> <<>>,
                       highest      |-> 0,
                       assertFailed |-> FALSE,
                       badErase     |-> FALSE]
           first == [id |-> 1, stream |-> 1]
<1>4. nothing \in SocketStates
  BY <1>3 DEF SocketStates
<1>5. PICK only : only = [i \in Ids |-> IF i = 1 THEN 1 ELSE None]
  OBVIOUS
<1>5a. /\ ms[Connector] = [callbacks |-> only, registration |-> <<>>, acked |-> [i \in Ids |-> 0],
                           oneSided |-> {}, free |-> <<>>, highest |-> 1,
                           assertFailed |-> FALSE, badErase |-> FALSE]
      /\ ms[Listener] = [callbacks |-> [i \in Ids |-> None], registration |-> <<first>>,
                          acked |-> [i \in Ids |-> 0], oneSided |-> {}, free |-> <<>>, highest |-> 0,
                          assertFailed |-> FALSE, badErase |-> FALSE]
  <2> DEFINE cb(e) == [i \in Ids |-> IF i = 1 /\ e = Connector THEN 1 ELSE None]
  <2>1. cb(Connector) = only /\ cb(Listener) = [i \in Ids |-> None]
    BY <1>1, <1>5
  <2>2. ASSUME NEW e \in Ends
        PROVE  ms[e] = [callbacks |-> cb(e), registration |-> IF e = Connector THEN <<>> ELSE <<first>>,
                        acked |-> [i \in Ids |-> 0], oneSided |-> {}, free |-> <<>>,
                        highest |-> IF e = Connector THEN 1 ELSE 0,
                        assertFailed |-> FALSE, badErase |-> FALSE]
    BY Zenon DEF Init
  <2> HIDE DEF cb, first
  <2>3. /\ (IF Connector = Connector THEN <<>> ELSE <<first>>) = <<>>
        /\ (IF Connector = Connector THEN 1 ELSE 0) = 1
        /\ (IF Listener = Connector THEN <<>> ELSE <<first>>) = <<first>>
        /\ (IF Listener = Connector THEN 1 ELSE 0) = 0
    BY <1>1
  <2> QED BY <1>1, <2>1, <2>2, <2>3, Zenon
<1>6. ms[Listener] = Registered(nothing, 1, 1)
  <2>1. Append(<<>>, first) = <<first>>
    OBVIOUS
  <2>2. PICK r : r = <<first>>
    OBVIOUS
  <2>3. nothing.registration = <<>>
    OBVIOUS
  <2>4. Registered(nothing, 1, 1) = [nothing EXCEPT !.registration = r]
    <3> HIDE DEF nothing
    <3> QED BY <2>1, <2>2, <2>3 DEF Registered
  <2>5. [nothing EXCEPT !.registration = r] =
          [callbacks |-> [i \in Ids |-> None], registration |-> r,
           acked |-> [i \in Ids |-> 0], oneSided |-> {}, free |-> <<>>, highest |-> 0,
           assertFailed |-> FALSE, badErase |-> FALSE]
    <3>1. PICK a, b, c, d, n, no : /\ a = [i \in Ids |-> None] /\ b = [i \in Ids |-> 0]
                                   /\ c = {} /\ d = <<>> /\ n = 0 /\ no = FALSE
      OBVIOUS
    <3>2. nothing = [callbacks |-> a, registration |-> d, acked |-> b, oneSided |-> c,
                     free |-> d, highest |-> n, assertFailed |-> no, badErase |-> no]
      BY <3>1, Zenon
    <3>3. [[callbacks |-> a, registration |-> d, acked |-> b, oneSided |-> c, free |-> d,
            highest |-> n, assertFailed |-> no, badErase |-> no] EXCEPT !.registration = r] =
          [callbacks |-> a, registration |-> r, acked |-> b, oneSided |-> c, free |-> d,
           highest |-> n, assertFailed |-> no, badErase |-> no]
      OBVIOUS
    <3> HIDE DEF nothing, first
    <3> QED BY <3>1, <3>2, <3>3, Zenon
  <2> HIDE DEF nothing, first
  <2> QED BY <1>5a, <2>2, <2>4, <2>5, Zenon
<1>7. PICK c, d : c = ms[Connector] /\ d = ms[Listener]
  OBVIOUS
<1>8. /\ c \in SocketStates /\ c.callbacks = [i \in Ids |-> IF i = 1 THEN 1 ELSE None]
      /\ c.registration = <<>> /\ c.acked = [i \in Ids |-> 0] /\ c.oneSided = {}
      /\ c.free = <<>> /\ c.highest = 1
  <2>1. [i \in Ids |-> IF i = 1 THEN 1 ELSE None] \in [Ids -> Streams \cup {None}]
    BY Constants
  <2>2. [i \in Ids |-> 0] \in [Ids -> Nat]
    OBVIOUS
  <2> QED BY <1>3, <1>5, <1>5a, <1>7, <2>1, <2>2 DEF SocketStates
<1>9. View(Connector) = c
  BY <1>7, <1>8, CommittedNothing DEF View
<1>10. d \in SocketStates /\ d.acked = [i \in Ids |-> 0] /\ d.highest = 0
  <2>1. d \in SocketStates
    <3> HIDE DEF nothing
    <3> QED BY <1>4, <1>6, <1>7, CommittedAppend, Constants
  <2> QED BY <1>5a, <1>7, <2>1
<1>11. View(Listener) = CommitCallback(nothing, first)
  <2>1. Committed(nothing) = nothing
    BY <1>4, CommittedNothing
  <2> HIDE DEF nothing
  <2> QED BY <1>4, <1>6, <2>1, CommittedAppend, Constants DEF View
<1>12. View(Listener).callbacks = [i \in Ids |-> IF i = 1 THEN 1 ELSE None] /\ View(Listener).oneSided = {}
  <2>1. CommitCallback(nothing, first) = [nothing EXCEPT !.callbacks[1] = 1]
    BY Constants DEF CommitCallback, None
  <2>2. PICK b : b = [nothing.callbacks EXCEPT ![1] = 1]
    OBVIOUS
  <2>3. View(Listener) = [nothing EXCEPT !.callbacks = b]
    BY <1>11, <2>1, <2>2
  <2>4. View(Listener).callbacks = b /\ View(Listener).oneSided = {}
    BY <2>3
  <2>5. b = [i \in Ids |-> IF i = 1 THEN 1 ELSE None]
    BY <2>2, Constants
  <2> QED BY <2>4, <2>5
<1> HIDE DEF nothing, first
<1>13. 1 \in Streams /\ 1 \in Ids /\ 1 \in Sockets /\ \A g \in Streams : idOf[g] = IF g = 1 THEN 1 ELSE 0
  BY <1>2, Constants
<1>14. TypeInv
  <2>1. chan \in [Ends -> [Sockets -> Seq(Packets)]] /\ got \in [Ends -> [Streams -> Seq(Packets)]]
    BY <1>3 DEF Init
  <2>2. ms \in [Ends -> SocketStates]
    <3>1. \A e \in Ends : ms[e] \in SocketStates
      BY <1>7, <1>8, <1>10, Constants
    <3>2. ms = [e \in Ends |-> ms[e]]
      BY DEF Init
    <3> QED BY <3>1, <3>2
  <2>3. reactor \in [Ends -> Reactors]
    <3>1. Idle \in Reactors
      BY <1>13 DEF Idle, Reactors
    <3> QED BY <3>1 DEF Init
  <2>4. closing \in [Ends -> [Streams -> Closings]]
    <3>1. NotClosing \in Closings
      BY <1>13 DEF NotClosing, Closings
    <3> QED BY <3>1 DEF Init
  <2>5. /\ idOf \in [Streams -> Ids \cup {0}]
        /\ status \in [Ends -> [Streams -> {"none", "open", "closed"}]]
        /\ sent \in [Ends -> [Streams -> Nat]] /\ told \in [Ends -> [Streams -> BOOLEAN]]
    BY <1>13 DEF Init
  <2> QED BY <2>1, <2>2, <2>3, <2>4, <2>5 DEF TypeInv
<1>15. \A i : ~GivenBack(i)
  BY <1>3, <1>7, <1>8 DEF GivenBack
<1>16. \A g \in Streams : Live(g) <=> g = 1
  <2>1. \A h \in Streams : h > 1 => h # 1
    BY Constants
  <2> QED BY <1>13, <1>15, <2>1 DEF Live
<1>17. CreatedInv
  <2>1. \A g \in Streams : g <= 1 <=> g = 1
    BY LifecycleAssumption DEF Streams
  <2>2. CreatedUpTo(1)
    BY <1>7, <1>8, <1>13, <2>1 DEF CreatedUpTo
  <2> QED BY <1>7, <1>8, <1>10, <1>13, <2>2 DEF CreatedInv
<1>18. FreeInv
  BY <1>3, <1>7, <1>8 DEF FreeInv
<1>19. PacketInv
  BY <1>2, <1>3 DEF PacketInv
<1>20. ASSUME NEW g \in Streams
       PROVE  CloseRead(g) = {} /\ AckRead(g) = {} /\ ~Heard(g) /\ ~Busy(g)
  <2>1. closing[Connector][g].step = "no" /\ reactor[Listener].step = "idle"
    BY <1>1, <1>2 DEF NotClosing, Idle
  <2>2. CloseSent(g) = {} /\ Sockets # {}
    BY <1>14, <2>1, SocketSets
  <2>3. CloseRead(g) = {} /\ ~Heard(g)
    BY <2>2 DEF CloseRead, Heard
  <2> QED BY <2>1, <2>3 DEF AckRead, AckSent, Busy
<1>21. CountInv
  <2> SUFFICES ASSUME NEW g \in Streams, Live(g) PROVE CountOK(g)
    BY DEF CountInv
  <2>1. Cardinality({}) = 0 /\ Sockets # {}
    BY FS_EmptySet, Constants
  <2>2. ms[Connector].acked[idOf[g]] = 0 /\ ms[Listener].acked[idOf[g]] = 0
    BY <1>7, <1>8, <1>10, <1>13, <1>16
  <2> QED BY <1>20, <2>1, <2>2 DEF CountOK
<1>22. UnusedInv
  <2> SUFFICES ASSUME NEW i \in Ids, \A g \in Streams : Live(g) => idOf[g] # i, NEW e \in Ends
               PROVE  ms[e].acked[i] = 0 /\ View(e).callbacks[i] = None
    BY DEF UnusedInv
  <2>1. i # 1
    BY <1>13, <1>16
  <2> QED BY <1>7, <1>8, <1>9, <1>10, <1>12, <2>1, Constants
<1>23. ConnectorInv
  <2>1. ASSUME NEW g \in Streams PROVE ConnectorOK(g)
    <3>1. closing[Connector][g].step = "no" /\ closing[Connector][g].next = 1
      BY <1>1, <1>2 DEF NotClosing
    <3>2. View(Connector).callbacks[1] = 1
      BY <1>8, <1>9, <1>13
    <3> QED BY <1>1, <1>2, <1>13, <1>16, <3>1, <3>2 DEF ConnectorOK
  <2> QED BY <1>1, <1>2, <2>1 DEF ConnectorInv, Idle
<1>24. ListenerInv
  <2>1. ASSUME NEW g \in Streams PROVE ListenerOK(g)
    <3>1. closing[Listener][g].step = "no"
      BY <1>1, <1>2 DEF NotClosing
    <3>2. View(Listener).callbacks[1] = 1
      BY <1>12, <1>13
    <3> QED BY <1>1, <1>2, <1>13, <1>16, <1>20, <3>1, <3>2 DEF ListenerOK
  <2>2. reactor[Listener].step = "idle"
    BY <1>1, <1>2 DEF Idle
  <2> QED BY <1>12, <2>1, <2>2 DEF ListenerInv
<1>25. DataInv
  <2>1. \A e \in Ends, g \in Streams : DOMAIN got[Peer(e)][g] = {} /\ DOMAIN got[e][g] = {}
    BY <1>2, <1>3, Constants
  <2>2. \A e \in Ends, s \in Sockets : DOMAIN chan[e][s] = {}
    BY <1>2, <1>3
  <2>3. OnceInv
    BY <2>1, <2>2 DEF OnceInv
  <2>4. CoverInv
    BY <1>1, <1>2 DEF CoverInv
  <2>5. OrderInv
    BY <2>1, <2>2 DEF OrderInv
  <2>6. NoMixup
    BY <2>1 DEF NoMixup
  <2> QED BY <2>3, <2>4, <2>5, <2>6 DEF DataInv
<1> QED BY <1>14, <1>17, <1>18, <1>19, <1>21, <1>22, <1>23, <1>24, <1>25 DEF IInv, ControlInv

(***************************************************************************)
(* A step that changes nothing keeps the invariant.                        *)
(***************************************************************************)
LEMMA Stutter ==
  ASSUME IInv, UNCHANGED vars
  PROVE  IInv'
<1>1. TypeInv /\ ControlInv /\ DataInv
  BY DEF IInv
<1>2. /\ chan' = chan /\ ms' = ms /\ reactor' = reactor /\ idOf' = idOf /\ status' = status
      /\ closing' = closing /\ sent' = sent /\ got' = got /\ told' = told
  BY DEF vars
<1>3. TypeInv'
  BY <1>1, <1>2 DEF TypeInv
<1>4. \A g : Live(g)' <=> Live(g)
  BY <1>2, LiveFrame
<1>5. \A e : View(e)' = View(e)
  BY <1>2, SameView
<1>6. ASSUME NEW x
      PROVE  /\ CloseSame(x) /\ AckSame(x) /\ (Busy(x)' <=> Busy(x)) /\ (Heard(x)' <=> Heard(x))
             /\ \A d, s : Clear(d, s, x)' <=> Clear(d, s, x)
  <2>1. \A d, s, type : Holding(d, s, x, type)' <=> Holding(d, s, x, type)
    BY <1>2 DEF Holding
  <2>2. CloseSame(x)
    BY <1>2, <2>1, CloseSentFrame, CloseFrame
  <2>3. Busy(x)' <=> Busy(x)
    BY <1>2 DEF Busy
  <2>4. AckSent(x)' = AckSent(x)
    BY <1>2, <2>2, <2>3, AckSentFrame DEF CloseSame
  <2>5. AckSame(x)
    BY <2>1, <2>4, AckFrame
  <2> QED BY <1>2, <2>2, <2>3, <2>5 DEF Clear, CloseSame
<1>7. CreatedInv' /\ FreeInv'
  BY <1>1, <1>2, IdsFrame DEF ControlInv
<1>8. PacketInv'
  <2>1. \A x \in Streams : Keeps(x)
    BY <1>2, <1>4, <1>6, KeepsSame
  <2> QED BY <1>1, <1>2, <2>1, SamePackets DEF ControlInv
<1>9. CountInv'
  <2> SUFFICES ASSUME NEW x \in Streams, Live(x)' PROVE CountOK(x)'
    BY DEF CountInv
  <2>1. CountOK(x)
    BY <1>1, <1>4 DEF ControlInv, CountInv
  <2> QED BY <1>2, <1>6, <2>1, CountFrame DEF CloseSame
<1>10. UnusedInv'
  BY <1>1, <1>2, <1>4, <1>5, UnusedFrame DEF ControlInv
<1>11. ConnectorInv'
  <2>1. \A x \in Streams : ConnectorOK(x)'
    BY <1>1, <1>2, <1>4, <1>5, ConnectorFrame DEF ControlInv, ConnectorInv
  <2> QED BY <1>1, <1>2, <2>1 DEF ControlInv, ConnectorInv
<1>12. ListenerInv'
  <2>1. \A x \in Streams : ListenerOK(x)'
    BY <1>1, <1>2, <1>4, <1>5, <1>6, ListenerFrame DEF ControlInv, ListenerInv
  <2> QED BY <1>1, <1>2, <1>4, <1>5, <1>6, <2>1 DEF ControlInv, ListenerInv
<1>13. DataInv'
  BY <1>1, <1>2, SameData
<1> QED BY <1>3, <1>7, <1>8, <1>9, <1>10, <1>11, <1>12, <1>13 DEF IInv, ControlInv

(***************************************************************************)
(* Every step of the two users and the two reactors keeps the invariant.   *)
(***************************************************************************)
LEMMA NextIInv ==
  ASSUME IInv, OneEndOpensAndCloses, [Next]_vars
  PROVE  IInv'
<1>1. CASE UNCHANGED vars
  BY <1>1, Stutter
<1>2. ASSUME NEW e \in Ends, CloneFrom(e) PROVE IInv'
  BY <1>2, CloneFromStep
<1>3. ASSUME NEW e \in Ends, NEW g \in Streams, Send(e, g) PROVE IInv'
  BY <1>3, SendStep
<1>4. ASSUME NEW e \in Ends, NEW g \in Streams, CloseSendStatus(e, g) PROVE IInv'
  BY <1>4, CloseSendStatusStep
<1>5. ASSUME NEW e \in Ends, NEW g \in Streams, UserClose(e, g) PROVE IInv'
  BY <1>5, UnregisterStep, AnnounceCloseStep DEF UserClose
<1>6. ASSUME NEW e \in Ends, ReactorStep(e) PROVE IInv'
  <2>1. CASE EraseCallback(e)
    BY <2>1, EraseCallbackStep
  <2>2. CASE ReactorBroadcast(e)
    BY <2>2, ReactorBroadcastStep
  <2>3. CASE Receive(e)
    <3>1. reactor[e].step = "idle"
      BY <2>3 DEF Receive
    <3>2. PICK s \in Sockets : /\ chan[Peer(e)][s] # <<>>
                               /\ \/ ReceiveData(e, s, Head(chan[Peer(e)][s]))
                                  \/ ReceiveControl(e, s, Head(chan[Peer(e)][s]))
      BY <2>3 DEF Receive
    <3>3. PICK p : p = Head(chan[Peer(e)][s])
      OBVIOUS
    <3>4. chan[Peer(e)][s] # <<>> /\ (ReceiveData(e, s, p) \/ ReceiveControl(e, s, p))
      BY <3>2, <3>3
    <3>5. CASE e = Connector
      BY <3>3, <3>4, <3>5, ConnectorDataStep, ConnectorControlStep, Constants
    <3>6. CASE e = Listener
      BY <3>1, <3>3, <3>4, <3>6, ListenerDataStep, ListenerControlStep, Constants
    <3> QED BY <3>5, <3>6, Constants
  <2> QED BY <1>6, <2>1, <2>2, <2>3 DEF ReactorStep
<1> QED BY <1>1, <1>2, <1>3, <1>4, <1>5, <1>6 DEF Next

(***************************************************************************)
(* The invariant holds throughout, for any number of sockets, streams and  *)
(* packets.                                                                *)
(***************************************************************************)
LEMMA Invariance ==
  ASSUME OneEndOpensAndCloses
  PROVE  Spec => []IInv
<1>1. Init => IInv
  BY InitIInv
<1>2. IInv /\ [Next]_vars => IInv'
  BY NextIInv
<1> QED BY <1>1, <1>2, PTL DEF Spec

-----------------------------------------------------------------------------
(* What the invariant says *)

(***************************************************************************)
(* Two intervals that start at 1 and have a bijection between them end at  *)
(* the same number.                                                        *)
(***************************************************************************)
LEMMA SameLength ==
  ASSUME NEW a \in Nat, NEW b \in Nat, NEW f \in Bijection(1..a, 1..b)
  PROVE  a = b
<1>1. /\ IsFiniteSet(1..a) /\ Cardinality(1..a) = a
      /\ IsFiniteSet(1..b) /\ Cardinality(1..b) = b
  <2>1. /\ IsFiniteSet(1..a) /\ Cardinality(1..a) = IF 1 > a THEN 0 ELSE a - 1 + 1
        /\ IsFiniteSet(1..b) /\ Cardinality(1..b) = IF 1 > b THEN 0 ELSE b - 1 + 1
    <3>1. 1 \in Int /\ a \in Int /\ b \in Int
      OBVIOUS
    <3> QED BY <3>1, FS_Interval
  <2> QED BY <2>1
<1>2. ExistsBijection(1..a, 1..b)
  BY DEF ExistsBijection
<1> QED BY <1>1, <1>2, FS_Bijection

(***************************************************************************)
(* When a stream has been told of its end, no packet of it is under way    *)
(* any more: the packets delivered are numbered from 1 to the number sent, *)
(* each once.                                                              *)
(***************************************************************************)
LEMMA ImpliesComplete == IInv => CompleteBeforeDisconnect
<1> SUFFICES ASSUME IInv, NEW e \in Ends, NEW g \in Streams, told[e][g]
             PROVE  Len(got[e][g]) = sent[Peer(e)][g]
  BY DEF CompleteBeforeDisconnect
<1>1. TypeInv /\ ControlInv /\ DataInv
  BY DEF IInv
<1>2. e = Listener /\ Peer(e) = Connector /\ Connector \in Ends /\ Listener \in Ends
  BY <1>1, Constants DEF ControlInv, ConnectorInv, ConnectorOK
<1>3. idOf[g] # 0 /\ (Live(g) => Heard(g))
  BY <1>1, <1>2 DEF ControlInv, ListenerInv, ListenerOK
<1>4. ASSUME NEW s \in Sockets PROVE Clear(Connector, s, g)
  <2>1. CASE Live(g)
    <3>1. CountOK(g) /\ s \in CloseRead(g)
      BY <1>1, <1>3, <2>1 DEF ControlInv, CountInv, Heard
    <3> QED BY <3>1 DEF CountOK
  <2>2. CASE ~Live(g)
    BY <1>1, <1>2, <2>2 DEF ControlInv, PacketInv, PacketOK, Clear
  <2> QED BY <2>1, <2>2
<1>5. \A n : ~UnderWay(g, n)
  BY <1>4 DEF UnderWay, Clear, IsData
<1>6. PICK q, b : q = got[Listener][g] /\ b = sent[Connector][g]
  OBVIOUS
<1>7. q \in Seq(Packets) /\ b \in Nat
  BY <1>1, <1>2, <1>6 DEF TypeInv
<1>8. Len(q) \in Nat /\ DOMAIN q = 1..Len(q)
  BY <1>7, LenProperties
<1>9. /\ \A j \in DOMAIN q : q[j].n \in 1..b
      /\ \A j, k \in DOMAIN q : q[j].n = q[k].n => j = k
  <2>1. OnceInv
    BY <1>1 DEF DataInv
  <2>2. /\ \A j \in DOMAIN got[Peer(Connector)][g] :
             got[Peer(Connector)][g][j].n \in 1..sent[Connector][g]
        /\ \A j, k \in DOMAIN got[Peer(Connector)][g] :
             got[Peer(Connector)][g][j].n = got[Peer(Connector)][g][k].n => j = k
    BY <1>2, <2>1, Zenon DEF OnceInv
  <2>3. Peer(Connector) = Listener
    BY Constants
  <2> QED BY <1>6, <2>2, <2>3, Zenon
<1>10. \A n \in 1..b : \E j \in DOMAIN q : q[j].n = n
  BY <1>1, <1>5, <1>6 DEF DataInv, CoverInv
<1>11. PICK a \in Nat : a = Len(q)
  BY <1>8
<1>12. PICK f : f = [j \in 1..a |-> q[j].n]
  OBVIOUS
<1>13. f \in [1..a -> 1..b] /\ \A j \in 1..a : f[j] = q[j].n
  BY <1>8, <1>9, <1>11, <1>12
<1>14. /\ \A j, k \in 1..a : f[j] = f[k] => j = k
       /\ \A n \in 1..b : \E j \in 1..a : f[j] = n
  <2>1. DOMAIN q = 1..a
    BY <1>8, <1>11, Zenon
  <2>2. \A j, k \in 1..a : f[j] = f[k] => j = k
    BY <1>9, <1>13, <2>1, Zenon
  <2>3. \A n \in 1..b : \E j \in 1..a : f[j] = n
    BY <1>10, <1>13, <2>1, Zenon
  <2> QED BY <2>2, <2>3
<1>15. a = b
  <2>1. f \in Injection(1..a, 1..b)
    BY <1>13, <1>14 DEF Injection, IsInjective
  <2>2. f \in Surjection(1..a, 1..b)
    BY <1>13, <1>14 DEF Surjection
  <2>3. f \in Bijection(1..a, 1..b)
    BY <2>1, <2>2 DEF Bijection
  <2> QED BY <1>7, <2>3, SameLength
<1> QED BY <1>2, <1>6, <1>11, <1>15

(***************************************************************************)
(* At rest a closed stream is not live: were it, its Close and then its    *)
(* Ack would have been read on every socket, and the id given back.        *)
(***************************************************************************)
LEMMA ImpliesRecovered == IInv => ClosedIdRecovered
<1> SUFFICES ASSUME IInv, \A e \in Ends : Quiescent(e)
             PROVE  /\ \A e \in Ends, i \in Ids : ms[e].acked[i] = 0
                    /\ \A g \in Streams :
                         closing[Connector][g].step = "done" =>
                           \/ Contains(ms[Connector].free, idOf[g])
                           \/ \E h \in Streams : h > g /\ idOf[h] = idOf[g]
  BY DEF ClosedIdRecovered
<1>1. TypeInv /\ ControlInv /\ DataInv
  BY DEF IInv
<1>2. Connector \in Ends /\ Listener \in Ends
  BY Constants
<1>3. /\ \A e \in Ends, s \in Sockets : chan[e][s] = <<>>
      /\ reactor[Listener].step = "idle"
      /\ \A g \in Streams : closing[Connector][g].step \in {"no", "done"}
  BY <1>2 DEF Quiescent
<1>4. \A e \in Ends, s \in Sockets : \A g, type : ~Holding(e, s, g, type)
  BY <1>3 DEF Holding
<1>5. ASSUME NEW g \in Streams, Live(g)
      PROVE  closing[Connector][g].step = "no" /\ CloseRead(g) = {} /\ AckRead(g) = {} /\ ~Heard(g)
  <2>1. closing[Connector][g].step # "done"
    <3> SUFFICES ASSUME closing[Connector][g].step = "done" PROVE FALSE
      OBVIOUS
    <3>1. CloseSent(g) = Sockets
      BY DEF CloseSent
    <3>2. Heard(g)
      BY <1>2, <1>4, <3>1 DEF CloseRead, Heard
    <3>3. AckSent(g) = Sockets
      BY <1>3, <3>2 DEF AckSent, Busy
    <3>4. AckRead(g) = Sockets
      BY <1>2, <1>4, <3>3 DEF AckRead
    <3> QED BY <1>1, <1>5, <3>4 DEF ControlInv, CountInv, CountOK
  <2>2. closing[Connector][g].step = "no"
    BY <1>3, <2>1
  <2>3. CloseSent(g) = {} /\ Sockets # {}
    BY <1>1, <2>2, SocketSets
  <2>4. CloseRead(g) = {} /\ ~Heard(g)
    BY <2>3 DEF CloseRead, Heard
  <2> QED BY <2>2, <2>4 DEF AckRead, AckSent
<1>6. ASSUME NEW e \in Ends, NEW i \in Ids PROVE ms[e].acked[i] = 0
  <2>1. CASE \A g \in Streams : Live(g) => idOf[g] # i
    BY <1>1, <2>1 DEF ControlInv, UnusedInv
  <2>2. ASSUME NEW g \in Streams, Live(g), idOf[g] = i PROVE ms[e].acked[i] = 0
    <3>1. CountOK(g) /\ CloseRead(g) = {} /\ AckRead(g) = {} /\ ~Heard(g)
      BY <1>1, <1>5, <2>2 DEF ControlInv, CountInv
    <3>2. Cardinality({}) = 0
      BY FS_EmptySet
    <3>3. ms[Connector].acked[i] = 0 /\ ms[Listener].acked[i] = 0
      BY <2>2, <3>1, <3>2 DEF CountOK
    <3> QED BY <3>3, Constants
  <2> QED BY <2>1, <2>2
<1>7. ASSUME NEW g \in Streams, closing[Connector][g].step = "done"
      PROVE  \/ Contains(ms[Connector].free, idOf[g])
             \/ \E h \in Streams : h > g /\ idOf[h] = idOf[g]
  <2>1. ~Live(g)
    BY <1>5, <1>7
  <2>2. idOf[g] # 0
    BY <1>1, <1>7 DEF ControlInv, ConnectorInv, ConnectorOK
  <2>3. GivenBack(idOf[g]) => Contains(ms[Connector].free, idOf[g])
    <3>1. ms[Connector].free \in Seq(Ids)
      BY <1>1, <1>2 DEF TypeInv, SocketStates
    <3>2. DOMAIN ms[Connector].free = 1..Len(ms[Connector].free)
      BY <3>1, LenProperties
    <3> QED BY <3>2 DEF GivenBack, Contains
  <2> QED BY <2>1, <2>2, <2>3 DEF Live
<1> QED BY <1>6, <1>7

(***************************************************************************)
(* The ordered packets delivered on a stream have increasing numbers.      *)
(***************************************************************************)
LEMMA ImpliesInOrder == IInv => OrderedInOrder
<1> SUFFICES ASSUME IInv, NEW e \in Ends, NEW g \in Streams,
                    NEW i \in DOMAIN got[e][g], NEW j \in DOMAIN got[e][g],
                    got[e][g][i].ordered, got[e][g][j].ordered, i < j
             PROVE  got[e][g][i].n < got[e][g][j].n
  BY DEF OrderedInOrder
<1>1. PICK d \in Ends : Peer(d) = e
  BY Constants
<1>2. OrderInv
  BY DEF IInv, DataInv
<1> QED BY <1>1, <1>2 DEF OrderInv

-----------------------------------------------------------------------------

(***************************************************************************)
(* The Disconnected callback of a stream comes after every packet the peer *)
(* sent on it, whatever sockets the packets and the Close took, also when  *)
(* the id of the stream has been used before (shutDownClosedStream and     *)
(* receiveFullChunk of MultiplexedSocket.cpp).                             *)
(***************************************************************************)
THEOREM StreamsCompleteBeforeDisconnect ==
  ASSUME OneEndOpensAndCloses
  PROVE  Spec => []CompleteBeforeDisconnect
<1>1. Spec => []IInv
  BY Invariance
<1>2. IInv => CompleteBeforeDisconnect
  BY ImpliesComplete
<1> QED BY <1>1, <1>2, PTL

(***************************************************************************)
(* A packet is given to the stream it was sent on, never to an earlier or  *)
(* a later stream that has the same id (receiveFullChunk, getNewID).       *)
(***************************************************************************)
THEOREM StreamsNotMixedUp ==
  ASSUME OneEndOpensAndCloses
  PROVE  Spec => []NoMixup
<1>1. Spec => []IInv
  BY Invariance
<1>2. IInv => NoMixup
  BY DEF IInv, DataInv
<1> QED BY <1>1, <1>2, PTL

(***************************************************************************)
(* Ordered packets of a stream reach its callback in the order of the      *)
(* calls of send, although the stream shares its sockets with others and   *)
(* other packets of it take other sockets (the hash of the id in           *)
(* sendBytesNow).                                                          *)
(***************************************************************************)
THEOREM StreamsOrderedInOrder ==
  ASSUME OneEndOpensAndCloses
  PROVE  Spec => []OrderedInOrder
<1>1. Spec => []IInv
  BY Invariance
<1>2. IInv => OrderedInOrder
  BY ImpliesInOrder
<1> QED BY <1>1, <1>2, PTL

(***************************************************************************)
(* Once nothing is under way every count of control packets is back to     *)
(* zero, and the id of every closed stream is free or in use again         *)
(* (shutDownClosedStream, mFreeStreamIDs).                                 *)
(***************************************************************************)
THEOREM ClosedIdsRecovered ==
  ASSUME OneEndOpensAndCloses
  PROVE  Spec => []ClosedIdRecovered
<1>1. Spec => []IInv
  BY Invariance
<1>2. IInv => ClosedIdRecovered
  BY ImpliesRecovered
<1> QED BY <1>1, <1>2, PTL

=============================================================================
