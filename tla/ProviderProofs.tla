--------------------------- MODULE ProviderProofs ---------------------------
(***************************************************************************)
(* The vector and the map of a Provider agree, a notification calls every  *)
(* listener once, and no listener is left with an old value, for any set   *)
(* of listeners and any nesting of notifications (ListenerProvider.hpp).   *)
(***************************************************************************)
EXTENDS Provider, TLAPS

(***************************************************************************)
(* IndexInSync says all that matters of the map; the history variables do  *)
(* not matter here.                                                        *)
(***************************************************************************)
IInv == mListeners \in Seq(Listeners) /\ IndexInSync

(***************************************************************************)
(* A vector of one listener leaves at most that one in the map, and a      *)
(* listener to be removed from a longer one is found at its position.      *)
(***************************************************************************)
LEMMA FoundAtItsPosition ==
  ASSUME IInv, NEW p \in Registered, Len(mListeners) > 1
  PROVE  /\ mListenerIndex[p] \in DOMAIN mListeners
         /\ mListeners[mListenerIndex[p]] = p
  <1>1. PICK i \in DOMAIN mListeners : mListeners[i] = p
    BY DEF Registered
  <1> QED
    BY <1>1 DEF IInv, IndexInSync

(***************************************************************************)
(* Provider::addListener keeps the map up to date, also when the second    *)
(* listener makes it enter the first one.                                  *)
(***************************************************************************)
LEMMA AddKeepsSync ==
  ASSUME IInv, ProviderAddListener, Top.who \in Listeners \ Registered
  PROVE  IInv'
  <1> DEFINE n == Len(mListeners)
             p == Top.who
  <1>1. /\ n \in Nat /\ DOMAIN mListeners = 1..n
        /\ mListeners' = Append(mListeners, p) /\ p \in Listeners /\ p \notin Registered
        /\ \A i \in 1..n : mListeners[i] \in Listeners /\ mListeners[i] # p
    BY DEF IInv, ProviderAddListener, Registered
  <1>2. /\ mListeners' \in Seq(Listeners)
        /\ Len(mListeners') = n + 1
        /\ DOMAIN mListeners' = 1..(n + 1)
        /\ \A i \in 1..n : mListeners'[i] = mListeners[i]
        /\ mListeners'[n + 1] = p
    BY <1>1 DEF IInv
  <1>3. \A i, j \in DOMAIN mListeners' : mListeners'[i] = mListeners'[j] => i = j
    BY <1>1, <1>2 DEF IInv, IndexInSync
  <1>4. Registered' = Registered \cup {p}
    BY <1>1, <1>2 DEF Registered
  <1>5. CASE n = 0
    <2>1. mListenerIndex' = mListenerIndex
      BY <1>5 DEF ProviderAddListener
    <2> QED
      BY <1>1, <1>2, <1>3, <1>4, <1>5, <2>1 DEF IInv, IndexInSync
  <1>6. CASE n = 1
    <2>1. mListenerIndex' =
            [l \in DOMAIN mListenerIndex \cup {mListeners[1], p} |->
               IF l = p THEN 2 ELSE IF l = mListeners[1] THEN 1 ELSE mListenerIndex[l]]
      BY <1>6 DEF ProviderAddListener
    <2>2. Registered = {mListeners[1]}
      BY <1>1, <1>6 DEF Registered
    <2>3. DOMAIN mListenerIndex' = Registered'
      BY <1>4, <2>1, <2>2 DEF IInv, IndexInSync
    <2>4. \A i \in DOMAIN mListeners' : mListenerIndex'[mListeners'[i]] = i
      BY <1>1, <1>2, <1>6, <2>1
    <2> QED
      BY <1>2, <1>3, <2>1, <2>3, <2>4 DEF IInv, IndexInSync
  <1>7. CASE n > 1
    <2>0. n # 0 /\ n # 1
      BY <1>1, <1>7
    <2>1. mListenerIndex' =
            [l \in DOMAIN mListenerIndex \cup {p} |->
               IF l = p THEN n + 1 ELSE mListenerIndex[l]]
      BY <2>0, Zenon DEF ProviderAddListener
    <2>2. DOMAIN mListenerIndex' = Registered'
      BY <1>4, <1>7, <2>1 DEF IInv, IndexInSync
    <2>3. \A i \in 1..n : /\ mListeners[i] \in DOMAIN mListenerIndex
                          /\ mListenerIndex[mListeners[i]] = i
      BY <1>1, <1>7 DEF IInv, IndexInSync, Registered
    <2>4. \A i \in DOMAIN mListeners' : mListenerIndex'[mListeners'[i]] = i
      BY <1>1, <1>2, <2>1, <2>3
    <2> QED
      BY <1>2, <1>3, <2>1, <2>2, <2>4 DEF IInv, IndexInSync
  <1> QED
    BY <1>1, <1>5, <1>6, <1>7

(***************************************************************************)
(* Provider::removeListener moves the last listener and its position       *)
(* together, and removing the last one but one leaves no other in the map. *)
(***************************************************************************)
LEMMA RemoveKeepsSync ==
  ASSUME IInv, NEW p \in Listeners, removeListener(p)
  PROVE  IInv'
  <1> DEFINE n == Len(mListeners)
             where == mListenerIndex[p]
             last == mListeners[n]
  <1>0. n \in Nat
    BY DEF IInv
  <1>1. /\ n \in Nat /\ DOMAIN mListeners = 1..n /\ p \in Registered
        /\ \A i \in 1..n : mListeners[i] \in Listeners
    BY DEF IInv, removeListener, MayRemove
  <1>2. CASE n > 1
    <2>1. /\ mListeners' = MoveLastTo(where)
          /\ mListenerIndex' = [l \in DOMAIN mListenerIndex \ {p} |->
                                  IF l = last THEN where ELSE mListenerIndex[l]]
      BY <1>2 DEF removeListener
    <2>2. where \in 1..n /\ mListeners[where] = p
      BY <1>1, <1>2, FoundAtItsPosition
    <2>3. /\ \A i, j \in 1..n : mListeners[i] = mListeners[j] => i = j
          /\ \A i \in 1..n : mListenerIndex[mListeners[i]] = i
          /\ DOMAIN mListenerIndex = Registered
      BY <1>1, <1>2 DEF IInv, IndexInSync
    <2>4. /\ mListeners' = [k \in 1..(n - 1) |-> IF k = where THEN last ELSE mListeners[k]]
          /\ n - 1 \in Nat
          /\ \A k \in 1..(n - 1) : (IF k = where THEN last ELSE mListeners[k]) \in Listeners
      BY <1>1, <1>2, <2>1 DEF MoveLastTo
    <2>5. /\ mListeners' \in Seq(Listeners)
          /\ Len(mListeners') = n - 1
          /\ DOMAIN mListeners' = 1..(n - 1)
          /\ \A k \in 1..(n - 1) :
               mListeners'[k] = IF k = where THEN last ELSE mListeners[k]
      BY <2>4
    <2>6. \A i, j \in DOMAIN mListeners' : mListeners'[i] = mListeners'[j] => i = j
      BY <1>1, <1>2, <2>2, <2>3, <2>5
    <2>7. Registered' = Registered \ {p}
      <3>1. \A l \in Registered' : l \in Registered /\ l # p
        BY <1>1, <1>2, <2>2, <2>3, <2>5 DEF Registered
      <3>2. \A l \in Registered : l # p => l \in Registered'
        <4>a. SUFFICES ASSUME NEW l \in Registered, l # p
                       PROVE  l \in Registered'
          OBVIOUS
        <4>b. PICK i \in 1..n : mListeners[i] = l
          BY <1>1 DEF Registered
        <4>c. \A k \in 1..(n - 1) : mListeners'[k] \in Registered'
          BY <2>5 DEF Registered
        <4>1. CASE i = n
          <5>1. where # n
            BY <2>2, <4>a, <4>b, <4>1
          <5>2. where \in 1..(n - 1)
            BY <1>1, <2>2, <5>1
          <5> QED
            BY <2>5, <4>b, <4>c, <4>1, <5>2
        <4>2. CASE i # n
          <5>1. i # where
            BY <2>2, <4>a, <4>b
          <5>2. i \in 1..(n - 1)
            <6> HIDE DEF n
            <6> QED
              BY <1>0, <4>2
          <5> QED
            BY <2>5, <4>b, <4>c, <5>1, <5>2
        <4> QED
          BY <4>1, <4>2
      <3> QED
        BY <3>1, <3>2
    <2>8. DOMAIN mListenerIndex' = Registered'
      BY <2>1, <2>3, <2>7
    <2>9. \A i \in DOMAIN mListeners' : mListenerIndex'[mListeners'[i]] = i
      <3> SUFFICES ASSUME NEW i \in 1..(n - 1)
                   PROVE  mListenerIndex'[mListeners'[i]] = i
        BY <2>5
      <3>1. mListeners'[i] \in DOMAIN mListenerIndex \ {p}
        BY <2>3, <2>5, <2>7 DEF Registered
      <3>2. CASE i = where
        BY <2>1, <2>5, <3>1, <3>2
      <3>3. CASE i # where
        <4>1. mListeners'[i] = mListeners[i]
          BY <2>5, <3>3
        <4>2. i \in 1..n /\ n \in 1..n /\ i # n
          <5> HIDE DEF n
          <5> QED
            BY <1>0, <1>2
        <4>3. mListeners[i] # last
          BY <2>3, <4>2
        <4> QED
          BY <2>1, <2>3, <3>1, <4>1, <4>2, <4>3
      <3> QED
        BY <3>2, <3>3
    <2> QED
      BY <2>1, <2>5, <2>6, <2>8, <2>9 DEF IInv, IndexInSync
  <1>3. CASE ~(n > 1)
    <2>1. mListeners' = <<>> /\ mListenerIndex' = [l \in {} |-> 0]
      BY <1>3 DEF removeListener
    <2> QED
      BY <2>1 DEF IInv, IndexInSync, Registered
  <1> QED
    BY <1>2, <1>3

-----------------------------------------------------------------------------
(***************************************************************************)
(* The calls in progress.  What a call of notify() has done so far can be  *)
(* told from its position: the listeners before it are still to be called  *)
(* and the one being called, as long as it is registered, is not before    *)
(* it, wherever it moved and even if it left and came back.                *)
(***************************************************************************)
FrameType == [kind : {"notify", "add"}, i : Int, who : Listeners, a : Values,
              start : SUBSET Listeners, since : SUBSET Listeners,
              told : Seq(Listeners), disturbed : BOOLEAN]

FramesTyped ==
  /\ mA \in Values
  /\ heard \in [Listeners -> SUBSET Values]
  /\ frames \in Seq(FrameType)

(***************************************************************************)
(* A listener being added is not registered yet, is added by one call      *)
(* only, and knows what that call told it.                                 *)
(***************************************************************************)
AddsOut ==
  \A d \in DOMAIN frames : frames[d].kind = "add" =>
    /\ frames[d].who \notin Registered
    /\ heard[frames[d].who] = {frames[d].a}
    /\ \A e \in DOMAIN frames :
         frames[e].kind = "add" /\ frames[e].who = frames[d].who => e = d

AtItsPosition(f) ==
  /\ f.i \in 1..(Len(mListeners) + 1)
  /\ \A k \in DOMAIN mListeners : mListeners[k] = f.who => k >= f.i

(***************************************************************************)
(* The walk of a call: nobody was called twice, those before its position  *)
(* were there when it began and were not called yet, and whoever was there *)
(* all along was called or is before it.                                   *)
(***************************************************************************)
WalkInOrder(f) ==
  /\ AtItsPosition(f)
  /\ \A j \in DOMAIN f.told : f.told[j] \in f.start
  /\ \A i, j \in DOMAIN f.told : f.told[i] = f.told[j] => i = j
  /\ \A k \in DOMAIN mListeners : k < f.i =>
       /\ mListeners[k] \in f.start
       /\ \A j \in DOMAIN f.told : f.told[j] # mListeners[k]
  /\ \A l \in f.since : \/ \E j \in DOMAIN f.told : f.told[j] = l
                        \/ \E k \in DOMAIN mListeners : k < f.i /\ mListeners[k] = l

WalksInOrder ==
  \A d \in DOMAIN frames :
    frames[d].kind = "notify" /\ ~frames[d].disturbed => WalkInOrder(frames[d])

(***************************************************************************)
(* Every listener knows the last value, but those registered too late, or  *)
(* the innermost call of notify() is on its way to those that do not.  The *)
(* calls around it do not matter: when it ends nobody is left for them.    *)
(***************************************************************************)
Knows(l) == heard[l] = {mA} \/ l \in late
AllKnow == \A l \in Registered : Knows(l)

Innermost(d) ==
  /\ d \in DOMAIN frames /\ frames[d].kind = "notify"
  /\ \A e \in DOMAIN frames : e > d => frames[e].kind = "add"

ReachedKnow(f) ==
  /\ AtItsPosition(f)
  /\ \A k \in DOMAIN mListeners : k >= f.i => Knows(mListeners[k])

OnTheWay == AllKnow \/ \E d \in DOMAIN frames : Innermost(d) /\ ReachedKnow(frames[d])

WInv == IInv /\ FramesTyped /\ AddsOut /\ WalksInOrder /\ OnTheWay

(***************************************************************************)
(* The innermost call is one of the calls in progress.                     *)
(***************************************************************************)
LEMMA TopIsAFrame ==
  ASSUME FramesTyped, ~Idle
  PROVE  /\ Len(frames) \in Nat \ {0} /\ DOMAIN frames = 1..Len(frames)
         /\ Len(frames) \in DOMAIN frames
         /\ Top = frames[Len(frames)] /\ Top \in FrameType
  <1>1. frames \in Seq(FrameType) /\ frames # <<>>
    BY DEF FramesTyped, Idle
  <1>2. Len(frames) \in Nat \ {0} /\ DOMAIN frames = 1..Len(frames)
    BY <1>1
  <1> QED
    BY <1>1, <1>2 DEF Top

(***************************************************************************)
(* A step that tells registered listeners only leaves those being added    *)
(* out, unless it registers one of them.                                   *)
(***************************************************************************)
LEMMA AddsStayOut ==
  ASSUME FramesTyped, AddsOut,
         \A l \in Registered' : l \in Registered,
         \A l \in Listeners : l \notin Registered => heard'[l] = heard[l],
         \A d \in DOMAIN frames' : frames'[d].kind = "add" =>
           /\ d \in DOMAIN frames /\ frames[d].kind = "add"
           /\ frames'[d].who = frames[d].who /\ frames'[d].a = frames[d].a
  PROVE  AddsOut'
  <1>1. ASSUME NEW d \in DOMAIN frames', frames'[d].kind = "add"
        PROVE  /\ frames'[d].who \notin Registered'
               /\ heard'[frames'[d].who] = {frames'[d].a}
    <2>1. frames[d] \in FrameType /\ d \in DOMAIN frames
      BY <1>1 DEF FramesTyped
    <2>2. frames[d].who \in Listeners
      BY <2>1 DEF FrameType
    <2>3. frames[d].who \notin Registered /\ heard[frames[d].who] = {frames[d].a}
      BY <1>1, <2>1 DEF AddsOut
    <2>4. heard'[frames[d].who] = {frames[d].a} /\ frames[d].who \notin Registered'
      BY <2>2, <2>3
    <2> QED
      BY <1>1, <2>4
  <1>2. ASSUME NEW d \in DOMAIN frames', frames'[d].kind = "add",
               NEW e \in DOMAIN frames', frames'[e].kind = "add",
               frames'[e].who = frames'[d].who
        PROVE  e = d
    <2>1. /\ d \in DOMAIN frames /\ frames[d].kind = "add"
          /\ e \in DOMAIN frames /\ frames[e].kind = "add"
          /\ frames[e].who = frames[d].who
      BY <1>2
    <2> QED
      BY <2>1 DEF AddsOut
  <1> QED
    BY <1>1, <1>2 DEF AddsOut

(***************************************************************************)
(* What is to be shown of the call that is on its way after a step.        *)
(***************************************************************************)
LEMMA StillOnTheWay ==
  ASSUME NEW d \in DOMAIN frames',
         frames'[d].kind = "notify",
         \A e \in DOMAIN frames' : e > d => frames'[e].kind = "add",
         frames'[d].i \in 1..(Len(mListeners') + 1),
         \A k \in DOMAIN mListeners' : mListeners'[k] = frames'[d].who => k >= frames'[d].i,
         \A k \in DOMAIN mListeners' : k >= frames'[d].i =>
           heard'[mListeners'[k]] = {mA'} \/ mListeners'[k] \in late'
  PROVE  OnTheWay'
  BY DEF OnTheWay, Innermost, ReachedKnow, AtItsPosition, Knows

(***************************************************************************)
(* notify() on a vector that is not empty begins at its end.               *)
(***************************************************************************)
LEMMA NotifyKeeps ==
  ASSUME WInv, NEW a \in Values, notify(a)
  PROVE  (FramesTyped /\ AddsOut /\ WalksInOrder /\ OnTheWay)'
  <1> DEFINE n == Len(mListeners)
  <1>1. /\ mListeners \in Seq(Listeners) /\ n \in Nat /\ DOMAIN mListeners = 1..n
        /\ mListeners' = mListeners /\ mA' = a
        /\ \A i, j \in 1..n : mListeners[i] = mListeners[j] => i = j
    BY DEF WInv, IInv, IndexInSync, notify
  <1>r. Registered' = Registered
    BY <1>1 DEF Registered
  <1>2. CASE n = 0
    <2>1. mListeners = <<>> /\ frames' = frames /\ heard' = heard
      BY <1>1, <1>2 DEF notify
    <2>2. FramesTyped'
      BY <1>1, <2>1 DEF WInv, FramesTyped
    <2>3. WalksInOrder'
      BY <1>1, <2>1 DEF WInv, WalksInOrder, WalkInOrder, AtItsPosition
    <2>4. OnTheWay'
      BY <1>1, <2>1 DEF OnTheWay, AllKnow, Registered
    <2>5. AddsOut'
      BY <1>r, <2>1 DEF WInv, AddsOut
    <2> QED
      BY <2>2, <2>3, <2>4, <2>5
  <1>3. CASE n > 0
    <2> DEFINE m == Len(frames)
               f == Frame(a, n)
    <2>1. /\ frames' = Append(frames, f)
          /\ heard' = [heard EXCEPT ![mListeners[n]] = {a}]
          /\ late' = late \ {mListeners[n]}
      BY <1>1, <1>3 DEF notify
    <2>2. mListeners[n] \in Listeners /\ n \in 1..n
      BY <1>1, <1>3
    <2>3. /\ f.kind = "notify" /\ f.start = Registered
          /\ f.i = n /\ f.who = mListeners[n] /\ f.since = Registered
          /\ f.told = <<mListeners[n]>> /\ f \in FrameType
      BY <1>1, <2>2 DEF Frame, FrameType, Registered
    <2>4. /\ frames' \in Seq(FrameType) /\ m \in Nat /\ DOMAIN frames = 1..m
          /\ DOMAIN frames' = 1..(m + 1) /\ Len(frames') = m + 1
          /\ \A d \in 1..m : frames'[d] = frames[d]
          /\ frames'[m + 1] = f
      <3> HIDE DEF f
      <3> QED
        BY <2>1, <2>3 DEF WInv, FramesTyped
    <2>5. FramesTyped'
      BY <1>1, <2>1, <2>2, <2>4 DEF WInv, FramesTyped
    <2>6. WalkInOrder(f)'
      <3>1. f.told[1] = mListeners[n] /\ DOMAIN f.told = {1}
        BY <2>3
      <3>2. \A k \in 1..n : k < n => mListeners[k] # mListeners[n]
        BY <1>1, <2>2
      <3>3. \A l \in Registered : l = mListeners[n] \/ \E k \in 1..n : k < n /\ mListeners[k] = l
        BY <1>1, <2>2 DEF Registered
      <3>4. f' = f
        BY <1>1 DEF Frame, Registered
      <3>6. \A k \in 1..n : mListeners[k] \in Registered
        BY <1>1 DEF Registered
      <3> HIDE DEF f
      <3>5. AtItsPosition(f)'
        BY <1>1, <1>3, <2>3, <3>2, <3>4 DEF AtItsPosition
      <3> QED
        BY <1>1, <2>2, <2>3, <3>1, <3>2, <3>3, <3>4, <3>5, <3>6 DEF WalkInOrder
    <2>7. f' = f
      BY <1>1 DEF Frame, Registered
    <2> HIDE DEF f
    <2>8. WalksInOrder'
      <3> SUFFICES ASSUME NEW d \in 1..(m + 1), frames'[d].kind = "notify",
                          ~frames'[d].disturbed
                   PROVE  WalkInOrder(frames[d])'
        BY <2>4 DEF WalksInOrder
      <3>1. CASE d = m + 1
        <4>1. frames'[d] = f
          BY <2>4, <3>1
        <4> QED
          BY <4>1, <2>6, <2>7 DEF WalkInOrder, AtItsPosition
      <3>2. CASE d # m + 1
        <4>1. d \in 1..m
          <5> HIDE DEF m
          <5> QED
            BY <2>4, <3>2
        <4>2. frames'[d] = frames[d] /\ WalkInOrder(frames[d])
          BY <2>4, <4>1 DEF WInv, WalksInOrder
        <4> QED
          BY <1>1, <4>2 DEF WalkInOrder, AtItsPosition
      <3> QED
        BY <3>1, <3>2
    <2>9. OnTheWay'
      <3>2. f.i \in 1..(n + 1) /\ \A k \in 1..n : mListeners[k] = f.who => k >= f.i
        BY <1>1, <1>3, <2>2, <2>3
      <3>3. \A k \in 1..n : k >= n => heard'[mListeners[k]] = {a}
        BY <1>1, <2>1, <2>2 DEF WInv, FramesTyped
      <3>4. /\ m + 1 \in DOMAIN frames' /\ frames'[m + 1] = f
            /\ \A e \in DOMAIN frames' : ~(e > m + 1)
        <4> HIDE DEF m
        <4> QED
          BY <2>4
      <3> HIDE DEF m
      <3> QED
        BY <1>1, <2>3, <3>2, <3>3, <3>4, StillOnTheWay
    <2>10. AddsOut'
      <3>1. mListeners[n] \in Registered
        BY <1>1, <2>2 DEF Registered
      <3>2. \A l \in Listeners : l \notin Registered => heard'[l] = heard[l]
        BY <2>1, <3>1 DEF WInv, FramesTyped
      <3>3. \A d \in DOMAIN frames' : frames'[d].kind = "add" =>
               d \in DOMAIN frames /\ frames'[d] = frames[d]
        <4> HIDE DEF m
        <4> QED
          BY <2>3, <2>4
      <3> QED
        BY <1>r, <3>2, <3>3, AddsStayOut DEF WInv
    <2> QED
      BY <2>5, <2>8, <2>9, <2>10
  <1> QED
    BY <1>1, <1>2, <1>3

(***************************************************************************)
(* When a call ends, everyone knows the last value and the call around it  *)
(* is where it was; otherwise the next listener is told.                   *)
(***************************************************************************)
LEMMA ReturnKeeps ==
  ASSUME WInv, ListenerReturns
  PROVE  (FramesTyped /\ AddsOut /\ WalksInOrder /\ OnTheWay)'
  <1> DEFINE n == Len(mListeners)
             m == Len(frames)
             i == Top.i - 1
  <1>1. /\ mListeners \in Seq(Listeners) /\ n \in Nat /\ DOMAIN mListeners = 1..n
        /\ mListeners' = mListeners /\ mA' = mA
        /\ \A j, k \in 1..n : mListeners[j] = mListeners[k] => j = k
    BY DEF WInv, IInv, IndexInSync, ListenerReturns, Proceed
  <1>2. /\ m \in Nat \ {0} /\ DOMAIN frames = 1..m /\ m \in 1..m
        /\ Top = frames[m] /\ Top \in FrameType /\ ~Idle
        /\ Top.kind = "notify"
    BY TopIsAFrame DEF WInv, ListenerReturns
  <1>r. Registered' = Registered
    BY <1>1 DEF Registered
  <1>o. AllKnow \/ ReachedKnow(Top)
    <2> SUFFICES ASSUME NEW d \in DOMAIN frames, Innermost(d), ReachedKnow(frames[d])
                 PROVE  ReachedKnow(Top)
      BY DEF WInv, OnTheWay
    <2>1. ~(m > d)
      BY <1>2 DEF Innermost
    <2>2. d = m
      <3> HIDE DEF m
      <3> QED
        BY <1>2, <2>1
    <2> QED
      BY <1>2, <2>2
  <1>3. Top.i \in Int /\ i \in Int /\ Top.told \in Seq(Listeners)
    BY <1>2 DEF FrameType
  <1>4. CASE i \in 1..n
    <2> DEFINE f == [Top EXCEPT !.i = i, !.who = mListeners[i],
                                !.told = Append(Top.told, mListeners[i])]
    <2>1. /\ frames' = [frames EXCEPT ![m] = f]
          /\ heard' = [heard EXCEPT ![mListeners[i]] = {mA}]
          /\ late' = late \ {mListeners[i]}
      BY <1>1, <1>2, <1>4 DEF ListenerReturns, Proceed
    <2>2. mListeners[i] \in Listeners
      BY <1>1, <1>4
    <2>3. /\ f.kind = Top.kind /\ f.start = Top.start
          /\ f.i = i /\ f.who = mListeners[i] /\ f.since = Top.since
          /\ f.disturbed = Top.disturbed
          /\ f.told = Append(Top.told, mListeners[i]) /\ f \in FrameType
      <3> DEFINE g == [Top EXCEPT !.i = i]
                 h == [g EXCEPT !.who = mListeners[i]]
      <3>0. f = [h EXCEPT !.told = Append(Top.told, mListeners[i])]
        OBVIOUS
      <3>1. /\ g \in FrameType /\ g.i = i /\ g.kind = Top.kind /\ g.start = Top.start
            /\ g.since = Top.since /\ g.told = Top.told /\ g.disturbed = Top.disturbed
        BY <1>2, <1>3 DEF FrameType
      <3> HIDE DEF f, g
      <3>2. /\ h \in FrameType /\ h.i = g.i /\ h.who = mListeners[i]
            /\ h.kind = g.kind /\ h.start = g.start
            /\ h.since = g.since /\ h.told = g.told /\ h.disturbed = g.disturbed
        BY <2>2, <3>1 DEF FrameType
      <3>3. Append(Top.told, mListeners[i]) \in Seq(Listeners)
        BY <1>3, <2>2
      <3> HIDE DEF h
      <3> QED
        BY <3>0, <3>1, <3>2, <3>3 DEF FrameType
    <2> HIDE DEF f
    <2>4. /\ frames' \in Seq(FrameType) /\ DOMAIN frames' = 1..m /\ Len(frames') = m
          /\ \A d \in 1..m : d # m => frames'[d] = frames[d]
          /\ frames'[m] = f
      BY <1>2, <2>1, <2>3 DEF WInv, FramesTyped
    <2>5. FramesTyped'
      BY <1>1, <2>1, <2>2, <2>4 DEF WInv, FramesTyped
    <2>6. \A k \in 1..n : mListeners[k] = f.who => k >= f.i
      BY <1>1, <1>4, <2>3
    <2>7. AtItsPosition(frames[m])'
      <3>1. f.i \in 1..(n + 1)
        BY <1>1, <1>3, <1>4, <2>3
      <3>2. (frames[m])' = f
        BY <1>2, <2>4
      <3> HIDE DEF i, m
      <3> QED
        BY <1>1, <2>6, <3>1, <3>2 DEF AtItsPosition
    <2>8. WalksInOrder'
      <3> SUFFICES ASSUME NEW d \in 1..m, frames'[d].kind = "notify",
                          ~frames'[d].disturbed
                   PROVE  WalkInOrder(frames[d])'
        BY <2>4 DEF WalksInOrder
      <3>1. CASE d = m
        <4> DEFINE t == Top.told
                   z == Len(t)
        <4>1. WalkInOrder(Top)
          BY <1>2, <2>3, <2>4, <3>1 DEF WInv, WalksInOrder
        <4>2. /\ z \in Nat /\ DOMAIN t = 1..z /\ DOMAIN f.told = 1..(z + 1)
              /\ \A j \in 1..z : f.told[j] = t[j] /\ t[j] # mListeners[i]
              /\ f.told[z + 1] = mListeners[i]
          <5>1. z \in Nat /\ DOMAIN t = 1..z
            BY <1>3
          <5>2. i < Top.i /\ i \in DOMAIN mListeners
            BY <1>1, <1>3, <1>4
          <5>3. \A j \in 1..z : t[j] # mListeners[i]
            <6> HIDE DEF i
            <6> QED
              BY <4>1, <5>1, <5>2 DEF WalkInOrder
          <5> HIDE DEF i
          <5> QED
            BY <1>3, <2>2, <2>3, <5>1, <5>3
        <4>3. \A j, k \in DOMAIN f.told : f.told[j] = f.told[k] => j = k
          <5>1. \A j, k \in 1..z : t[j] = t[k] => j = k
            BY <4>1, <4>2 DEF WalkInOrder
          <5> HIDE DEF t, z
          <5>2. \A j \in 1..(z + 1) : j \in 1..z \/ j = z + 1
            BY <4>2
          <5> QED
            BY <4>2, <5>1, <5>2
        <4>4. \A k \in 1..n : k < i => \A j \in DOMAIN f.told : f.told[j] # mListeners[k]
          <5> SUFFICES ASSUME NEW k \in 1..n, k < i, NEW j \in 1..(z + 1)
                       PROVE  f.told[j] # mListeners[k]
            BY <4>2
          <5>1. k < Top.i /\ k # i
            BY <1>3
          <5> HIDE DEF i
          <5>2. CASE j \in 1..z
            <6>1. t[j] # mListeners[k]
              BY <1>1, <4>1, <5>1, <5>2, j \in DOMAIN t, <4>2 DEF WalkInOrder
            <6> QED
              BY <4>2, <5>2, <6>1
          <5>3. CASE j = z + 1
            BY <1>1, <1>4, <4>2, <5>1, <5>3
          <5> QED
            <6> HIDE DEF z
            <6> QED
              BY <4>2, <5>2, <5>3
        <4>5. ASSUME NEW l \in Top.since
              PROVE  \/ \E j \in DOMAIN f.told : f.told[j] = l
                     \/ \E k \in 1..n : k < i /\ mListeners[k] = l
          <5>1. CASE \E j \in DOMAIN t : t[j] = l
            BY <4>2, <5>1
          <5>2. CASE \E k \in 1..n : k < Top.i /\ mListeners[k] = l
            <6>1. PICK k \in 1..n : k < Top.i /\ mListeners[k] = l
              BY <5>2
            <6>2. k < i \/ k = i
              BY <1>3, <6>1
            <6>3. z + 1 \in 1..(z + 1)
              BY <4>2
            <6> QED
              BY <4>2, <6>1, <6>2, <6>3
          <5> QED
            BY <1>1, <4>1, <5>1, <5>2 DEF WalkInOrder
        <4>6. frames'[d] = f /\ AtItsPosition(frames[d])'
          BY <1>2, <2>4, <2>7, <3>1 DEF AtItsPosition
        <4>s. /\ \A j \in DOMAIN f.told : f.told[j] \in f.start
              /\ \A k \in 1..n : k < i => mListeners[k] \in f.start
          <5>1. \A k \in 1..n : k < Top.i => mListeners[k] \in Top.start
            BY <1>1, <4>1 DEF WalkInOrder
          <5>2. i < Top.i /\ \A k \in 1..n : k < i => k < Top.i
            BY <1>3
          <5>3. \A j \in 1..z : t[j] \in Top.start
            BY <4>1, <4>2 DEF WalkInOrder
          <5> HIDE DEF t, z, i
          <5>4. \A j \in 1..(z + 1) : j \in 1..z \/ j = z + 1
            BY <4>2
          <5> QED
            BY <1>4, <2>3, <4>2, <5>1, <5>2, <5>3, <5>4
        <4>7. /\ \A k \in DOMAIN mListeners' : k < f.i =>
                   /\ mListeners'[k] \in f.start
                   /\ \A j \in DOMAIN f.told : f.told[j] # mListeners'[k]
              /\ \A l \in f.since :
                   \/ \E j \in DOMAIN f.told : f.told[j] = l
                   \/ \E k \in DOMAIN mListeners' : k < f.i /\ mListeners'[k] = l
          <5> HIDE DEF i
          <5> QED
            BY <1>1, <2>3, <4>4, <4>5, <4>s
        <4> HIDE DEF t, z, i
        <4> QED
          BY <4>3, <4>6, <4>7, <4>s DEF WalkInOrder
      <3>2. CASE d # m
        <4>1. frames'[d] = frames[d] /\ WalkInOrder(frames[d])
          BY <1>2, <2>4, <3>2 DEF WInv, WalksInOrder
        <4> QED
          BY <1>1, <4>1 DEF WalkInOrder, AtItsPosition
      <3> QED
        BY <3>1, <3>2
    <2>9. OnTheWay'
      <3>1. /\ m \in DOMAIN frames' /\ frames'[m] = f
            /\ \A e \in DOMAIN frames' : ~(e > m)
        <4> HIDE DEF m
        <4> QED
          BY <1>2, <2>4
      <3>2. ASSUME NEW k \in 1..n, k = i \/ Knows(mListeners[k])
            PROVE  Knows(mListeners[k])'
        <4>1. mListeners[k] \in Listeners
          BY <1>1
        <4>2. CASE mListeners[k] = mListeners[i]
          BY <1>1, <2>1, <4>1, <4>2 DEF Knows, WInv, FramesTyped
        <4>3. CASE mListeners[k] # mListeners[i]
          BY <1>1, <2>1, <3>2, <4>1, <4>3 DEF Knows, WInv, FramesTyped
        <4> QED
          BY <4>2, <4>3
      <3>3. CASE AllKnow
        <4>1. \A k \in 1..n : Knows(mListeners[k])
          BY <1>1, <3>3 DEF AllKnow, Registered
        <4>2. \A k \in 1..n : Knows(mListeners[k])'
          BY <3>2, <4>1
        <4> QED
          BY <1>1, <4>2 DEF OnTheWay, AllKnow, Registered, Knows
      <3>4. CASE ReachedKnow(Top)
        <4>1. ASSUME NEW k \in 1..n, k >= i
              PROVE  Knows(mListeners[k])'
          <5>1. k = i \/ k >= Top.i
            BY <1>3, <4>1
          <5>2. k = i \/ Knows(mListeners[k])
            BY <1>1, <3>4, <5>1 DEF ReachedKnow
          <5> QED
            BY <3>2, <5>2
        <4>2. \A k \in 1..n : k >= f.i => heard'[mListeners[k]] = {mA'} \/ mListeners[k] \in late'
          BY <1>1, <2>3, <4>1 DEF Knows
        <4>3. f.i \in 1..(n + 1)
          BY <1>1, <1>3, <1>4, <2>3
        <4> HIDE DEF m, i
        <4> QED
          BY <1>1, <1>2, <2>3, <2>6, <3>1, <4>2, <4>3, StillOnTheWay
      <3> QED
        BY <1>o, <3>3, <3>4
    <2>10. AddsOut'
      <3>1. mListeners[i] \in Registered
        BY <1>1, <1>4 DEF Registered
      <3>2. \A l \in Listeners : l \notin Registered => heard'[l] = heard[l]
        BY <2>1, <3>1 DEF WInv, FramesTyped
      <3>3. \A d \in DOMAIN frames' : frames'[d].kind = "add" =>
               d \in DOMAIN frames /\ frames'[d] = frames[d]
        BY <1>2, <2>3, <2>4
      <3> QED
        BY <1>r, <3>2, <3>3, AddsStayOut DEF WInv
    <2> QED
      BY <2>5, <2>8, <2>9, <2>10
  <1>5. CASE i \notin 1..n
    <2>1. frames' = SubSeq(frames, 1, m - 1) /\ heard' = heard /\ late' = late
      BY <1>1, <1>5 DEF ListenerReturns, Proceed
    <2>2. /\ frames' \in Seq(FrameType) /\ DOMAIN frames' = 1..(m - 1)
          /\ \A d \in 1..(m - 1) : frames'[d] = frames[d]
      BY <1>2, <2>1 DEF WInv, FramesTyped
    <2>3. FramesTyped'
      BY <1>1, <2>1, <2>2 DEF WInv, FramesTyped
    <2>4. WalksInOrder'
      <3> SUFFICES ASSUME NEW d \in 1..(m - 1), frames'[d].kind = "notify",
                          ~frames'[d].disturbed
                   PROVE  WalkInOrder(frames[d])'
        BY <2>2 DEF WalksInOrder
      <3>1. d \in DOMAIN frames
        BY <1>2
      <3>2. frames'[d] = frames[d] /\ WalkInOrder(frames[d])
        BY <2>2, <3>1 DEF WInv, WalksInOrder
      <3> QED
        BY <1>1, <3>2 DEF WalkInOrder, AtItsPosition
    <2>5. AllKnow
      <3> SUFFICES ASSUME ReachedKnow(Top)
                   PROVE  AllKnow
        BY <1>o
      <3>1. Top.i = 1
        BY <1>1, <1>3, <1>5 DEF ReachedKnow, AtItsPosition
      <3>2. \A k \in 1..n : Knows(mListeners[k])
        BY <1>1, <3>1 DEF ReachedKnow
      <3> QED
        BY <1>1, <3>2 DEF AllKnow, Registered
    <2>6. OnTheWay'
      BY <1>1, <2>1, <2>5 DEF OnTheWay, AllKnow, Registered, Knows
    <2>7. AddsOut'
      <3>1. \A d \in 1..(m - 1) : d \in DOMAIN frames
        BY <1>2
      <3> QED
        BY <1>r, <2>1, <2>2, <3>1, AddsStayOut DEF WInv
    <2> QED
      BY <2>3, <2>4, <2>6, <2>7
  <1> QED
    BY <1>4, <1>5

(***************************************************************************)
(* A call of addListener() that begins disturbs no other call: the new     *)
(* listener is not registered yet.                                         *)
(***************************************************************************)
LEMMA AddBeginKeeps ==
  ASSUME WInv, NEW p \in Listeners, addListener(p)
  PROVE  (FramesTyped /\ AddsOut /\ WalksInOrder /\ OnTheWay)'
  <1> DEFINE m == Len(frames)
             f == AddFrame(p)
  <1>1. /\ mListeners' = mListeners /\ mA' = mA /\ late' = late
        /\ p \notin Registered /\ p \notin BeingAdded
        /\ frames' = Append(frames, f) /\ heard' = [heard EXCEPT ![p] = {mA}]
    BY DEF addListener
  <1>2. f.kind = "add" /\ f.who = p /\ f.a = mA /\ f \in FrameType
    BY DEF AddFrame, FrameType, WInv, FramesTyped
  <1> HIDE DEF f
  <1>3. /\ frames' \in Seq(FrameType) /\ m \in Nat /\ DOMAIN frames = 1..m
        /\ DOMAIN frames' = 1..(m + 1)
        /\ \A d \in 1..m : frames'[d] = frames[d] /\ frames[d] \in FrameType
        /\ frames'[m + 1] = f
    BY <1>1, <1>2 DEF WInv, FramesTyped
  <1> HIDE DEF m
  <1>4. \A d \in 1..(m + 1) : d \in 1..m \/ d = m + 1
    BY <1>3
  <1>5. \A l \in Registered : heard'[l] = heard[l] /\ l \in Listeners
    BY <1>1 DEF WInv, FramesTyped, IInv, Registered
  <1>r. Registered' = Registered
    BY <1>1 DEF Registered
  <1>6. FramesTyped'
    BY <1>1, <1>3 DEF WInv, FramesTyped
  <1>7. AddsOut'
    <2>1. ASSUME NEW d \in 1..m, frames[d].kind = "add"
          PROVE  /\ frames[d].who # p /\ frames[d].who \notin Registered
                 /\ heard'[frames[d].who] = {frames[d].a}
      <3>1. frames[d].who \in BeingAdded
        BY <1>3, <2>1 DEF BeingAdded
      <3>2. frames[d].who \in Listeners
        BY <1>3 DEF FrameType
      <3>3. frames[d].who \notin Registered /\ heard[frames[d].who] = {frames[d].a}
        BY <1>3, <2>1 DEF WInv, AddsOut
      <3> QED
        BY <1>1, <3>1, <3>2, <3>3 DEF WInv, FramesTyped
    <2>2. heard'[p] = {mA}
      BY <1>1 DEF WInv, FramesTyped
    <2>3. ASSUME NEW d \in 1..(m + 1), frames'[d].kind = "add"
          PROVE  frames'[d].who \notin Registered' /\ heard'[frames'[d].who] = {frames'[d].a}
      BY <1>1, <1>2, <1>3, <1>4, <1>r, <2>1, <2>2, <2>3
    <2>4. ASSUME NEW d \in 1..(m + 1), frames'[d].kind = "add",
                 NEW e \in 1..(m + 1), frames'[e].kind = "add",
                 frames'[e].who = frames'[d].who
          PROVE  e = d
      <3>1. CASE d \in 1..m /\ e \in 1..m
        BY <1>3, <2>4, <3>1 DEF WInv, AddsOut
      <3>2. CASE d \notin 1..m \/ e \notin 1..m
        BY <1>2, <1>3, <1>4, <2>1, <2>4, <3>2
      <3> QED
        BY <3>1, <3>2
    <2> QED
      BY <1>3, <2>3, <2>4 DEF AddsOut
  <1>8. WalksInOrder'
    <2> SUFFICES ASSUME NEW d \in 1..(m + 1), frames'[d].kind = "notify", ~frames'[d].disturbed
                 PROVE  WalkInOrder(frames[d])'
      BY <1>3 DEF WalksInOrder
    <2>1. d \in 1..m
      BY <1>2, <1>3, <1>4
    <2>2. frames'[d] = frames[d] /\ WalkInOrder(frames[d])
      BY <1>3, <2>1 DEF WInv, WalksInOrder
    <2> QED
      BY <1>1, <2>2 DEF WalkInOrder, AtItsPosition
  <1>9. OnTheWay'
    <2>1. CASE AllKnow
      BY <1>1, <1>5, <1>r, <2>1 DEF OnTheWay, AllKnow, Knows
    <2>2. ASSUME NEW d \in DOMAIN frames, Innermost(d), ReachedKnow(frames[d])
          PROVE  OnTheWay'
      <3>1. d \in 1..m /\ d \in DOMAIN frames' /\ frames'[d] = frames[d]
        BY <1>3
      <3>2. \A e \in DOMAIN frames' : e > d => frames'[e].kind = "add"
        BY <1>2, <1>3, <1>4, <2>2 DEF Innermost
      <3>3. \A k \in DOMAIN mListeners : mListeners[k] \in Registered
        BY DEF Registered
      <3>4. \A k \in DOMAIN mListeners : k >= frames[d].i =>
              heard'[mListeners[k]] = {mA} \/ mListeners[k] \in late
        BY <1>5, <2>2, <3>3 DEF ReachedKnow, Knows
      <3>5. /\ frames[d].i \in 1..(Len(mListeners) + 1)
            /\ \A k \in DOMAIN mListeners : mListeners[k] = frames[d].who => k >= frames[d].i
            /\ frames[d].kind = "notify"
        BY <2>2 DEF ReachedKnow, AtItsPosition, Innermost
      <3> QED
        BY <1>1, <3>1, <3>2, <3>4, <3>5, StillOnTheWay
    <2> QED
      BY <2>1, <2>2 DEF WInv, OnTheWay
  <1> QED
    BY <1>6, <1>7, <1>8, <1>9

(***************************************************************************)
(* A listener that is registered is behind the position of every call, and *)
(* knows the last value unless that changed while it was being told.       *)
(***************************************************************************)
LEMMA RegisterKeeps ==
  ASSUME WInv, ProviderAddListener
  PROVE  (IInv /\ FramesTyped /\ AddsOut /\ WalksInOrder /\ OnTheWay)'
  <1> DEFINE n == Len(mListeners)
             m == Len(frames)
             p == Top.who
  <1>t. /\ m \in Nat \ {0} /\ DOMAIN frames = 1..m /\ m \in 1..m
        /\ Top = frames[m] /\ Top \in FrameType /\ Top.kind = "add"
    BY TopIsAFrame DEF WInv, ProviderAddListener
  <1>p. p \in Listeners \ Registered /\ heard[p] = {Top.a}
    BY <1>t DEF WInv, AddsOut, FrameType
  <1>1. /\ n \in Nat /\ DOMAIN mListeners = 1..n
        /\ mListeners' \in Seq(Listeners) /\ Len(mListeners') = n + 1
        /\ DOMAIN mListeners' = 1..(n + 1)
        /\ \A k \in 1..n : mListeners'[k] = mListeners[k] /\ mListeners[k] # p
        /\ \A k \in 1..n : mListeners[k] \in Listeners
        /\ mListeners'[n + 1] = p
        /\ mA' = mA /\ heard' = heard /\ frames' = SubSeq(frames, 1, m - 1)
        /\ late' = IF Top.a = mA THEN late \ {p} ELSE late \cup {p}
    BY <1>p DEF WInv, IInv, ProviderAddListener, Registered
  <1>f. /\ frames' \in Seq(FrameType) /\ DOMAIN frames' = 1..(m - 1)
        /\ \A d \in 1..(m - 1) : /\ frames'[d] = frames[d] /\ d \in 1..m /\ d # m
                                 /\ d \in DOMAIN frames
    BY <1>1, <1>t DEF WInv, FramesTyped
  <1>i. IInv'
    BY <1>p, AddKeepsSync DEF WInv
  <1> HIDE DEF n, m, p
  <1>2. FramesTyped'
    BY <1>1, <1>f DEF WInv, FramesTyped
  <1>3. ASSUME NEW f, AtItsPosition(f), f.i \in Int
        PROVE  /\ f.i \in 1..(Len(mListeners') + 1)
               /\ \A k \in DOMAIN mListeners' : mListeners'[k] = f.who => k >= f.i
    <2>1. f.i \in 1..(n + 1)
      BY <1>1, <1>3 DEF AtItsPosition, n
    <2>2. f.i \in 1..(n + 2)
      BY <1>1, <2>1
    <2>3. ASSUME NEW k \in 1..(n + 1), mListeners'[k] = f.who
          PROVE  k >= f.i
      <3>1. CASE k = n + 1
        BY <1>1, <2>1, <3>1
      <3>2. CASE k # n + 1
        <4>1. k \in 1..n
          BY <1>1, <3>2
        <4> QED
          BY <1>1, <1>3, <2>3, <4>1 DEF AtItsPosition
      <3> QED
        BY <3>1, <3>2
    <2> QED
      BY <1>1, <2>2, <2>3
  <1>4. ASSUME NEW d \in DOMAIN frames
        PROVE  frames[d].i \in Int
    <2>1. frames[d] \in FrameType
      BY DEF WInv, FramesTyped
    <2> QED
      BY <2>1 DEF FrameType
  <1>5. WalksInOrder'
    <2> SUFFICES ASSUME NEW d \in DOMAIN frames', frames'[d].kind = "notify",
                        ~frames'[d].disturbed
                 PROVE  WalkInOrder(frames[d])'
      BY DEF WalksInOrder
    <2> DEFINE f == frames[d]
    <2>1. WalkInOrder(f) /\ f' = f /\ f.i \in Int /\ f.i \in 1..(n + 1)
      BY <1>f, <1>4 DEF WInv, WalksInOrder, WalkInOrder, AtItsPosition, n
    <2>2. AtItsPosition(f)'
      <3>1. AtItsPosition(f)
        BY <2>1 DEF WalkInOrder
      <3>2. /\ f.i \in 1..(Len(mListeners') + 1)
            /\ \A k \in DOMAIN mListeners' : mListeners'[k] = f.who => k >= f.i
        <4> HIDE DEF f
        <4> QED
          BY <1>3, <2>1, <3>1
      <3> QED
        BY <2>1, <3>2 DEF AtItsPosition
    <2> HIDE DEF f
    <2>3. \A k \in 1..(n + 1) : k < f.i => k \in 1..n
      BY <1>1, <2>1
    <2>4. \A k \in 1..(n + 1) : k < f.i =>
            /\ mListeners'[k] \in f.start
            /\ \A j \in DOMAIN f.told : f.told[j] # mListeners'[k]
      BY <1>1, <2>1, <2>3 DEF WalkInOrder
    <2>5. \A k \in 1..n : k \in 1..(n + 1)
      BY <1>1
    <2>6. \A l \in f.since : \/ \E j \in DOMAIN f.told : f.told[j] = l
                             \/ \E k \in 1..(n + 1) : k < f.i /\ mListeners'[k] = l
      BY <1>1, <2>1, <2>5 DEF WalkInOrder
    <2>7. WalkInOrder(f)'
      BY <1>1, <2>1, <2>2, <2>4, <2>6 DEF WalkInOrder
    <2> QED
      BY <2>7 DEF f
  <1>6. ASSUME NEW k \in 1..(n + 1), k = n + 1 \/ Knows(mListeners[k])
        PROVE  heard'[mListeners'[k]] = {mA'} \/ mListeners'[k] \in late'
    <2>1. CASE k = n + 1
      BY <1>1, <1>p, <2>1 DEF p
    <2>2. CASE k # n + 1
      <3>1. k \in 1..n
        BY <1>1, <2>2
      <3> QED
        BY <1>1, <1>6, <2>2, <3>1 DEF Knows
    <2> QED
      BY <2>1, <2>2
  <1>7. OnTheWay'
    <2>1. CASE AllKnow
      <3>1. \A k \in 1..n : Knows(mListeners[k])
        BY <1>1, <2>1 DEF AllKnow, Registered
      <3>2. \A k \in 1..(n + 1) : k \in 1..n \/ k = n + 1
        BY <1>1
      <3>3. \A k \in 1..(n + 1) : heard'[mListeners'[k]] = {mA'} \/ mListeners'[k] \in late'
        BY <1>6, <3>1, <3>2
      <3> QED
        BY <1>1, <3>3 DEF OnTheWay, AllKnow, Registered, Knows
    <2>2. ASSUME NEW d \in DOMAIN frames, Innermost(d), ReachedKnow(frames[d])
          PROVE  OnTheWay'
      <3>1. d \in DOMAIN frames' /\ frames'[d] = frames[d]
        <4>1. d # m
          BY <1>t, <2>2 DEF Innermost, m
        <4>2. d \in 1..(m - 1)
          BY <1>t, <4>1 DEF m
        <4> QED
          BY <1>f, <4>2
      <3>2. \A e \in DOMAIN frames' : e > d => frames'[e].kind = "add"
        BY <1>f, <2>2 DEF Innermost
      <3>3. /\ frames[d].i \in 1..(Len(mListeners') + 1)
            /\ \A k \in DOMAIN mListeners' : mListeners'[k] = frames[d].who => k >= frames[d].i
        BY <1>3, <1>4, <2>2 DEF ReachedKnow
      <3>4. ASSUME NEW k \in 1..(n + 1), k >= frames[d].i
            PROVE  heard'[mListeners'[k]] = {mA'} \/ mListeners'[k] \in late'
        <4>1. k \in 1..n \/ k = n + 1
          BY <1>1
        <4>2. k = n + 1 \/ Knows(mListeners[k])
          BY <1>1, <2>2, <3>4, <4>1 DEF ReachedKnow
        <4> QED
          BY <1>6, <4>2
      <3>5. frames[d].kind = "notify"
        BY <2>2 DEF Innermost
      <3> QED
        BY <1>1, <3>1, <3>2, <3>3, <3>4, <3>5, StillOnTheWay
    <2> QED
      BY <2>1, <2>2 DEF WInv, OnTheWay
  <1>8. AddsOut'
    <2>1. Registered' = Registered \cup {p}
      <3>1. \A k \in 1..(n + 1) : k \in 1..n \/ k = n + 1
        BY <1>1
      <3>2. n + 1 \in 1..(n + 1) /\ \A k \in 1..n : k \in 1..(n + 1)
        BY <1>1
      <3>3. \A l \in Registered' : l \in Registered \cup {p}
        BY <1>1, <3>1 DEF Registered
      <3>4. \A l \in Registered \cup {p} : l \in Registered'
        BY <1>1, <3>2 DEF Registered
      <3> QED
        BY <3>3, <3>4
    <2>2. ASSUME NEW d \in DOMAIN frames', frames'[d].kind = "add"
          PROVE  frames[d].who # p
      <3>1. d \in DOMAIN frames /\ m \in DOMAIN frames /\ d # m /\ frames[d].kind = "add"
        BY <1>f, <1>t, <2>2
      <3>2. frames[m].kind = "add" /\ frames[m].who = p
        BY <1>t DEF p
      <3> QED
        BY <3>1, <3>2 DEF WInv, AddsOut
    <2> QED
      BY <1>1, <1>f, <2>1, <2>2 DEF WInv, AddsOut
  <1> QED
    BY <1>i, <1>2, <1>5, <1>7, <1>8

(***************************************************************************)
(* A listener that removes itself is not before the position of the        *)
(* innermost call, and neither is the last one, which takes its place: the *)
(* part of the vector the call still has to walk stays as it is.           *)
(***************************************************************************)
LEMMA RemoveKeeps ==
  ASSUME WInv, NEW p \in Listeners, removeListener(p)
  PROVE  (FramesTyped /\ AddsOut /\ WalksInOrder /\ OnTheWay)'
  <1> DEFINE n == Len(mListeners)
             m == Len(frames)
  <1>1. /\ mListeners \in Seq(Listeners) /\ n \in Nat /\ DOMAIN mListeners = 1..n
        /\ p \in Registered /\ (~Idle => p = Top.who)
        /\ late' = late /\ mA' = mA /\ heard' = heard /\ frames' = Without(p)
        /\ \A j, k \in 1..n : mListeners[j] = mListeners[k] => j = k
    BY DEF WInv, IInv, IndexInSync, removeListener, MayRemove
  <1>2. PICK where \in 1..n : mListeners[where] = p
    BY <1>1 DEF Registered
  <1>3. n >= 1 /\ n - 1 \in Nat /\ n \in 1..n
    BY <1>1, <1>2
  <1>4. /\ \A k \in 1..(n - 1) :
             mListeners'[k] = IF k = where THEN mListeners[n] ELSE mListeners[k]
        /\ Len(mListeners') = n - 1 /\ DOMAIN mListeners' = 1..(n - 1)
    <2>1. CASE n > 1
      <3>1. mListenerIndex[p] = where
        BY <1>1, <1>2, <2>1 DEF WInv, IInv, IndexInSync
      <3>2. mListeners' = MoveLastTo(where)
        BY <2>1, <3>1 DEF removeListener
      <3>3. mListeners' = [k \in 1..(n - 1) |->
                             IF k = where THEN mListeners[n] ELSE mListeners[k]]
        BY <3>2 DEF MoveLastTo
      <3>4. \A k \in 1..(n - 1) : (IF k = where THEN mListeners[n] ELSE mListeners[k]) \in Listeners
        BY <1>1, <1>3
      <3> QED
        BY <1>3, <3>3, <3>4
    <2>2. CASE ~(n > 1)
      <3>1. mListeners' = <<>> /\ n - 1 = 0
        BY <1>1, <1>3, <2>2 DEF removeListener
      <3>2. Len(mListeners') = 0 /\ DOMAIN mListeners' = 1..0
        BY <3>1
      <3> HIDE DEF n
      <3>3. \A k \in 1..(n - 1) : FALSE
        BY <3>1
      <3> QED
        BY <3>1, <3>2, <3>3
    <2> QED
      BY <2>1, <2>2
  <1>5. \A k \in 1..(n - 1) : k \in 1..n /\ k # n
    <2> HIDE DEF n
    <2> QED
      BY <1>3
  <1>6. \A k \in 1..(n - 1) : /\ k = where => mListeners'[k] = mListeners[n]
                              /\ k # where => mListeners'[k] = mListeners[k]
                              /\ \E j \in 1..n : mListeners'[k] = mListeners[j]
    BY <1>3, <1>4, <1>5
  <1>7. /\ DOMAIN frames = 1..m /\ m \in Nat /\ DOMAIN frames' = 1..m /\ Len(frames') = m
        /\ frames' \in Seq(FrameType)
        /\ \A d \in 1..m : /\ frames[d] \in FrameType
                           /\ frames'[d].i = frames[d].i /\ frames'[d].who = frames[d].who
                           /\ frames'[d].kind = frames[d].kind /\ frames'[d].a = frames[d].a
                           /\ frames'[d].start = frames[d].start
                           /\ frames'[d].told = frames[d].told
                           /\ frames'[d].since = frames[d].since \ {p}
                           /\ frames'[d].disturbed = (frames[d].disturbed \/ d < m)
    <2>1. frames \in Seq(FrameType) /\ DOMAIN frames = 1..m /\ m \in Nat
      BY DEF WInv, FramesTyped
    <2>2. frames' = [d \in 1..m |->
            [frames[d] EXCEPT !.since = @ \ {p}, !.disturbed = @ \/ d < m]]
      BY <1>1, <2>1 DEF Without
    <2>3. ASSUME NEW d \in 1..m
          PROVE  /\ frames[d] \in FrameType /\ frames'[d] \in FrameType
                 /\ frames'[d].i = frames[d].i /\ frames'[d].who = frames[d].who
                 /\ frames'[d].kind = frames[d].kind /\ frames'[d].a = frames[d].a
                 /\ frames'[d].start = frames[d].start
                 /\ frames'[d].told = frames[d].told
                 /\ frames'[d].since = frames[d].since \ {p}
                 /\ frames'[d].disturbed = (frames[d].disturbed \/ d < m)
      <3> DEFINE f == frames[d]
                 s == f.since \ {p}
                 b == f.disturbed \/ d < m
                 g == [f EXCEPT !.since = s]
      <3>1. f \in FrameType
        BY <2>1
      <3>2. frames'[d] = [g EXCEPT !.disturbed = b]
        BY <2>2
      <3>3. s \in SUBSET Listeners /\ b \in BOOLEAN
        BY <3>1 DEF FrameType
      <3> HIDE DEF f, s, b
      <3>4. /\ g \in FrameType /\ g.i = f.i /\ g.who = f.who /\ g.told = f.told
            /\ g.since = s /\ g.kind = f.kind /\ g.a = f.a /\ g.start = f.start
        BY <3>1, <3>3 DEF FrameType
      <3> HIDE DEF g
      <3>5. /\ frames'[d] \in FrameType
            /\ frames'[d].i = g.i /\ frames'[d].who = g.who /\ frames'[d].told = g.told
            /\ frames'[d].since = g.since /\ frames'[d].disturbed = b
            /\ frames'[d].kind = g.kind /\ frames'[d].a = g.a /\ frames'[d].start = g.start
        BY <3>2, <3>3, <3>4 DEF FrameType
      <3> QED
        BY <3>1, <3>4, <3>5 DEF f, s, b
    <2> HIDE DEF m
    <2>4. DOMAIN frames' = 1..m
      BY <2>2
    <2>5. frames' \in Seq(FrameType) /\ Len(frames') = m
      <3> DEFINE E(d) == [frames[d] EXCEPT !.since = @ \ {p}, !.disturbed = @ \/ d < m]
      <3>1. frames' = [d \in 1..m |-> E(d)]
        BY <2>2
      <3> HIDE DEF E
      <3> QED
        BY <2>1, <2>3, <3>1
    <2> QED
      BY <2>1, <2>3, <2>4, <2>5
  <1>8. FramesTyped'
    BY <1>1, <1>7 DEF WInv, FramesTyped
  <1>t. ASSUME ~Idle
        PROVE  m \in 1..m /\ Top = frames[m] /\ Top.kind = "notify"
    <2>1. m \in 1..m /\ Top = frames[m] /\ Top \in FrameType
      BY <1>t, TopIsAFrame DEF WInv
    <2>2. Top.kind # "add"
      BY <1>1, <1>7, <1>t, <2>1 DEF WInv, AddsOut
    <2> QED
      BY <2>1, <2>2 DEF FrameType
  <1>r. \A l \in Registered' : l \in Registered
    BY <1>1, <1>4, <1>6 DEF Registered
  <1>a. AddsOut'
    BY <1>1, <1>7, <1>r, AddsStayOut DEF WInv
  <1>9. ASSUME ~Idle, AtItsPosition(Top)
        PROVE  /\ m \in 1..m /\ Top = frames[m] /\ Top.i \in 1..n /\ where >= Top.i
               /\ AtItsPosition(Top)'
               /\ \A k \in 1..(n - 1) : k < Top.i => mListeners'[k] = mListeners[k]
    <2>1. m \in 1..m /\ Top = frames[m]
      BY <1>9, TopIsAFrame DEF WInv
    <2>2. where >= Top.i /\ Top.i \in 1..(n + 1)
      BY <1>1, <1>2, <1>9 DEF AtItsPosition
    <2>3. Top.i \in 1..n
      <3> HIDE DEF n
      <3> QED
        BY <1>1, <2>2
    <2>4. Top'.i = Top.i /\ Top'.who = Top.who /\ Top' = frames'[m]
      BY <1>7, <2>1 DEF Top
    <2>5. ASSUME NEW k \in 1..(n - 1), k < Top.i
          PROVE  mListeners'[k] = mListeners[k]
      <3>1. k # where
        BY <1>2, <2>2, <2>3, <2>5
      <3> QED
        BY <1>6, <3>1
    <2>6. ASSUME NEW k \in 1..(n - 1), mListeners'[k] = Top.who
          PROVE  FALSE
      <3>1. Top.who = mListeners[where]
        BY <1>1, <1>2, <1>9
      <3>2. CASE k = where
        BY <1>1, <1>3, <1>5, <1>6, <2>6, <3>1, <3>2
      <3>3. CASE k # where
        BY <1>1, <1>5, <1>6, <2>6, <3>1, <3>3
      <3> QED
        BY <3>2, <3>3
    <2>7. AtItsPosition(Top)'
      <3>1. Top.i \in 1..((n - 1) + 1)
        BY <1>3, <2>3
      <3> QED
        BY <1>4, <2>4, <2>6, <3>1 DEF AtItsPosition
    <2> QED
      BY <2>1, <2>2, <2>3, <2>5, <2>7
  <1>10. WalksInOrder'
    <2> SUFFICES ASSUME NEW d \in 1..m, frames'[d].kind = "notify", ~frames'[d].disturbed
                 PROVE  WalkInOrder(frames[d])'
      BY <1>7 DEF WalksInOrder
    <2>1. d = m /\ ~frames[d].disturbed /\ m > 0
      <3>1. ~(d < m) /\ ~frames[d].disturbed
        BY <1>7, Zenon
      <3>2. m \in Nat
        BY <1>7
      <3> HIDE DEF m
      <3> QED
        BY <3>1, <3>2
    <2>2. ~Idle /\ Top = frames[m]
      BY <1>7, <2>1 DEF Idle, Top
    <2>3. WalkInOrder(Top)
      BY <1>7, <2>1, <2>2 DEF WInv, WalksInOrder
    <2>4. AtItsPosition(Top) /\ Top' = frames'[d]
      BY <1>7, <2>1, <2>3 DEF WalkInOrder, Top
    <2> DEFINE f == frames'[d]
    <2>5. /\ f.i = Top.i /\ f.told = Top.told /\ f.start = Top.start
          /\ f.since = Top.since \ {p} /\ Top.i \in 1..n
      BY <1>7, <1>9, <2>1, <2>2, <2>4
    <2>s. /\ \A j \in DOMAIN f.told : f.told[j] \in f.start
          /\ \A k \in 1..(n - 1) : k < f.i => mListeners'[k] \in f.start
      <3>1. /\ \A j \in DOMAIN Top.told : Top.told[j] \in Top.start
            /\ \A k \in 1..n : k < Top.i => mListeners[k] \in Top.start
        BY <1>1, <2>3 DEF WalkInOrder
      <3>2. \A k \in 1..(n - 1) : k < Top.i => k \in 1..n /\ mListeners'[k] = mListeners[k]
        BY <1>5, <1>9, <2>2, <2>4
      <3> HIDE DEF f
      <3> QED
        BY <2>5, <3>1, <3>2
    <2>6. \A k \in 1..(n - 1) : k < f.i => \A j \in DOMAIN f.told : f.told[j] # mListeners'[k]
      <3> SUFFICES ASSUME NEW k \in 1..(n - 1), k < Top.i, NEW j \in DOMAIN Top.told
                   PROVE  Top.told[j] # mListeners'[k]
        <4> HIDE DEF f
        <4> QED
          BY <2>5
      <3>1. k \in 1..n /\ mListeners'[k] = mListeners[k]
        BY <1>5, <1>9, <2>2, <2>4
      <3> QED
        BY <1>1, <2>3, <3>1 DEF WalkInOrder
    <2>7. ASSUME NEW l \in Top.since
          PROVE  \/ \E j \in DOMAIN f.told : f.told[j] = l
                 \/ \E k \in 1..(n - 1) : k < f.i /\ mListeners'[k] = l
      <3> HIDE DEF f
      <3>1. CASE \E j \in DOMAIN Top.told : Top.told[j] = l
        BY <2>5, <3>1
      <3>2. CASE \E k \in 1..n : k < Top.i /\ mListeners[k] = l
        <4>1. PICK k \in 1..n : k < Top.i /\ mListeners[k] = l
          BY <3>2
        <4>2. k \in 1..(n - 1)
          <5> HIDE DEF n
          <5> QED
            BY <1>3, <2>5, <4>1
        <4>3. mListeners'[k] = l
          BY <1>9, <2>2, <2>4, <4>1, <4>2
        <4> QED
          BY <2>5, <4>1, <4>2, <4>3
      <3> QED
        BY <1>1, <2>3, <3>1, <3>2 DEF WalkInOrder
    <2>8. \A j, k \in DOMAIN f.told : f.told[j] = f.told[k] => j = k
      BY <2>3, <2>5 DEF WalkInOrder
    <2>9. AtItsPosition(frames[d])'
      BY <1>9, <2>2, <2>4 DEF AtItsPosition
    <2> QED
      BY <1>4, <2>5, <2>6, <2>7, <2>8, <2>9, <2>s DEF WalkInOrder
  <1>11. OnTheWay'
    <2>1. CASE AllKnow
      <3>1. \A l \in Registered' : Knows(l)
        BY <1>r, <2>1 DEF AllKnow
      <3>2. heard' = heard /\ mA' = mA /\ late' = late
        BY <1>1
      <3> QED
        BY <3>1, <3>2 DEF OnTheWay, AllKnow, Knows
    <2>2. ASSUME NEW d \in DOMAIN frames, Innermost(d), ReachedKnow(frames[d])
          PROVE  OnTheWay'
      <3>0. ~Idle
        BY <1>7 DEF Idle
      <3>1. d = m /\ Top = frames[m]
        <4>1. ~(m > d) /\ d \in 1..m /\ m \in Nat
          BY <1>7, <1>t, <2>2, <3>0 DEF Innermost
        <4> HIDE DEF m
        <4> QED
          BY <1>t, <3>0, <4>1
      <3>2. /\ AtItsPosition(Top)
            /\ \A k \in 1..n : k >= Top.i => Knows(mListeners[k])
        BY <1>1, <2>2, <3>1 DEF ReachedKnow
      <3>3. ASSUME NEW k \in 1..(n - 1), k >= Top.i
            PROVE  heard'[mListeners'[k]] = {mA'} \/ mListeners'[k] \in late'
        <4>1. n >= Top.i /\ Top.i \in 1..n
          BY <1>9, <3>0, <3>2
        <4>2. Knows(mListeners[k]) /\ Knows(mListeners[n])
          BY <1>3, <1>5, <3>2, <3>3, <4>1
        <4>3. mListeners'[k] = mListeners[k] \/ mListeners'[k] = mListeners[n]
          BY <1>6
        <4> QED
          BY <1>1, <4>2, <4>3 DEF Knows
      <3>4. /\ Top'.i \in 1..(Len(mListeners') + 1)
            /\ \A k \in DOMAIN mListeners' : mListeners'[k] = Top'.who => k >= Top'.i
        BY <1>9, <3>0, <3>2 DEF AtItsPosition
      <3>5. /\ m \in DOMAIN frames' /\ frames'[m].kind = "notify"
            /\ Top' = frames'[m] /\ Top'.i = Top.i
            /\ \A e \in DOMAIN frames' : ~(e > m)
        <4>1. m \in 1..m /\ Top.kind = "notify"
          BY <1>t, <3>0
        <4>2. Top' = frames'[m]
          BY <1>7 DEF Top
        <4> HIDE DEF m
        <4> QED
          BY <1>7, <3>1, <4>1, <4>2
      <3> HIDE DEF m
      <3> QED
        BY <1>4, <3>3, <3>4, <3>5, StillOnTheWay
    <2> QED
      BY <2>1, <2>2 DEF WInv, OnTheWay
  <1> QED
    BY <1>8, <1>10, <1>11, <1>a

(***************************************************************************)
(* What holds of the calls in progress holds throughout.                   *)
(***************************************************************************)
LEMMA WalksInvariant == Spec => []WInv
  <1>1. Init => WInv
    <2> SUFFICES ASSUME Init
                 PROVE  WInv
      OBVIOUS
    <2>1. IInv
      BY DEF Init, IInv, IndexInSync, Registered
    <2>2. FramesTyped /\ AddsOut /\ WalksInOrder /\ AllKnow
      BY DEF Init, FramesTyped, AddsOut, WalksInOrder, AllKnow, Registered
    <2> QED
      BY <2>1, <2>2 DEF WInv, OnTheWay
  <1>2. WInv /\ [Next]_vars => WInv'
    <2> SUFFICES ASSUME WInv, [Next]_vars
                 PROVE  WInv'
      OBVIOUS
    <2>1. UNCHANGED <<mListeners, mListenerIndex>> => IInv'
      BY DEF WInv, IInv, IndexInSync, Registered
    <2>2. ASSUME NEW a \in Values, notify(a)
          PROVE  WInv'
      BY <2>1, <2>2, NotifyKeeps DEF WInv, notify
    <2>3. CASE ListenerReturns
      BY <2>1, <2>3, ReturnKeeps DEF WInv, ListenerReturns, Proceed
    <2>4. CASE ProviderAddListener
      BY <2>4, RegisterKeeps DEF WInv
    <2>5. ASSUME NEW p \in Listeners, addListener(p)
          PROVE  WInv'
      BY <2>1, <2>5, AddBeginKeeps DEF WInv, addListener
    <2>6. ASSUME NEW p \in Listeners, removeListener(p)
          PROVE  WInv'
      BY <2>6, RemoveKeepsSync, RemoveKeeps DEF WInv
    <2>7. CASE UNCHANGED vars
      <3>1. (FramesTyped /\ AddsOut)'
        BY <2>7 DEF WInv, FramesTyped, AddsOut, Registered, vars
      <3>2. WalksInOrder'
        BY <2>7 DEF WInv, WalksInOrder, WalkInOrder, AtItsPosition, vars
      <3>3. OnTheWay'
        BY <2>7 DEF WInv, OnTheWay, AllKnow, Innermost, ReachedKnow, AtItsPosition, Knows,
                    Registered, vars
      <3> QED
        BY <2>1, <2>7, <3>1, <3>2, <3>3 DEF WInv, vars
    <2> QED
      BY <2>2, <2>3, <2>4, <2>5, <2>6, <2>7 DEF Next
  <1> QED
    BY <1>1, <1>2, PTL DEF Spec

(***************************************************************************)
(* However listeners are added and removed, inside or outside              *)
(* notifications, the map of a Provider leads to each of them.             *)
(***************************************************************************)
THEOREM MapInSync == Spec => []IndexInSync
  <1>1. WInv => IndexInSync
    BY DEF WInv, IInv
  <1> QED
    BY <1>1, WalksInvariant, PTL

(***************************************************************************)
(* notify() calls every listener that stays registered, once, and no other *)
(* one, unless a listener removes itself in a call further inside.         *)
(***************************************************************************)
THEOREM EveryListenerOnce == Spec => []NotifiedOnce
  <1>1. WInv => NotifiedOnce
    <2> SUFFICES ASSUME WInv, ~Idle, Top.kind = "notify", ~Top.disturbed
                 PROVE  /\ \A i \in DOMAIN Top.told : Top.told[i] \in Top.start
                        /\ \A i, j \in DOMAIN Top.told : Top.told[i] = Top.told[j] => i = j
                        /\ Top.i - 1 \notin DOMAIN mListeners =>
                             \A l \in Top.since : \E i \in DOMAIN Top.told : Top.told[i] = l
      BY DEF NotifiedOnce
    <2>1. WalkInOrder(Top)
      BY TopIsAFrame DEF WInv, WalksInOrder
    <2>2. ASSUME Top.i - 1 \notin DOMAIN mListeners, NEW k \in DOMAIN mListeners
          PROVE  ~(k < Top.i)
      <3>1. Len(mListeners) \in Nat /\ DOMAIN mListeners = 1..Len(mListeners)
        BY DEF WInv, IInv
      <3>2. Top.i \in 1..(Len(mListeners) + 1)
        BY <2>1 DEF WalkInOrder, AtItsPosition
      <3> QED
        BY <2>2, <3>1, <3>2
    <2> QED
      BY <2>1, <2>2 DEF WalkInOrder
  <1> QED
    BY <1>1, WalksInvariant, PTL

(***************************************************************************)
(* Whenever no call is in progress, every listener was told the last value *)
(* of a MarkovianProvider last, unless that value changed while            *)
(* addListener() was telling the listener the one before it.               *)
(***************************************************************************)
THEOREM EveryListenerKnows == Spec => []NoStaleListener
  <1>1. WInv => NoStaleListener
    BY DEF WInv, OnTheWay, AllKnow, Knows, NoStaleListener, Idle
  <1> QED
    BY <1>1, WalksInvariant, PTL
=============================================================================
