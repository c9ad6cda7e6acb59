------------------------- MODULE EventManagerProofs -------------------------
(***************************************************************************)
(* The event system (EventManager.cpp), for any number of listeners and    *)
(* events: the destructor outlives the event thread, the table of          *)
(* subscription ids agrees with the lists, and the listeners are at least  *)
(* as up to date as the events.                                            *)
(***************************************************************************)
EXTENDS EventManager, FiniteSetTheorems, TLAPS

(* The thread applies the requests, or a listener it has just taken out fires. *)
Applying == {"apply", "notifyApply"}

Threads == {"top", "wait", "waiting", "take", "requests", "dispatch", "leave", "gone"} \cup Applying

Fired == {e \in Events : firePc[e] = "pushed"}

(***************************************************************************)
(* mPendingEvents counts the events that are queued, taken or dispatched   *)
(* in this round, but for those whose fire() has not come to count them.   *)
(***************************************************************************)
Counts ==
  /\ mPendingEvents \in Int /\ numProcessed \in Nat
  /\ mUnprocessed \in Seq(Events) /\ processing \in Seq(Events)
  /\ firePc \in [Events -> {"none", "pushed", "notify", "done"}]
  /\ IsFiniteSet(Fired)
  /\ current # None => numProcessed >= 1
  /\ useCV /\ ~mCleanup =>
       mPendingEvents + Cardinality(Fired) = Len(mUnprocessed) + Len(processing) + numProcessed

Rounds ==
  /\ thread \in Threads
  /\ thread # "dispatch" => current = None /\ numProcessed = 0
  /\ thread \notin {"requests", "dispatch"} \cup Applying => processing = <<>>

Ending ==
  /\ useCV \in BOOLEAN /\ mCleanup \in BOOLEAN
  /\ destroy \in {"alive", "switched", "waiting", "woken", "dead"}
  /\ mCleanup => destroy \in {"waiting", "woken", "dead"}
  /\ useCV => (mCleanup <=> destroy \in {"waiting", "woken", "dead"})
  /\ destroy # "alive" => \A e \in Events : firePc[e] \in {"none", "done"}
  /\ thread \in {"leave", "gone"} => useCV /\ mCleanup
  /\ useCV /\ destroy \in {"woken", "dead"} /\ misled = "no" => thread = "gone"
  /\ ~useCV /\ destroy # "alive" => thread = "top"

DInv == Counts /\ Rounds /\ Ending

(***************************************************************************)
(* fire() by a client, its counting and its notification.                  *)
(***************************************************************************)
LEMMA ClientFires ==
  ASSUME DInv, NEW e \in Events, fire(e) \/ CountEvent(e) \/ NotifyThread(e)
  PROVE  DInv'
  <1>1. /\ firePc \in [Events -> {"none", "pushed", "notify", "done"}]
        /\ mUnprocessed \in Seq(Events) /\ processing \in Seq(Events)
        /\ mPendingEvents \in Int /\ numProcessed \in Nat
        /\ IsFiniteSet(Fired) /\ Cardinality(Fired) \in Nat
    BY FS_CardinalityType DEF DInv, Counts
  <1>2. /\ UNCHANGED <<processing, current, numProcessed, mCleanup, useCV, destroy, misled>>
        /\ destroy = "alive"
    BY DEF DInv, Ending, fire, CountEvent, NotifyThread, worker, cv
  <1>3. CASE fire(e)
    <2>1. /\ firePc[e] = "none" /\ firePc' = [firePc EXCEPT ![e] = "pushed"]
          /\ mUnprocessed' = Append(mUnprocessed, e) /\ UNCHANGED <<mPendingEvents, thread>>
      BY <1>3 DEF fire, PushEvent, cv
    <2>2. Fired' = Fired \cup {e} /\ e \notin Fired
      BY <1>1, <2>1 DEF Fired
    <2>3. IsFiniteSet(Fired') /\ Cardinality(Fired') = Cardinality(Fired) + 1
      BY <1>1, <2>2, FS_AddElement
    <2>4. mUnprocessed' \in Seq(Events) /\ Len(mUnprocessed') = Len(mUnprocessed) + 1
      BY <1>1, <2>1
    <2>5. Len(mUnprocessed) \in Nat /\ Len(processing) \in Nat
      BY <1>1
    <2>6. firePc' \in [Events -> {"none", "pushed", "notify", "done"}]
      BY <1>1, <2>1
    <2>7. useCV /\ ~mCleanup =>
            mPendingEvents + Cardinality(Fired') = Len(mUnprocessed') + Len(processing) + numProcessed
      BY <1>1, <2>3, <2>4, <2>5 DEF DInv, Counts
    <2> QED
      BY <1>1, <1>2, <2>1, <2>3, <2>4, <2>6, <2>7 DEF DInv, Counts, Rounds, Ending
  <1>4. CASE CountEvent(e)
    <2>1. /\ firePc[e] = "pushed" /\ UNCHANGED <<mUnprocessed, thread>>
          /\ mPendingEvents' = IF useCV /\ ~mCleanup THEN mPendingEvents + 1 ELSE mPendingEvents
          /\ \E to \in {"notify", "done"} : firePc' = [firePc EXCEPT ![e] = to]
      BY <1>4 DEF CountEvent, queues
    <2>2. Fired' = Fired \ {e} /\ e \in Fired
      BY <1>1, <2>1 DEF Fired
    <2>3. IsFiniteSet(Fired') /\ Cardinality(Fired') = Cardinality(Fired) - 1
      BY <1>1, <2>2, FS_RemoveElement
    <2>4. firePc' \in [Events -> {"none", "pushed", "notify", "done"}]
      BY <1>1, <2>1
    <2>5. mPendingEvents' \in Int
      BY <1>1, <2>1
    <2>6. useCV /\ ~mCleanup =>
            mPendingEvents' + Cardinality(Fired') = Len(mUnprocessed) + Len(processing) + numProcessed
      BY <1>1, <2>1, <2>3 DEF DInv, Counts
    <2> QED
      BY <1>1, <1>2, <2>1, <2>3, <2>4, <2>5, <2>6 DEF DInv, Counts, Rounds, Ending
  <1>5. CASE NotifyThread(e)
    <2>1. /\ firePc[e] = "notify" /\ UNCHANGED <<mUnprocessed, mPendingEvents>>
          /\ firePc' = [firePc EXCEPT ![e] = "done"]
          /\ thread' = thread \/ (thread = "waiting" /\ thread' = "wait")
      BY <1>5 DEF NotifyThread, queues, cv
    <2>2. Fired' = Fired
      BY <1>1, <2>1 DEF Fired
    <2>3. firePc' \in [Events -> {"none", "pushed", "notify", "done"}]
      BY <1>1, <2>1
    <2> QED
      BY <1>1, <1>2, <2>1, <2>2, <2>3 DEF DInv, Counts, Rounds, Ending, Threads, Applying
  <1> QED
    BY <1>3, <1>4, <1>5

(***************************************************************************)
(* An event fired by a listener that is called for an event is never the   *)
(* only one pending, for that event is still counted; one fired by a       *)
(* listener that is being taken out may be.                                *)
(***************************************************************************)
LEMMA ListenerFiresOn ==
  ASSUME DInv, NEW e \in Events, ListenerFires(e)
  PROVE  /\ DInv'
         /\ \/ thread = "dispatch" /\ thread' = "dispatch"
            \/ thread \in Applying /\ thread' \in Applying
  <1>1. /\ firePc \in [Events -> {"none", "pushed", "notify", "done"}]
        /\ mUnprocessed \in Seq(Events) /\ processing \in Seq(Events)
        /\ mPendingEvents \in Int /\ numProcessed \in Nat
        /\ IsFiniteSet(Fired) /\ Cardinality(Fired) \in Nat
    BY FS_CardinalityType DEF DInv, Counts
  <1>2. /\ firePc[e] = "none" /\ firePc' = [firePc EXCEPT ![e] = "done"]
        /\ mUnprocessed' = Append(mUnprocessed, e)
        /\ mPendingEvents' = IF useCV /\ ~mCleanup THEN mPendingEvents + 1 ELSE mPendingEvents
        /\ UNCHANGED <<processing, current, numProcessed, mCleanup, useCV, destroy, misled>>
        /\ (thread = "dispatch" /\ current # None) \/ thread = "apply"
    BY DEF ListenerFires, ListenerCalled, PushEvent, worker
  <1>3. Fired' = Fired
    BY <1>1, <1>2 DEF Fired
  <1>4. mUnprocessed' \in Seq(Events) /\ Len(mUnprocessed') = Len(mUnprocessed) + 1
    BY <1>1, <1>2
  <1>5. Len(mUnprocessed) \in Nat /\ Len(processing) \in Nat
    BY <1>1
  <1>6. firePc' \in [Events -> {"none", "pushed", "notify", "done"}] /\ mPendingEvents' \in Int
    BY <1>1, <1>2
  <1>7. useCV /\ ~mCleanup =>
          mPendingEvents' + Cardinality(Fired') = Len(mUnprocessed') + Len(processing) + numProcessed
    <2>1. useCV /\ ~mCleanup =>
            mPendingEvents + Cardinality(Fired) = Len(mUnprocessed) + Len(processing) + numProcessed
      BY DEF DInv, Counts
    <2> QED
      BY <1>1, <1>2, <1>3, <1>4, <1>5, <2>1
  <1>8. ASSUME thread = "dispatch"
        PROVE  thread' = "dispatch"
    <2> SUFFICES ASSUME useCV, ~mCleanup, destroy = "switched"
                 PROVE  mPendingEvents' # 1
      BY <1>8 DEF ListenerFires
    <2>1. Fired = {}
      BY DEF DInv, Ending, Fired
    <2>2. Cardinality(Fired) = 0
      BY <2>1, FS_EmptySet
    <2>3. numProcessed >= 1
      BY <1>2, <1>8 DEF DInv, Counts
    <2> QED
      BY <1>1, <1>3, <1>4, <1>5, <1>6, <1>7, <2>2, <2>3
  <1>9. ASSUME thread = "apply"
        PROVE  thread' \in Applying /\ (thread' = thread \/ useCV)
    BY <1>9 DEF ListenerFires, Applying
  <1>10. Counts'
    BY <1>1, <1>2, <1>3, <1>4, <1>5, <1>6, <1>7 DEF DInv, Counts
  <1>11. Rounds' /\ Ending'
    BY <1>1, <1>2, <1>8, <1>9 DEF DInv, Rounds, Ending, Threads, Applying
  <1> QED
    BY <1>2, <1>8, <1>9, <1>10, <1>11 DEF DInv, Applying

(***************************************************************************)
(* A step of the event thread.                                             *)
(***************************************************************************)
LEMMA ThreadSteps ==
  ASSUME DInv, ThreadStep
  PROVE  DInv'
  <1>1. /\ mUnprocessed \in Seq(Events) /\ processing \in Seq(Events)
        /\ mPendingEvents \in Int /\ numProcessed \in Nat
        /\ Len(mUnprocessed) \in Nat /\ Len(processing) \in Nat
        /\ IsFiniteSet(Fired) /\ Cardinality(Fired) \in Nat
    BY FS_CardinalityType DEF DInv, Counts
  <1>2. UNCHANGED <<firePc, mCleanup, useCV>> /\ Fired' = Fired
    BY DEF ThreadStep, LoopTop, WaitForEvent, TakeEvents, TakeRequests, ApplyRequest, DispatchNext,
           CallOrder, FinishEvent, EndRound, NotifyDestructor, firing, cv, Fired
  <1>3. CASE LoopTop \/ WaitForEvent \/ NotifyDestructor
    <2>1. UNCHANGED <<mPendingEvents, numProcessed, mUnprocessed, processing, current>>
      BY <1>3 DEF LoopTop, WaitForEvent, NotifyDestructor, cv, worker, queues
    <2>2. Counts'
      BY <1>2, <2>1 DEF DInv, Counts
    <2>3. CASE LoopTop \/ WaitForEvent
      BY <1>2, <2>1, <2>2, <2>3 DEF LoopTop, WaitForEvent, DInv, Rounds, Ending, Threads, Applying
    <2>4. CASE NotifyDestructor
      <3>1. /\ \/ thread = "leave" /\ thread' = "gone" /\ misled' = misled
               \/ /\ thread = "notifyApply" /\ thread' = "apply"
                  /\ misled' = IF destroy = "waiting" THEN "unsubscribe" ELSE misled
            /\ destroy' = IF destroy = "waiting" THEN "woken" ELSE destroy
            /\ destroy # "switched"
        BY <2>4 DEF NotifyDestructor, DInv, Rounds, Threads, Applying
      <3> QED
        BY <1>2, <2>1, <2>2, <3>1 DEF DInv, Rounds, Ending, Threads, Applying
    <2> QED
      BY <1>3, <2>3, <2>4
  <1>4. CASE TakeEvents
    <2>1. /\ thread = "take" /\ thread' = "requests"
          /\ processing' = mUnprocessed /\ mUnprocessed' = <<>>
          /\ UNCHANGED <<mPendingEvents, numProcessed, current, destroy, misled>>
      BY <1>4 DEF TakeEvents, cv
    <2>2. processing = <<>>
      BY <2>1 DEF DInv, Rounds, Applying
    <2>3. mUnprocessed' \in Seq(Events) /\ Len(mUnprocessed') = 0 /\ Len(processing) = 0
      BY <2>1, <2>2
    <2>4. Counts'
      BY <1>1, <1>2, <2>1, <2>3 DEF DInv, Counts
    <2> QED
      BY <1>2, <2>1, <2>4 DEF DInv, Rounds, Ending, Threads, Applying
  <1>5. CASE TakeRequests \/ ApplyRequest
    <2>1. /\ thread \in {"requests", "apply"} /\ thread' \in {"dispatch", "apply"}
          /\ UNCHANGED <<mPendingEvents, numProcessed, mUnprocessed, processing, current, destroy, misled>>
      BY <1>5 DEF TakeRequests, ApplyRequest, cv, queues
    <2>2. Counts'
      BY <1>2, <2>1 DEF DInv, Counts
    <2> QED
      BY <1>2, <2>1, <2>2 DEF DInv, Rounds, Ending, Threads, Applying
  <1>6. CASE DispatchNext
    <2>1. /\ thread = "dispatch" /\ processing # <<>> /\ processing' = Tail(processing)
          /\ numProcessed' = numProcessed + 1
          /\ UNCHANGED <<mPendingEvents, mUnprocessed, thread, destroy, misled>>
      BY <1>6 DEF DispatchNext, cv, queues
    <2>2. processing' \in Seq(Events) /\ Len(processing') = Len(processing) - 1
      BY <1>1, <2>1
    <2>3. Counts'
      BY <1>1, <1>2, <2>1, <2>2 DEF DInv, Counts
    <2> QED
      BY <1>2, <2>1, <2>3 DEF DInv, Rounds, Ending, Threads, Applying
  <1>7. CASE CallOrder \/ FinishEvent
    <2>1. /\ thread = "dispatch" /\ current # None
          /\ UNCHANGED <<mPendingEvents, numProcessed, mUnprocessed, processing, thread, destroy, misled>>
      BY <1>7 DEF CallOrder, FinishEvent, cv, queues
    <2>2. Counts'
      BY <1>2, <2>1 DEF DInv, Counts
    <2> QED
      BY <1>2, <2>1, <2>2 DEF DInv, Rounds, Ending, Threads, Applying
  <1>8. CASE EndRound
    <2>1. /\ thread = "dispatch" /\ thread' = "top" /\ processing = <<>> /\ current = None
          /\ mPendingEvents' = (IF useCV THEN mPendingEvents - numProcessed ELSE mPendingEvents)
          /\ numProcessed' = 0
          /\ UNCHANGED <<mUnprocessed, processing, current, destroy, misled>>
      BY <1>8 DEF EndRound, queues
    <2>2. Counts'
      BY <1>1, <1>2, <2>1 DEF DInv, Counts
    <2> QED
      BY <1>2, <2>1, <2>2 DEF DInv, Rounds, Ending, Threads, Applying
  <1> QED
    BY <1>3, <1>4, <1>5, <1>6, <1>7, <1>8 DEF ThreadStep

(***************************************************************************)
(* The counts, the rounds and the end of the event thread.                 *)
(***************************************************************************)
LEMMA DestructorInvariant == Spec => []DInv
  <1>1. Init => DInv
    <2> SUFFICES ASSUME Init
                 PROVE  DInv
      OBVIOUS
    <2>1. Fired = {}
      BY DEF Init, Fired
    <2>2. IsFiniteSet(Fired) /\ Cardinality(Fired) = 0
      BY <2>1, FS_EmptySet
    <2>3. <<>> \in Seq(Events) /\ Len(<<>>) = 0
      OBVIOUS
    <2>4. Counts
      BY <2>2, <2>3 DEF Init, Counts
    <2> QED
      BY <2>4 DEF Init, DInv, Rounds, Ending, Threads, Applying
  <1>2. DInv /\ [Next]_vars => DInv'
    <2> SUFFICES ASSUME DInv, [Next]_vars
                 PROVE  DInv'
      OBVIOUS
    <2>1. CASE \/ \E l \in Listeners : subscribe(l) \/ alloc(l) \/ subscribeId(l)
               \/ \E l \in Listeners, n \in NotifyListener : unsubscribe(l, n)
               \/ UNCHANGED vars
      <3>1. UNCHANGED <<mPendingEvents, numProcessed, mUnprocessed, processing, firePc, current,
                        useCV, mCleanup, thread, destroy, misled>>
        BY <2>1 DEF subscribe, alloc, unsubscribe, subscribeId, vars, firing, worker, queues, cv
      <3> QED
        BY <3>1 DEF DInv, Counts, Rounds, Ending, Fired
    <2>2. CASE DestroyBegin \/ DestroyNotify \/ WakeSpuriously \/ DestroyEnd
      <3>1. UNCHANGED <<mPendingEvents, numProcessed, mUnprocessed, processing, firePc, current, useCV>>
        BY <2>2 DEF DestroyBegin, DestroyNotify, WakeSpuriously, DestroyEnd, firing, worker, queues, cv
      <3>2. Counts'
        BY <2>2, <3>1 DEF DInv, Counts, Fired, DestroyBegin, DestroyNotify, WakeSpuriously, DestroyEnd, cv
      <3>3. CASE DestroyBegin
        BY <3>1, <3>2, <3>3 DEF DestroyBegin, DInv, Rounds, Ending, cv
      <3>4. CASE DestroyNotify
        BY <3>1, <3>2, <3>4 DEF DestroyNotify, DInv, Rounds, Ending, Threads, Applying
      <3>5. CASE DestroyEnd
        BY <3>1, <3>2, <3>5 DEF DestroyEnd, DInv, Rounds, Ending, cv
      <3>6. CASE WakeSpuriously
        BY <3>1, <3>2, <3>6 DEF WakeSpuriously, DInv, Rounds, Ending, cv
      <3> QED
        BY <2>2, <3>3, <3>4, <3>5, <3>6
    <2> QED
      BY <2>1, <2>2, ClientFires, ListenerFiresOn, ThreadSteps DEF Next, Operate, InsideCall
  <1> QED
    BY <1>1, <1>2, PTL DEF Spec

(***************************************************************************)
(* The destructor deletes the lock and the condition variable of a thread  *)
(* that has left its loop, whatever listeners fire when they are called    *)
(* for an event, unless it wakes spuriously or a listener fires when it is *)
(* told that it is unsubscribed.                                           *)
(***************************************************************************)
THEOREM DestroyedLast == Spec => []DestructorIsLast
  <1>1. DInv => DestructorIsLast
    BY DEF DInv, Ending, DestructorIsLast
  <1> QED
    BY <1>1, DestructorInvariant, PTL

-----------------------------------------------------------------------------
(* The tables of listeners.                                                *)

Slot(p, s, o) == {l \in Listeners : Sub[l].pri = p /\ Sub[l].sec = s /\ Sub[l].order = o}

Lists(p, s) == {f \in [Orders -> SUBSET Listeners] : \A o \in Orders : f[o] \subseteq Slot(p, s, o)}

(***************************************************************************)
(* A listener is only in the list it has subscribed to.                    *)
(***************************************************************************)
InfoOK(p, info) ==
  /\ info = [first |-> info.first, second |-> info.second]
  /\ info.first \in Lists(p, AnySec)
  /\ info.second = [s \in DOMAIN info.second |-> info.second[s]]
  /\ \A s \in DOMAIN info.second : s # AnySec /\ info.second[s] \in Lists(p, s)

TableOK(tab) ==
  /\ tab = [p \in DOMAIN tab |-> tab[p]]
  /\ \A p \in DOMAIN tab : InfoOK(p, tab[p])

ListedIn(tab, l) ==
  /\ Sub[l].pri \in DOMAIN tab
  /\ Sub[l].sec \in DOMAIN tab[Sub[l].pri].second \cup {AnySec}
  /\ l \in ListOf(tab, l)

(***************************************************************************)
(* Every subscription is for one of the orders.                            *)
(***************************************************************************)
LEMMA OrdersKnown == \A l \in Listeners : Sub[l].order \in Orders /\ Sub[l].order \in 0..2
  <1>1. \A l \in Listeners : Sub[l].order \in 0..2
    BY EventAssumption, Zenon
  <1>2. Orders = 0..2
    BY DEF Orders, EARLY, MIDDLE, LATE
  <1> QED
    BY <1>1, <1>2

(***************************************************************************)
(* A table with new information for one primary id.                        *)
(***************************************************************************)
LEMMA NewInfo ==
  ASSUME NEW tab, TableOK(tab), NEW p, NEW first, NEW second, NEW new,
         DOMAIN new = DOMAIN tab \cup {p}, new = [x \in DOMAIN new |-> new[x]],
         new[p] = [first |-> first, second |-> second],
         \A x \in DOMAIN tab : x # p => new[x] = tab[x],
         first \in Lists(p, AnySec), second = [s \in DOMAIN second |-> second[s]],
         \A s \in DOMAIN second : s # AnySec /\ second[s] \in Lists(p, s)
  PROVE  /\ TableOK(new) /\ new[p].first = first /\ new[p].second = second
         /\ \A l \in Listeners : Sub[l].pri # p => (ListedIn(new, l) <=> ListedIn(tab, l))
         /\ \A l \in Listeners : Sub[l].pri = p =>
              (ListedIn(new, l) <=> IF Sub[l].sec = AnySec THEN l \in first[Sub[l].order]
                                    ELSE Sub[l].sec \in DOMAIN second /\ l \in second[Sub[l].sec][Sub[l].order])
  <1>2. new[p].first = first /\ new[p].second = second
    OBVIOUS
  <1>3. InfoOK(p, new[p])
    BY <1>2 DEF InfoOK
  <1>5. TableOK(new)
    BY <1>3 DEF TableOK
  <1>6. ASSUME NEW l \in Listeners, Sub[l].pri # p
        PROVE  ListedIn(new, l) <=> ListedIn(tab, l)
    BY <1>6 DEF ListedIn, ListOf
  <1>7. ASSUME NEW l \in Listeners, Sub[l].pri = p
        PROVE  (ListedIn(new, l) <=> IF Sub[l].sec = AnySec THEN l \in first[Sub[l].order]
                                     ELSE Sub[l].sec \in DOMAIN second /\ l \in second[Sub[l].sec][Sub[l].order])
    BY <1>2, <1>7 DEF ListedIn, ListOf
  <1> QED
    BY <1>2, <1>5, <1>6, <1>7

(***************************************************************************)
(* insertPriId and insertSecId leave every list as it is.                  *)
(***************************************************************************)
LEMMA InsertPri ==
  ASSUME NEW tab, TableOK(tab), NEW p
  PROVE  LET new == insertPriId(tab, p)
         IN  /\ TableOK(new) /\ DOMAIN new = DOMAIN tab \cup {p}
             /\ \A l \in Listeners : ListedIn(new, l) <=> ListedIn(tab, l)
  <1> DEFINE new == insertPriId(tab, p)
             nothing == << >>
  <1>1. CASE p \in DOMAIN tab
    BY <1>1 DEF insertPriId
  <1>2. CASE p \notin DOMAIN tab
    <2>1. /\ DOMAIN new = DOMAIN tab \cup {p} /\ new = [x \in DOMAIN new |-> new[x]]
          /\ new[p] = [first |-> NoListeners, second |-> nothing]
          /\ \A x \in DOMAIN tab : x # p => new[x] = tab[x]
      BY <1>2 DEF insertPriId, Put
    <2>2. nothing = [s \in DOMAIN nothing |-> nothing[s]]
      OBVIOUS
    <2>7. DOMAIN nothing = {}
      OBVIOUS
    <2>3. NoListeners \in Lists(p, AnySec) /\ \A o \in Orders : NoListeners[o] = {}
      BY DEF NoListeners, Lists
    <2> HIDE DEF nothing, new
    <2>5. \A s \in DOMAIN nothing : s # AnySec /\ nothing[s] \in Lists(p, s)
      BY <2>7
    <2>4. /\ TableOK(new)
          /\ \A l \in Listeners : Sub[l].pri # p => (ListedIn(new, l) <=> ListedIn(tab, l))
          /\ \A l \in Listeners : Sub[l].pri = p =>
              (ListedIn(new, l) <=> IF Sub[l].sec = AnySec THEN l \in NoListeners[Sub[l].order]
                                    ELSE Sub[l].sec \in DOMAIN nothing /\ l \in nothing[Sub[l].sec][Sub[l].order])
      BY <2>1, <2>2, <2>3, <2>5, NewInfo
    <2>6. ASSUME NEW l \in Listeners, Sub[l].pri = p
          PROVE  ~ListedIn(new, l) /\ ~ListedIn(tab, l)
      BY <1>2, <2>3, <2>4, <2>6, <2>7, OrdersKnown DEF ListedIn
    <2> QED
      BY <2>1, <2>4, <2>6 DEF new
  <1> QED
    BY <1>1, <1>2

LEMMA InsertSec ==
  ASSUME NEW tab, TableOK(tab), NEW p \in DOMAIN tab, NEW s
  PROVE  LET new == insertSecId(tab, p, s)
         IN  /\ TableOK(new) /\ DOMAIN new = DOMAIN tab
             /\ s \in DOMAIN new[p].second \cup {AnySec}
             /\ \A l \in Listeners : ListedIn(new, l) <=> ListedIn(tab, l)
  <1> DEFINE new == insertSecId(tab, p, s)
             second == Put(tab[p].second, s, NoListeners)
  <1>1. CASE s = AnySec \/ s \in DOMAIN tab[p].second
    BY <1>1 DEF insertSecId
  <1>2. CASE ~(s = AnySec \/ s \in DOMAIN tab[p].second)
    <2>0. InfoOK(p, tab[p]) /\ DOMAIN tab = DOMAIN tab \cup {p} /\ tab = [x \in DOMAIN tab |-> tab[x]]
      BY DEF TableOK
    <2>1. new = [tab EXCEPT ![p].second = second]
      BY <1>2 DEF insertSecId
    <2>2. /\ DOMAIN second = DOMAIN tab[p].second \cup {s} /\ second[s] = NoListeners
          /\ \A x \in DOMAIN tab[p].second : second[x] = tab[p].second[x]
          /\ second = [x \in DOMAIN second |-> second[x]]
      BY <1>2 DEF Put
    <2>3. NoListeners \in Lists(p, s) /\ \A o \in Orders : NoListeners[o] = {}
      BY DEF NoListeners, Lists
    <2>4. /\ tab[p].first \in Lists(p, AnySec)
          /\ \A x \in DOMAIN second : x # AnySec /\ second[x] \in Lists(p, x)
      BY <1>2, <2>0, <2>2, <2>3 DEF InfoOK
    <2> HIDE DEF second
    <2>5. /\ DOMAIN new = DOMAIN tab \cup {p} /\ new = [x \in DOMAIN new |-> new[x]]
          /\ new[p] = [first |-> tab[p].first, second |-> second]
          /\ \A x \in DOMAIN tab : x # p => new[x] = tab[x]
      <3>1. new = [x \in DOMAIN tab |-> IF x = p THEN [tab[p] EXCEPT !.second = second] ELSE tab[x]]
        BY <2>0, <2>1
      <3>2. [tab[p] EXCEPT !.second = second] = [first |-> tab[p].first, second |-> second]
        BY <2>0 DEF InfoOK
      <3> QED
        BY <2>0, <3>1, <3>2
    <2> HIDE DEF new
    <2>6. /\ TableOK(new) /\ new[p].second = second
          /\ \A l \in Listeners : Sub[l].pri # p => (ListedIn(new, l) <=> ListedIn(tab, l))
          /\ \A l \in Listeners : Sub[l].pri = p =>
              (ListedIn(new, l) <=> IF Sub[l].sec = AnySec THEN l \in tab[p].first[Sub[l].order]
                                    ELSE Sub[l].sec \in DOMAIN second /\ l \in second[Sub[l].sec][Sub[l].order])
      BY <2>2, <2>4, <2>5, NewInfo
    <2>8. ASSUME NEW l \in Listeners, Sub[l].pri = p
          PROVE  ListedIn(new, l) <=> ListedIn(tab, l)
      BY <1>2, <2>2, <2>3, <2>6, <2>8, OrdersKnown DEF ListedIn, ListOf
    <2> QED
      BY <2>0, <2>2, <2>5, <2>6, <2>8 DEF new
  <1> QED
    BY <1>1, <1>2

(***************************************************************************)
(* Erasing an entry without listeners leaves every list as it is.          *)
(***************************************************************************)
LEMMA CleanedUp ==
  ASSUME NEW tab, TableOK(tab), NEW p \in DOMAIN tab, NEW s
  PROVE  LET new == cleanUp(tab, p, s)
         IN  /\ TableOK(new) /\ DOMAIN new = DOMAIN tab
             /\ \A l \in Listeners : ListedIn(new, l) <=> ListedIn(tab, l)
  <1> DEFINE new == cleanUp(tab, p, s)
             second == Drop(tab[p].second, {s})
             empty == s # AnySec /\ s \in DOMAIN tab[p].second /\ tab[p].second[s] = NoListeners
  <1>1. CASE ~empty
    BY <1>1 DEF cleanUp
  <1>2. CASE empty
    <2>0. InfoOK(p, tab[p]) /\ DOMAIN tab = DOMAIN tab \cup {p} /\ tab = [x \in DOMAIN tab |-> tab[x]]
      BY DEF TableOK
    <2>1. new = [tab EXCEPT ![p].second = second]
      BY <1>2 DEF cleanUp
    <2>2. /\ DOMAIN second = DOMAIN tab[p].second \ {s}
          /\ \A x \in DOMAIN second : second[x] = tab[p].second[x]
          /\ second = [x \in DOMAIN second |-> second[x]]
      BY DEF Drop
    <2>3. \A o \in Orders : NoListeners[o] = {}
      BY DEF NoListeners
    <2>4. /\ tab[p].first \in Lists(p, AnySec)
          /\ \A x \in DOMAIN second : x # AnySec /\ second[x] \in Lists(p, x)
      BY <2>0, <2>2 DEF InfoOK
    <2> HIDE DEF second
    <2>5. /\ DOMAIN new = DOMAIN tab \cup {p} /\ new = [x \in DOMAIN new |-> new[x]]
          /\ new[p] = [first |-> tab[p].first, second |-> second]
          /\ \A x \in DOMAIN tab : x # p => new[x] = tab[x]
      <3>1. new = [x \in DOMAIN tab |-> IF x = p THEN [tab[p] EXCEPT !.second = second] ELSE tab[x]]
        BY <2>0, <2>1
      <3>2. [tab[p] EXCEPT !.second = second] = [first |-> tab[p].first, second |-> second]
        BY <2>0 DEF InfoOK
      <3> QED
        BY <2>0, <3>1, <3>2
    <2> HIDE DEF new
    <2>6. /\ TableOK(new)
          /\ \A l \in Listeners : Sub[l].pri # p => (ListedIn(new, l) <=> ListedIn(tab, l))
          /\ \A l \in Listeners : Sub[l].pri = p =>
              (ListedIn(new, l) <=> IF Sub[l].sec = AnySec THEN l \in tab[p].first[Sub[l].order]
                                    ELSE Sub[l].sec \in DOMAIN second /\ l \in second[Sub[l].sec][Sub[l].order])
      BY <2>2, <2>4, <2>5, NewInfo
    <2>8. ASSUME NEW l \in Listeners, Sub[l].pri = p
          PROVE  ListedIn(new, l) <=> ListedIn(tab, l)
      BY <1>2, <2>2, <2>3, <2>6, <2>8, OrdersKnown DEF ListedIn, ListOf
    <2> QED
      BY <2>0, <2>5, <2>6, <2>8 DEF new
  <1> QED
    BY <1>1, <1>2

(***************************************************************************)
(* Replacing the list that a listener has subscribed to.                   *)
(***************************************************************************)
LEMMA ListReplaced ==
  ASSUME NEW tab, TableOK(tab), NEW l \in Listeners, Sub[l].pri \in DOMAIN tab,
         Sub[l].sec \in DOMAIN tab[Sub[l].pri].second \cup {AnySec},
         NEW list, list = ListOf(tab, l) \cup {l} \/ list = ListOf(tab, l) \ {l}
  PROVE  LET new == WithList(tab, l, list)
         IN  /\ TableOK(new) /\ DOMAIN new = DOMAIN tab
             /\ ListedIn(new, l) <=> l \in list
             /\ \A k \in Listeners : k # l => (ListedIn(new, k) <=> ListedIn(tab, k))
  <1> DEFINE new == WithList(tab, l, list)
             p == Sub[l].pri
             s == Sub[l].sec
             o == Sub[l].order
             info == tab[p]
  <1>0. /\ InfoOK(p, info) /\ DOMAIN tab = DOMAIN tab \cup {p} /\ tab = [x \in DOMAIN tab |-> tab[x]]
        /\ info.first \in Lists(p, AnySec) /\ info = [first |-> info.first, second |-> info.second]
        /\ info.second = [x \in DOMAIN info.second |-> info.second[x]]
        /\ \A x \in DOMAIN info.second : x # AnySec /\ info.second[x] \in Lists(p, x)
    BY DEF TableOK, InfoOK
  <1>1. o \in Orders
    BY OrdersKnown
  <1>2. CASE s = AnySec
    <2> DEFINE first == [info.first EXCEPT ![o] = list]
    <2>1. new = [tab EXCEPT ![p].first[o] = list] /\ ListOf(tab, l) = info.first[o]
      BY <1>2 DEF WithList, ListOf
    <2>2. info.first \in [Orders -> SUBSET Listeners] /\ \A x \in Orders : info.first[x] \subseteq Slot(p, s, x)
      BY <1>0, <1>2 DEF Lists
    <2>3. l \in Slot(p, s, o)
      BY DEF Slot
    <2>4. list \subseteq Slot(p, s, o) /\ list \subseteq Listeners
      BY <1>1, <2>1, <2>2, <2>3
    <2>5. /\ first \in Lists(p, AnySec) /\ first[o] = list
          /\ \A x \in Orders : x # o => first[x] = info.first[x]
      BY <1>1, <1>2, <2>2, <2>4 DEF Lists
    <2>6. /\ DOMAIN new = DOMAIN tab \cup {p} /\ new = [x \in DOMAIN new |-> new[x]]
          /\ new[p] = [first |-> first, second |-> info.second]
          /\ \A x \in DOMAIN tab : x # p => new[x] = tab[x]
      <3>1. new = [x \in DOMAIN tab |-> IF x = p THEN [info EXCEPT !.first = first] ELSE tab[x]]
        BY <1>0, <2>1
      <3> HIDE DEF first
      <3>2. [info EXCEPT !.first = first] = [first |-> first, second |-> info.second]
        BY <1>0
      <3> QED
        BY <1>0, <3>1, <3>2
    <2> HIDE DEF new, first, info, p, s, o
    <2>7. /\ TableOK(new)
          /\ \A k \in Listeners : Sub[k].pri # p => (ListedIn(new, k) <=> ListedIn(tab, k))
          /\ \A k \in Listeners : Sub[k].pri = p =>
              (ListedIn(new, k) <=> IF Sub[k].sec = AnySec THEN k \in first[Sub[k].order]
                                    ELSE /\ Sub[k].sec \in DOMAIN info.second
                                         /\ k \in info.second[Sub[k].sec][Sub[k].order])
      BY <1>0, <2>5, <2>6, NewInfo
    <2>8. ListedIn(new, l) <=> l \in list
      BY <1>2, <2>5, <2>7 DEF p, s, o
    <2>9. ASSUME NEW k \in Listeners, k # l
          PROVE  ListedIn(new, k) <=> ListedIn(tab, k)
      <3>1. CASE Sub[k].pri # p
        BY <2>7, <3>1
      <3>2. CASE Sub[k].pri = p
        <4>1. ListedIn(tab, k) <=> IF Sub[k].sec = AnySec THEN k \in info.first[Sub[k].order]
                                   ELSE /\ Sub[k].sec \in DOMAIN info.second
                                        /\ k \in info.second[Sub[k].sec][Sub[k].order]
          BY <1>0, <3>2 DEF ListedIn, ListOf, info
        <4>2. k \in list <=> k \in info.first[o]
          BY <2>1, <2>9
        <4> QED
          BY <2>5, <2>7, <3>2, <4>1, <4>2, OrdersKnown
      <3> QED
        BY <3>1, <3>2
    <2> QED
      BY <1>0, <2>6, <2>7, <2>8, <2>9 DEF new
  <1>3. CASE s # AnySec
    <2> DEFINE lists == [info.second[s] EXCEPT ![o] = list]
               second == [info.second EXCEPT ![s] = lists]
    <2>0. s \in DOMAIN info.second
      BY <1>3
    <2>1. new = [tab EXCEPT ![p].second[s][o] = list] /\ ListOf(tab, l) = info.second[s][o]
      BY <1>3 DEF WithList, ListOf
    <2>2. /\ info.second[s] \in [Orders -> SUBSET Listeners]
          /\ \A x \in Orders : info.second[s][x] \subseteq Slot(p, s, x)
      BY <1>0, <2>0 DEF Lists
    <2>3. l \in Slot(p, s, o)
      BY DEF Slot
    <2>4. list \subseteq Slot(p, s, o) /\ list \subseteq Listeners
      <3>1. info.second[s][o] \subseteq Slot(p, s, o) /\ info.second[s][o] \subseteq Listeners
        BY <1>1, <2>2
      <3>2. list = info.second[s][o] \cup {l} \/ list = info.second[s][o] \ {l}
        BY <2>1
      <3> HIDE DEF info, p, s, o
      <3> QED
        BY <2>3, <3>1, <3>2
    <2>5. /\ lists \in Lists(p, s) /\ lists[o] = list
          /\ \A x \in Orders : x # o => lists[x] = info.second[s][x]
      BY <1>1, <2>2, <2>4 DEF Lists
    <2>6. /\ DOMAIN new = DOMAIN tab \cup {p} /\ new = [x \in DOMAIN new |-> new[x]]
          /\ new[p] = [first |-> info.first, second |-> second]
          /\ \A x \in DOMAIN tab : x # p => new[x] = tab[x]
      <3>1. new = [x \in DOMAIN tab |-> IF x = p THEN [info EXCEPT !.second = second] ELSE tab[x]]
        BY <1>0, <2>1
      <3> HIDE DEF second
      <3>2. [info EXCEPT !.second = second] = [first |-> info.first, second |-> second]
        BY <1>0
      <3> QED
        BY <1>0, <3>1, <3>2
    <2> HIDE DEF new, lists, info, p, s, o
    <2>10. /\ DOMAIN second = DOMAIN info.second /\ second[s] = lists
           /\ \A x \in DOMAIN second : x # s => second[x] = info.second[x]
           /\ second = [x \in DOMAIN second |-> second[x]]
      BY <1>0, <2>0
    <2> HIDE DEF second
    <2>11. \A x \in DOMAIN second : x # AnySec /\ second[x] \in Lists(p, x)
      BY <1>0, <2>5, <2>10
    <2>7. /\ TableOK(new)
          /\ \A k \in Listeners : Sub[k].pri # p => (ListedIn(new, k) <=> ListedIn(tab, k))
          /\ \A k \in Listeners : Sub[k].pri = p =>
              (ListedIn(new, k) <=> IF Sub[k].sec = AnySec THEN k \in info.first[Sub[k].order]
                                    ELSE Sub[k].sec \in DOMAIN second /\ k \in second[Sub[k].sec][Sub[k].order])
      BY <1>0, <2>6, <2>10, <2>11, NewInfo
    <2>8. ListedIn(new, l) <=> l \in list
      BY <1>3, <2>0, <2>5, <2>7, <2>10 DEF p, s, o
    <2>9. ASSUME NEW k \in Listeners, k # l
          PROVE  ListedIn(new, k) <=> ListedIn(tab, k)
      <3>1. CASE Sub[k].pri # p
        BY <2>7, <3>1
      <3>2. CASE Sub[k].pri = p
        <4>1. ListedIn(tab, k) <=> IF Sub[k].sec = AnySec THEN k \in info.first[Sub[k].order]
                                   ELSE /\ Sub[k].sec \in DOMAIN info.second
                                        /\ k \in info.second[Sub[k].sec][Sub[k].order]
          BY <1>0, <3>2 DEF ListedIn, ListOf, info
        <4>2. k \in list <=> k \in info.second[s][o]
          BY <2>1, <2>9
        <4> QED
          BY <2>5, <2>7, <2>10, <3>2, <4>1, <4>2, OrdersKnown
      <3> QED
        BY <3>1, <3>2
    <2> QED
      BY <1>0, <2>6, <2>7, <2>8, <2>9 DEF new
  <1> QED
    BY <1>2, <1>3

(***************************************************************************)
(* doSubscribeId adds its listener to the lists and no other.              *)
(***************************************************************************)
LEMMA Subscribed ==
  ASSUME NEW tab, TableOK(tab), NEW rem, NEW l \in Listeners
  PROVE  LET new == doSubscribeId([tab |-> tab, rem |-> rem], l)
         IN  /\ TableOK(new.tab) /\ DOMAIN tab \subseteq DOMAIN new.tab
             /\ \A k \in Listeners : ListedIn(new.tab, k) <=> ListedIn(tab, k) \/ k = l
             /\ new.rem = IF subId[l] = NullId \/ subId[l] \in DOMAIN rem THEN rem
                          ELSE Put(rem, subId[l], l)
  <1> DEFINE new == doSubscribeId([tab |-> tab, rem |-> rem], l)
             one == insertPriId(tab, Sub[l].pri)
             two == insertSecId(one, Sub[l].pri, Sub[l].sec)
             list == ListOf(two, l) \cup {l}
  <1>1. /\ new.tab = WithList(two, l, list)
        /\ new.rem = IF subId[l] = NullId \/ subId[l] \in DOMAIN rem THEN rem
                     ELSE Put(rem, subId[l], l)
    BY DEF doSubscribeId, addListener
  <1> HIDE DEF new
  <1>2. /\ TableOK(one) /\ DOMAIN one = DOMAIN tab \cup {Sub[l].pri}
        /\ \A k \in Listeners : ListedIn(one, k) <=> ListedIn(tab, k)
    BY InsertPri
  <1> HIDE DEF one
  <1>3. /\ TableOK(two) /\ DOMAIN two = DOMAIN one
        /\ Sub[l].sec \in DOMAIN two[Sub[l].pri].second \cup {AnySec}
        /\ \A k \in Listeners : ListedIn(two, k) <=> ListedIn(one, k)
    BY <1>2, InsertSec
  <1> HIDE DEF two
  <1>4. /\ TableOK(new.tab) /\ DOMAIN new.tab = DOMAIN two
        /\ ListedIn(new.tab, l) <=> l \in list
        /\ \A k \in Listeners : k # l => (ListedIn(new.tab, k) <=> ListedIn(two, k))
    BY <1>1, <1>2, <1>3, ListReplaced
  <1> QED
    BY <1>1, <1>2, <1>3, <1>4 DEF new

(***************************************************************************)
(* doUnsubscribe takes the listener of the id out of its list.             *)
(***************************************************************************)
LEMMA Unsubscribed ==
  ASSUME NEW tab, NEW rem, NEW id, NEW l \in Listeners,
         TableOK(tab), id \in DOMAIN rem, rem[id] = l, ListedIn(tab, l)
  PROVE  LET new == doUnsubscribe([tab |-> tab, rem |-> rem], id)
         IN  /\ TableOK(new.tab) /\ DOMAIN tab \subseteq DOMAIN new.tab
             /\ \A k \in Listeners : ListedIn(new.tab, k) <=> ListedIn(tab, k) /\ k # l
             /\ new.rem = Drop(rem, {id})
  <1> DEFINE new == doUnsubscribe([tab |-> tab, rem |-> rem], id)
             list == ListOf(tab, l) \ {l}
             one == WithList(tab, l, list)
  <1>1. /\ new.tab = cleanUp(one, Sub[l].pri, Sub[l].sec) /\ new.rem = Drop(rem, {id})
    BY DEF doUnsubscribe
  <1> HIDE DEF new
  <1>2. Sub[l].pri \in DOMAIN tab /\ Sub[l].sec \in DOMAIN tab[Sub[l].pri].second \cup {AnySec}
    BY DEF ListedIn
  <1>3. /\ TableOK(one) /\ DOMAIN one = DOMAIN tab
        /\ ListedIn(one, l) <=> l \in list
        /\ \A k \in Listeners : k # l => (ListedIn(one, k) <=> ListedIn(tab, k))
    BY <1>2, ListReplaced
  <1> HIDE DEF one
  <1>4. /\ TableOK(new.tab) /\ DOMAIN new.tab = DOMAIN one
        /\ \A k \in Listeners : ListedIn(new.tab, k) <=> ListedIn(one, k)
    BY <1>1, <1>2, <1>3, CleanedUp
  <1> QED
    BY <1>1, <1>3, <1>4 DEF new

(***************************************************************************)
(* callAllListeners calls the listeners of the current order that match    *)
(* the event, all of them, and takes out those that ask for it.            *)
(***************************************************************************)
LEMMA Called ==
  ASSUME TableOK(mListeners), EvId[current.ev].pri \in DOMAIN mListeners, current.order \in Orders,
         NEW resp \in [CurrentLists -> Responses], callAllListeners(resp)
  PROVE  LET deleted == {l \in DOMAIN resp : Deletes(resp[l])}
         IN  /\ TableOK(mListeners') /\ DOMAIN mListeners' = DOMAIN mListeners
             /\ mRemoveById' = clearRemoveId(mRemoveById, deleted)
             /\ resigned' = resigned \cup deleted
             /\ \A k \in Listeners : ListedIn(mListeners', k) <=> ListedIn(mListeners, k) /\ k \notin deleted
             /\ CurrentLists = {l \in Listeners : /\ ListedIn(mListeners, l) /\ Sub[l].order = current.order
                                                  /\ Matches(l, current.ev)}
  <1> DEFINE p == EvId[current.ev].pri
             s == EvId[current.ev].sec
             o == current.order
             tab == mListeners
             new == mListeners'
             info == tab[p]
             deleted == {l \in DOMAIN resp : Deletes(resp[l])}
             Kept(lists) == [lists EXCEPT ![o] = lists[o] \ deleted]
             first == Kept(info.first)
             second == [x \in DOMAIN info.second |->
                          IF x = s THEN Kept(info.second[x]) ELSE info.second[x]]
  <1>1. /\ new = [tab EXCEPT ![p] = [first |-> first, second |-> second]]
        /\ mRemoveById' = clearRemoveId(mRemoveById, deleted)
        /\ resigned' = resigned \cup deleted
    BY DEF callAllListeners
  <1>0. /\ p \in DOMAIN tab /\ InfoOK(p, info) /\ DOMAIN tab = DOMAIN tab \cup {p}
        /\ tab = [x \in DOMAIN tab |-> tab[x]]
        /\ info.first \in Lists(p, AnySec)
        /\ info.second = [x \in DOMAIN info.second |-> info.second[x]]
        /\ \A x \in DOMAIN info.second : x # AnySec /\ info.second[x] \in Lists(p, x)
    BY DEF TableOK, InfoOK
  <1>2. CurrentLists = info.first[o] \cup (IF s \in DOMAIN info.second THEN info.second[s][o] ELSE {})
    BY DEF CurrentLists
  <1>3. deleted \subseteq CurrentLists
    OBVIOUS
  <1> HIDE DEF deleted
  <1>4. ASSUME NEW x, NEW lists \in Lists(p, x)
        PROVE  /\ Kept(lists) \in Lists(p, x) /\ Kept(lists)[o] = lists[o] \ deleted
               /\ \A y \in Orders : y # o => Kept(lists)[y] = lists[y]
    BY <1>4 DEF Lists
  <1>5. /\ first \in Lists(p, AnySec) /\ first[o] = info.first[o] \ deleted
        /\ \A y \in Orders : y # o => first[y] = info.first[y]
    BY <1>0, <1>4
  <1>6. /\ DOMAIN second = DOMAIN info.second /\ second = [x \in DOMAIN second |-> second[x]]
        /\ \A x \in DOMAIN second : x # s => second[x] = info.second[x]
        /\ s \in DOMAIN second => second[s] = Kept(info.second[s])
    OBVIOUS
  <1>7. s \in DOMAIN second => /\ second[s] \in Lists(p, s) /\ second[s][o] = info.second[s][o] \ deleted
                               /\ \A y \in Orders : y # o => second[s][y] = info.second[s][y]
    <2> SUFFICES ASSUME s \in DOMAIN second
                 PROVE  /\ second[s] \in Lists(p, s) /\ second[s][o] = info.second[s][o] \ deleted
                        /\ \A y \in Orders : y # o => second[s][y] = info.second[s][y]
      OBVIOUS
    <2> HIDE DEF first, second, info, Kept, p, s, o, tab, new
    <2>1. info.second[s] \in Lists(p, s)
      BY <1>0, <1>6
    <2> QED
      BY <1>4, <1>6, <2>1
  <1> HIDE DEF first, second, info, Kept, p, s, o, tab, new
  <1>8. \A x \in DOMAIN second : x # AnySec /\ second[x] \in Lists(p, x)
    BY <1>0, <1>6, <1>7
  <1>9. /\ DOMAIN new = DOMAIN tab \cup {p} /\ new = [x \in DOMAIN new |-> new[x]]
        /\ new[p] = [first |-> first, second |-> second]
        /\ \A x \in DOMAIN tab : x # p => new[x] = tab[x]
    BY <1>0, <1>1
  <1>10. TableOK(tab)
    BY DEF tab
  <1>11. /\ TableOK(new)
         /\ \A k \in Listeners : Sub[k].pri # p => (ListedIn(new, k) <=> ListedIn(tab, k))
         /\ \A k \in Listeners : Sub[k].pri = p =>
             (ListedIn(new, k) <=> IF Sub[k].sec = AnySec THEN k \in first[Sub[k].order]
                                   ELSE Sub[k].sec \in DOMAIN second /\ k \in second[Sub[k].sec][Sub[k].order])
    BY <1>5, <1>6, <1>8, <1>9, <1>10, NewInfo
  <1>12. ASSUME NEW k \in Listeners, Sub[k].pri = p
         PROVE  ListedIn(tab, k) <=> IF Sub[k].sec = AnySec THEN k \in info.first[Sub[k].order]
                                     ELSE /\ Sub[k].sec \in DOMAIN info.second
                                          /\ k \in info.second[Sub[k].sec][Sub[k].order]
    BY <1>0, <1>12 DEF ListedIn, ListOf, info
  <1>13. o \in Orders
    BY DEF o
  <1>14. ASSUME NEW l
         PROVE  l \in CurrentLists <=> /\ l \in Listeners /\ ListedIn(tab, l) /\ Sub[l].order = o
                                       /\ Sub[l].pri = p /\ Sub[l].sec \in {AnySec, s}
    <2>1. ASSUME NEW x, NEW lists \in Lists(p, x), l \in lists[o]
          PROVE  l \in Listeners /\ Sub[l].order = o /\ Sub[l].pri = p /\ Sub[l].sec = x
      BY <1>13, <2>1 DEF Lists, Slot
    <2>2. CASE l \in info.first[o]
      BY <1>0, <1>2, <1>12, <2>1, <2>2
    <2>3. CASE s \in DOMAIN info.second /\ l \in info.second[s][o]
      BY <1>0, <1>2, <1>12, <2>1, <2>3
    <2>4. ASSUME l \in Listeners, ListedIn(tab, l), Sub[l].order = o, Sub[l].pri = p,
                 Sub[l].sec \in {AnySec, s}
          PROVE  l \in CurrentLists
      BY <1>2, <1>12, <2>4
    <2> QED
      BY <1>2, <2>2, <2>3, <2>4
  <1>15. ASSUME NEW k \in Listeners
         PROVE  ListedIn(new, k) <=> ListedIn(tab, k) /\ k \notin deleted
    <2>1. CASE Sub[k].pri # p
      BY <1>3, <1>11, <1>14, <2>1
    <2>2. CASE Sub[k].pri = p /\ Sub[k].sec = AnySec
      BY <1>3, <1>5, <1>11, <1>12, <1>14, <2>2, OrdersKnown
    <2>3. CASE Sub[k].pri = p /\ Sub[k].sec # AnySec /\ Sub[k].sec # s
      BY <1>3, <1>6, <1>11, <1>12, <1>14, <2>3
    <2>4. CASE Sub[k].pri = p /\ Sub[k].sec # AnySec /\ Sub[k].sec = s
      BY <1>3, <1>6, <1>7, <1>11, <1>12, <1>14, <2>4, OrdersKnown
    <2> QED
      BY <2>1, <2>2, <2>3, <2>4
  <1>16. CurrentLists = {l \in Listeners : /\ ListedIn(tab, l) /\ Sub[l].order = o
                                           /\ Matches(l, current.ev)}
    BY <1>14 DEF Matches, p, s
  <1> QED
    BY <1>0, <1>1, <1>9, <1>11, <1>15, <1>16 DEF new, tab, o, deleted

-----------------------------------------------------------------------------
(* The queue of subscriptions and unsubscriptions.                         *)

Asked == [op : {"sub"}, l : Listeners] \cup [op : {"unsub"}, id : Int, notify : BOOLEAN]

SubIn(Q, l)   == \E i \in DOMAIN Q : Q[i].op = "sub" /\ Q[i].l = l
UnsubIn(Q, l) == \E i \in DOMAIN Q : Q[i].op = "unsub" /\ Q[i].id = subId[l]

HasId(l) == Sub[l].withId /\ subPc[l] # "none"

(***************************************************************************)
(* A listener is asked for once, and unsubscribed only afterwards.         *)
(***************************************************************************)
QueueOK(Q) ==
  /\ \A i \in DOMAIN Q : Q[i].op = "sub" => Q[i].l \in Listeners /\ subPc[Q[i].l] = "done"
  /\ \A i \in DOMAIN Q : Q[i].op = "unsub" =>
       \E l \in Listeners : HasId(l) /\ subPc[l] = "done" /\ unsubs[l] > 0 /\ Q[i].id = subId[l]
  /\ \A i, j \in DOMAIN Q : Q[i].op = "sub" /\ Q[j].op = "sub" /\ Q[i].l = Q[j].l => i = j
  /\ \A i, j \in DOMAIN Q :
       Q[i].op = "sub" /\ Q[j].op = "unsub" /\ Q[j].id = subId[Q[i].l] => i < j

(* What the event thread has taken, then what is still queued. *)
Line == requests \o mListenerRequests

(* The requests that are older than the events taken in this round. *)
Seen == IF thread = "requests" THEN mListenerRequests ELSE requests

(***************************************************************************)
(* Pushing a request, and taking the first one.                            *)
(***************************************************************************)
LEMMA Pushed ==
  ASSUME NEW Q \in Seq(Asked), NEW r \in Asked
  PROVE  LET P == Append(Q, r)
         IN  /\ P \in Seq(Asked)
             /\ \A l : SubIn(P, l) <=> SubIn(Q, l) \/ (r.op = "sub" /\ r.l = l)
             /\ \A l : UnsubIn(P, l) <=> UnsubIn(Q, l) \/ (r.op = "unsub" /\ r.id = subId[l])
  <1> DEFINE P == Append(Q, r)
             n == Len(Q)
  <1>1. n \in Nat /\ DOMAIN Q = 1..n
    OBVIOUS
  <1>2. P \in Seq(Asked) /\ DOMAIN P = 1..(n + 1) /\ P[n + 1] = r /\ \A i \in 1..n : P[i] = Q[i]
    OBVIOUS
  <1> HIDE DEF P, n
  <1>3. /\ \A i \in 1..(n + 1) : i \in 1..n \/ i = n + 1
        /\ n + 1 \in 1..(n + 1) /\ \A i \in 1..n : i \in 1..(n + 1)
    BY <1>1
  <1>4. \A l : SubIn(P, l) <=> SubIn(Q, l) \/ (r.op = "sub" /\ r.l = l)
    BY <1>1, <1>2, <1>3 DEF SubIn
  <1>5. \A l : UnsubIn(P, l) <=> UnsubIn(Q, l) \/ (r.op = "unsub" /\ r.id = subId[l])
    BY <1>1, <1>2, <1>3 DEF UnsubIn
  <1> QED
    BY <1>2, <1>4, <1>5 DEF P

LEMMA Popped ==
  ASSUME NEW Q \in Seq(Asked), Q # <<>>
  PROVE  /\ Tail(Q) \in Seq(Asked) /\ Head(Q) \in Asked
         /\ \A l : SubIn(Q, l) <=> SubIn(Tail(Q), l) \/ (Head(Q).op = "sub" /\ Head(Q).l = l)
         /\ \A l : UnsubIn(Q, l) <=> UnsubIn(Tail(Q), l) \/ (Head(Q).op = "unsub" /\ Head(Q).id = subId[l])
         /\ QueueOK(Q) => /\ QueueOK(Tail(Q))
                          /\ Head(Q).op = "sub" => ~SubIn(Tail(Q), Head(Q).l)
                          /\ \A l : Head(Q).op = "unsub" /\ Head(Q).id = subId[l] => ~SubIn(Q, l)
  <1> DEFINE T == Tail(Q)
             h == Head(Q)
             n == Len(Q)
  <1>1. n \in Nat /\ n >= 1 /\ DOMAIN Q = 1..n /\ h = Q[1] /\ h \in Asked
    OBVIOUS
  <1>2. T \in Seq(Asked) /\ DOMAIN T = 1..(n - 1) /\ \A i \in 1..(n - 1) : T[i] = Q[i + 1]
    OBVIOUS
  <1> HIDE DEF T, h, n
  <1>3. /\ \A i \in 1..n : i = 1 \/ (i - 1 \in 1..(n - 1) /\ Q[i] = T[i - 1])
        /\ 1 \in 1..n /\ \A i \in 1..(n - 1) : i + 1 \in 1..n /\ 1 < i + 1 /\ i \in Int
    BY <1>1, <1>2
  <1>4. /\ 1 \in DOMAIN Q /\ \A i \in DOMAIN Q : Q[i] = h \/ \E j \in DOMAIN T : Q[i] = T[j]
        /\ \A j \in DOMAIN T : \E i \in DOMAIN Q : i # 1 /\ T[j] = Q[i]
    <2>1. ASSUME NEW i \in DOMAIN Q
          PROVE  Q[i] = h \/ \E j \in DOMAIN T : Q[i] = T[j]
      BY <1>1, <1>2, <1>3
    <2>2. ASSUME NEW j \in DOMAIN T
          PROVE  \E i \in DOMAIN Q : i # 1 /\ T[j] = Q[i]
      <3>1. j + 1 \in DOMAIN Q /\ j + 1 # 1 /\ T[j] = Q[j + 1]
        BY <1>1, <1>2, <1>3
      <3> QED
        BY <3>1
    <2> QED
      BY <1>1, <1>3, <2>1, <2>2
  <1>5. \A l : SubIn(Q, l) <=> SubIn(T, l) \/ (h.op = "sub" /\ h.l = l)
    BY <1>1, <1>4 DEF SubIn
  <1>6. \A l : UnsubIn(Q, l) <=> UnsubIn(T, l) \/ (h.op = "unsub" /\ h.id = subId[l])
    BY <1>1, <1>4 DEF UnsubIn
  <1>7. ASSUME QueueOK(Q)
        PROVE  QueueOK(T)
    <2>1. ASSUME NEW i \in 1..(n - 1)
          PROVE  i + 1 \in DOMAIN Q /\ T[i] = Q[i + 1] /\ i \in Int
      BY <1>1, <1>2, <1>3
    <2>2. \A i \in DOMAIN T : T[i].op = "sub" => T[i].l \in Listeners /\ subPc[T[i].l] = "done"
      BY <1>2, <1>7, <2>1 DEF QueueOK
    <2>3. \A i \in DOMAIN T : T[i].op = "unsub" =>
            \E l \in Listeners : HasId(l) /\ subPc[l] = "done" /\ unsubs[l] > 0 /\ T[i].id = subId[l]
      BY <1>2, <1>7, <2>1 DEF QueueOK
    <2>4. ASSUME NEW i \in DOMAIN T, NEW j \in DOMAIN T, T[i].op = "sub", T[j].op = "sub", T[i].l = T[j].l
          PROVE  i = j
      <3>1. i + 1 = j + 1
        BY <1>2, <1>7, <2>1, <2>4 DEF QueueOK
      <3> QED
        BY <1>2, <2>1, <3>1
    <2>5. ASSUME NEW i \in DOMAIN T, NEW j \in DOMAIN T, T[i].op = "sub", T[j].op = "unsub",
                 T[j].id = subId[T[i].l]
          PROVE  i < j
      <3>1. i + 1 < j + 1
        BY <1>2, <1>7, <2>1, <2>5 DEF QueueOK
      <3> QED
        BY <1>2, <2>1, <3>1
    <2> QED
      BY <2>2, <2>3, <2>4, <2>5 DEF QueueOK
  <1>8. ASSUME QueueOK(Q), h.op = "sub"
        PROVE  ~SubIn(T, h.l)
    BY <1>1, <1>8, <1>4 DEF QueueOK, SubIn
  <1>9. ASSUME QueueOK(Q), NEW l, h.op = "unsub", h.id = subId[l]
        PROVE  ~SubIn(Q, l)
    BY <1>1, <1>3, <1>9 DEF QueueOK, SubIn
  <1> QED
    BY <1>1, <1>2, <1>5, <1>6, <1>7, <1>8, <1>9 DEF T, h

(***************************************************************************)
(* The line of requests in front of the event thread.                      *)
(***************************************************************************)
LEMMA Lines ==
  ASSUME NEW R \in Seq(Asked), NEW M \in Seq(Asked)
  PROVE  /\ R \o M \in Seq(Asked)
         /\ R = <<>> => R \o M = M
         /\ M = <<>> => R \o M = R
         /\ \A r \in Asked : R \o Append(M, r) = Append(R \o M, r)
         /\ R # <<>> => R \o M # <<>> /\ Head(R \o M) = Head(R) /\ Tail(R \o M) = Tail(R) \o M
  <1>1. R \o M \in Seq(Asked)
    OBVIOUS
  <1>2. R = <<>> => R \o M = M
    OBVIOUS
  <1>3. M = <<>> => R \o M = R
    OBVIOUS
  <1>4. \A r \in Asked : R \o Append(M, r) = Append(R \o M, r)
    OBVIOUS
  <1>5. R # <<>> => R \o M # <<>> /\ Head(R \o M) = Head(R)
    OBVIOUS
  <1>6. R # <<>> => Tail(R \o M) = Tail(R) \o M
    OBVIOUS
  <1> QED
    BY <1>1, <1>2, <1>3, <1>4, <1>5, <1>6

-----------------------------------------------------------------------------
(* The invariant of the subscriptions, while the manager exists.           *)

(***************************************************************************)
(* Ids are given out once.                                                 *)
(***************************************************************************)
Ids ==
  /\ nextid \in Nat
  /\ subPc \in [Listeners -> {"none", "alloc", "done"}]
  /\ subId \in [Listeners -> Int]
  /\ unsubs \in [Listeners -> Nat]
  /\ \A l \in Listeners : ~HasId(l) => subId[l] = NullId
  /\ \A l \in Listeners : HasId(l) => subId[l] \in Nat
  /\ \A l \in Listeners : HasId(l) /\ subPc[l] = "done" => subId[l] < nextid
  /\ \A l \in Listeners : subPc[l] = "alloc" => Sub[l].withId /\ subId[l] = nextid
  /\ \A l, k \in Listeners : subPc[l] = "alloc" /\ subPc[k] = "alloc" => l = k
  /\ \A l, k \in Listeners : HasId(l) /\ HasId(k) /\ subId[l] = subId[k] => l = k
  /\ \A l \in Listeners : unsubs[l] > 0 => HasId(l) /\ subPc[l] = "done"

Queue ==
  /\ requests \in Seq(Asked) /\ mListenerRequests \in Seq(Asked)
  /\ thread \in Applying <=> requests # <<>>
  /\ QueueOK(Line)

InLists(l) == ListedIn(mListeners, l)

InSync ==
  /\ TableOK(mListeners)
  /\ mRemoveById = [i \in DOMAIN mRemoveById |-> mRemoveById[i]]
  /\ \A id \in DOMAIN mRemoveById :
       /\ mRemoveById[id] \in Listeners /\ HasId(mRemoveById[id])
       /\ subId[mRemoveById[id]] = id /\ InLists(mRemoveById[id])
  /\ \A l \in Listeners : InLists(l) /\ Sub[l].withId =>
       subId[l] \in DOMAIN mRemoveById /\ mRemoveById[subId[l]] = l
  /\ \A l \in Listeners : InLists(l) => subPc[l] = "done" /\ ~SubIn(Line, l)

(***************************************************************************)
(* An unsubscription that is no longer in the line has taken effect, and   *)
(* so has a subscription, unless the listener has left again.              *)
(***************************************************************************)
Gone(l) == ~InLists(l) /\ ~SubIn(Line, l)
Left(l) == l \in resigned \/ unsubs[l] > 0

Served ==
  /\ \A l \in Listeners : unsubs[l] > 0 => Gone(l) \/ UnsubIn(Line, l)
  /\ \A l \in Listeners : subPc[l] = "done" => InLists(l) \/ SubIn(Line, l) \/ Left(l)

(***************************************************************************)
(* The same for an event that the thread has taken and the requests that   *)
(* it sees in this round.                                                  *)
(***************************************************************************)
UpToDate(e) ==
  /\ \A l \in ended[e]  : Gone(l) \/ UnsubIn(Seen, l)
  /\ \A l \in before[e] : InLists(l) \/ SubIn(Seen, l) \/ Left(l)

InFlight ==
  /\ resigned \subseteq Listeners
  /\ before \in [Events -> SUBSET Listeners] /\ ended \in [Events -> SUBSET Listeners]
  /\ \A e \in Events : /\ \A l \in ended[e] : unsubs[l] > 0
                       /\ \A l \in before[e] : subPc[l] = "done"
  /\ \A i \in DOMAIN mUnprocessed : firePc[mUnprocessed[i]] # "none"
  /\ \A i \in DOMAIN processing : firePc[processing[i]] # "none" /\ UpToDate(processing[i])

Calls ==
  current # None =>
    /\ current.ev \in Events /\ firePc[current.ev] # "none" /\ UpToDate(current.ev)
    /\ current = [ev |-> current.ev, called |-> current.called, order |-> current.order,
                  history |-> current.history]
    /\ current.called \subseteq Listeners /\ current.order \in 0..3
    /\ current.called \cap ended[current.ev] = {}
    /\ \A l \in current.called : Matches(l, current.ev)
    /\ current.history # "dropped" => EvId[current.ev].pri \in DOMAIN mListeners
    /\ current.order \in Orders => current.history \notin {"dropped", "canceled"}
    /\ current.history # "canceled" =>
         \A l \in before[current.ev] :
           Matches(l, current.ev) /\ Sub[l].order < current.order =>
             l \in current.called \/ Left(l)

Full == Ids /\ Queue /\ InSync /\ Served /\ InFlight /\ Calls

SInv == destroy # "dead" => Full

(***************************************************************************)
(* The line of requests keeps its type.                                    *)
(***************************************************************************)
LEMMA LineTyped ==
  ASSUME Full
  PROVE  Line \in Seq(Asked) /\ requests \in Seq(Asked) /\ mListenerRequests \in Seq(Asked)
         /\ Seen \in Seq(Asked)
  BY Lines DEF Full, Queue, Line, Seen

(***************************************************************************)
(* What a step does that leaves the lists, the line and the clients as     *)
(* they are.                                                               *)
(***************************************************************************)
LEMMA Untouched ==
  ASSUME Full, TableOK(mListeners'),
         \A k \in Listeners : ListedIn(mListeners', k) <=> ListedIn(mListeners, k),
         Line' = Line, UNCHANGED <<mRemoveById, nextid, subPc, subId, unsubs, resigned>>
  PROVE  /\ Ids' /\ QueueOK(Line)' /\ InSync' /\ Served'
         /\ \A l \in Listeners : /\ Gone(l)' <=> Gone(l)
                                 /\ Left(l)' <=> Left(l)
                                 /\ InLists(l)' <=> InLists(l)
  <1>1. Ids'
    BY DEF Full, Ids, HasId
  <1>2. QueueOK(Line)'
    BY DEF Full, Queue, QueueOK, HasId
  <1>3. \A l \in Listeners : /\ SubIn(Line, l)' <=> SubIn(Line, l)
                             /\ UnsubIn(Line, l)' <=> UnsubIn(Line, l)
                             /\ InLists(l)' <=> InLists(l)
                             /\ HasId(l)' <=> HasId(l)
                             /\ Left(l)' <=> Left(l)
    BY DEF SubIn, UnsubIn, InLists, HasId, Left
  <1>4. \A l \in Listeners : Gone(l)' <=> Gone(l)
    BY <1>3 DEF Gone
  <1>5. InSync'
    BY <1>3 DEF Full, InSync
  <1>6. Served'
    BY <1>3, <1>4 DEF Full, Served
  <1> QED
    BY <1>1, <1>2, <1>3, <1>4, <1>5, <1>6

(* The thread is in front of the same requests. *)
SameStage == /\ thread = "requests" <=> thread' = "requests"
             /\ thread \in Applying <=> thread' \in Applying

(***************************************************************************)
(* A step that leaves the subscriptions and the events taken alone.        *)
(***************************************************************************)
LEMMA QuietStep ==
  ASSUME DInv, Full,
         UNCHANGED <<mListeners, mRemoveById, nextid, subPc, subId, unsubs, resigned, requests,
                     mListenerRequests, mUnprocessed, processing, current, before, ended>>,
         SameStage,
         \A e \in Events : firePc[e] # "none" => firePc'[e] # "none"
  PROVE  Full'
  <1>1. Line' = Line /\ Seen' = Seen
    BY DEF SameStage, Line, Seen
  <1>2. TableOK(mListeners') /\ \A k \in Listeners : ListedIn(mListeners', k) <=> ListedIn(mListeners, k)
    BY DEF Full, InSync
  <1>3. /\ Ids' /\ QueueOK(Line)' /\ InSync' /\ Served'
        /\ \A l \in Listeners : /\ Gone(l)' <=> Gone(l)
                                /\ Left(l)' <=> Left(l)
                                /\ InLists(l)' <=> InLists(l)
    BY <1>1, <1>2, Untouched
  <1>4. Queue'
    BY <1>3 DEF SameStage, Full, Queue
  <1>5. \A l \in Listeners : (SubIn(Seen, l)' <=> SubIn(Seen, l)) /\ (UnsubIn(Seen, l)' <=> UnsubIn(Seen, l))
    BY <1>1 DEF SubIn, UnsubIn
  <1>6. \A e \in Events : ended[e] \subseteq Listeners /\ before[e] \subseteq Listeners
    BY DEF Full, InFlight
  <1>7. \A e \in Events : UpToDate(e) => UpToDate(e)'
    BY <1>3, <1>5, <1>6 DEF UpToDate
  <1>8. /\ \A i \in DOMAIN processing : processing[i] \in Events
        /\ \A i \in DOMAIN mUnprocessed : mUnprocessed[i] \in Events
    BY DEF DInv, Counts
  <1>9. InFlight'
    BY <1>7, <1>8 DEF Full, InFlight
  <1>10. Calls'
    <2> SUFFICES ASSUME current # None
                 PROVE  Calls'
      BY DEF Calls
    <2>1. current.ev \in Events /\ firePc'[current.ev] # "none" /\ UpToDate(current.ev)'
      BY <1>7 DEF Full, Calls
    <2>2. \A l \in before[current.ev] : Left(l)' <=> Left(l)
      BY <1>3, <1>6, <2>1
    <2> QED
      BY <2>1, <2>2 DEF Full, Calls
  <1> QED
    BY <1>3, <1>4, <1>9, <1>10 DEF Full

(***************************************************************************)
(* The steps that do: the ends of fire(), the loop of the event thread,    *)
(* the destructor.                                                         *)
(***************************************************************************)
LEMMA QuietSteps ==
  ASSUME DInv, Full,
         \/ \E e \in Events : CountEvent(e) \/ NotifyThread(e)
         \/ LoopTop \/ WaitForEvent \/ EndRound \/ NotifyDestructor
         \/ DestroyBegin \/ DestroyNotify \/ WakeSpuriously \/ UNCHANGED vars
  PROVE  Full'
  <1>1. firePc \in [Events -> {"none", "pushed", "notify", "done"}]
    BY DEF DInv, Counts
  <1>2. UNCHANGED <<mListeners, mRemoveById, nextid, subPc, subId, unsubs, resigned, requests,
                    mListenerRequests, mUnprocessed, processing, current, before, ended>>
    BY DEF CountEvent, NotifyThread, LoopTop, WaitForEvent, EndRound, NotifyDestructor, DestroyBegin,
           DestroyNotify, WakeSpuriously, vars, tables, clients, firing, worker, heard, queues
  <1>3. SameStage
    BY DEF CountEvent, NotifyThread, LoopTop, WaitForEvent, EndRound, NotifyDestructor, DestroyBegin,
           DestroyNotify, WakeSpuriously, vars, SameStage, Applying
  <1>4. \A e \in Events : firePc[e] # "none" => firePc'[e] # "none"
    <2>1. CASE \E e \in Events : CountEvent(e) \/ NotifyThread(e)
      <3>1. PICK e \in Events : CountEvent(e) \/ NotifyThread(e)
        BY <2>1
      <3>2. \E to \in {"notify", "done"} : firePc' = [firePc EXCEPT ![e] = to]
        BY <3>1 DEF CountEvent, NotifyThread
      <3> QED
        BY <1>1, <3>2
    <2>2. CASE ~\E e \in Events : CountEvent(e) \/ NotifyThread(e)
      BY <2>2 DEF LoopTop, WaitForEvent, EndRound, NotifyDestructor, DestroyBegin,
                  DestroyNotify, WakeSpuriously, vars, firing
    <2> QED
      BY <2>1, <2>2
  <1> QED
    BY <1>2, <1>3, <1>4, QuietStep

(***************************************************************************)
(* An event is fired, by a client or by a listener: nobody has taken it.   *)
(***************************************************************************)
LEMMA FireStep ==
  ASSUME DInv, Full, NEW e \in Events, fire(e) \/ ListenerFires(e)
  PROVE  Full'
  <1>1. firePc \in [Events -> {"none", "pushed", "notify", "done"}] /\ mUnprocessed \in Seq(Events)
    BY DEF DInv, Counts
  <1>2. /\ firePc[e] = "none" /\ mUnprocessed' = Append(mUnprocessed, e)
        /\ before' = [before EXCEPT ![e] = {l \in Listeners : subPc[l] = "done"}]
        /\ ended'  = [ended EXCEPT ![e] = {l \in Listeners : unsubs[l] > 0}]
        /\ \E to \in {"pushed", "done"} : firePc' = [firePc EXCEPT ![e] = to]
        /\ UNCHANGED <<mListeners, mRemoveById, nextid, subPc, subId, unsubs, resigned, requests,
                       mListenerRequests, processing, current>>
    BY DEF fire, ListenerFires, PushEvent, tables, clients, worker, heard
  <1>3. SameStage
    BY ListenerFiresOn DEF fire, SameStage, Applying
  <1>4. Line' = Line /\ Seen' = Seen
    BY <1>2, <1>3 DEF SameStage, Line, Seen
  <1>5. TableOK(mListeners') /\ \A k \in Listeners : ListedIn(mListeners', k) <=> ListedIn(mListeners, k)
    BY <1>2 DEF Full, InSync
  <1>6. /\ Ids' /\ QueueOK(Line)' /\ InSync' /\ Served'
        /\ \A l \in Listeners : /\ Gone(l)' <=> Gone(l)
                                /\ Left(l)' <=> Left(l)
                                /\ InLists(l)' <=> InLists(l)
    BY <1>2, <1>4, <1>5, Untouched
  <1>7. Queue'
    BY <1>2, <1>3, <1>6 DEF SameStage, Full, Queue
  <1>8. \A l \in Listeners : (SubIn(Seen, l)' <=> SubIn(Seen, l)) /\ (UnsubIn(Seen, l)' <=> UnsubIn(Seen, l))
    BY <1>2, <1>4 DEF SubIn, UnsubIn
  <1>9. /\ before \in [Events -> SUBSET Listeners] /\ ended \in [Events -> SUBSET Listeners]
        /\ \A x \in Events : ended[x] \subseteq Listeners /\ before[x] \subseteq Listeners
    BY DEF Full, InFlight
  <1>10. /\ before' \in [Events -> SUBSET Listeners] /\ ended' \in [Events -> SUBSET Listeners]
         /\ before'[e] = {l \in Listeners : subPc[l] = "done"}
         /\ ended'[e] = {l \in Listeners : unsubs[l] > 0}
         /\ \A x \in Events : x # e => before'[x] = before[x] /\ ended'[x] = ended[x]
    BY <1>2, <1>9
  <1>11. \A x \in Events : firePc[x] # "none" => x # e /\ firePc'[x] # "none"
    BY <1>1, <1>2
  <1>12. \A x \in Events : firePc[x] # "none" /\ UpToDate(x) => UpToDate(x)'
    BY <1>6, <1>8, <1>9, <1>10, <1>11 DEF UpToDate
  <1>13. \A i \in DOMAIN processing : processing[i] \in Events
    BY DEF DInv, Counts
  <1>14. \A i \in DOMAIN mUnprocessed' : firePc'[mUnprocessed'[i]] # "none"
    <2>1. ASSUME NEW i \in DOMAIN mUnprocessed'
          PROVE  mUnprocessed'[i] = e \/ (i \in DOMAIN mUnprocessed /\ mUnprocessed'[i] = mUnprocessed[i]
                                          /\ mUnprocessed[i] \in Events)
      BY <1>1, <1>2
    <2>2. firePc'[e] # "none"
      BY <1>1, <1>2
    <2> QED
      BY <1>11, <2>1, <2>2 DEF Full, InFlight
  <1>15. InFlight'
    <2>1. \A x \in Events : /\ \A l \in ended'[x] : unsubs[l] > 0
                            /\ \A l \in before'[x] : subPc[l] = "done"
      BY <1>10 DEF Full, InFlight
    <2> QED
      BY <1>2, <1>10, <1>11, <1>12, <1>13, <1>14, <2>1 DEF Full, InFlight
  <1>16. Calls'
    <2> SUFFICES ASSUME current # None
                 PROVE  Calls'
      BY <1>2 DEF Calls
    <2>1. /\ current.ev \in Events /\ firePc'[current.ev] # "none" /\ UpToDate(current.ev)'
          /\ ended'[current.ev] = ended[current.ev] /\ before'[current.ev] = before[current.ev]
      BY <1>2, <1>10, <1>11, <1>12 DEF Full, Calls
    <2>2. \A l \in before[current.ev] : Left(l)' <=> Left(l)
      BY <1>6, <1>9, <2>1
    <2> QED
      BY <1>2, <2>1, <2>2 DEF Full, Calls
  <1> QED
    BY <1>6, <1>7, <1>15, <1>16 DEF Full

(***************************************************************************)
(* The events are taken first, so that what was asked before they were     *)
(* fired is in the line already; then the requests.                        *)
(***************************************************************************)
LEMMA TakeStep ==
  ASSUME DInv, Full, TakeEvents \/ TakeRequests
  PROVE  Full'
  <1>1. UNCHANGED <<mListeners, mRemoveById, nextid, subPc, subId, unsubs, resigned, current,
                    before, ended, firePc>>
    BY DEF TakeEvents, TakeRequests, tables, clients, firing, heard
  <1>2. /\ requests = <<>> /\ current = None /\ Line = mListenerRequests
        /\ mListenerRequests \in Seq(Asked) /\ requests \in Seq(Asked)
    BY Lines DEF TakeEvents, TakeRequests, Full, Queue, DInv, Rounds, Line, Applying
  <1>3. /\ TableOK(mListeners') /\ \A k \in Listeners : ListedIn(mListeners', k) <=> ListedIn(mListeners, k)
    BY <1>1 DEF Full, InSync
  <1>4. \A e \in Events : ended[e] \subseteq Listeners /\ before[e] \subseteq Listeners
    BY DEF Full, InFlight
  <1>5. Calls'
    BY <1>1, <1>2 DEF Calls
  <1>6. CASE TakeEvents
    <2>1. /\ thread = "take" /\ thread' = "requests" /\ UNCHANGED <<requests, mListenerRequests>>
          /\ processing' = mUnprocessed /\ mUnprocessed' = <<>>
      BY <1>6 DEF TakeEvents
    <2>2. Line' = Line /\ Seen' = Line
      BY <1>2, <2>1 DEF Line, Seen
    <2>3. /\ Ids' /\ QueueOK(Line)' /\ InSync' /\ Served'
          /\ \A l \in Listeners : /\ Gone(l)' <=> Gone(l)
                                  /\ Left(l)' <=> Left(l)
                                  /\ InLists(l)' <=> InLists(l)
      BY <1>1, <1>3, <2>2, Untouched
    <2>4. Queue'
      BY <1>2, <2>1, <2>3 DEF Full, Queue, Applying
    <2>5. \A l \in Listeners : (SubIn(Seen, l)' <=> SubIn(Line, l)) /\ (UnsubIn(Seen, l)' <=> UnsubIn(Line, l))
      BY <1>1, <2>2 DEF SubIn, UnsubIn
    <2>6. \A e \in Events : UpToDate(e)'
      BY <1>1, <1>4, <2>3, <2>5 DEF UpToDate, Full, Served, InFlight
    <2>7. \A i \in DOMAIN mUnprocessed : mUnprocessed[i] \in Events /\ firePc[mUnprocessed[i]] # "none"
      BY DEF DInv, Counts, Full, InFlight
    <2>8. InFlight'
      BY <1>1, <2>1, <2>6, <2>7 DEF Full, InFlight
    <2> QED
      BY <1>5, <2>3, <2>4, <2>8 DEF Full
  <1>7. CASE TakeRequests
    <2>1. /\ thread = "requests" /\ requests' = mListenerRequests /\ mListenerRequests' = <<>>
          /\ thread' = (IF mListenerRequests = <<>> THEN "dispatch" ELSE "apply")
          /\ UNCHANGED <<processing, mUnprocessed>>
      BY <1>7 DEF TakeRequests
    <2>2. mListenerRequests' \in Seq(Asked)
      BY <2>1
    <2>3. Line' = Line /\ Seen' = Seen
      BY <1>2, <2>1, <2>2, Lines DEF Line, Seen
    <2>4. /\ Ids' /\ QueueOK(Line)' /\ InSync' /\ Served'
          /\ \A l \in Listeners : /\ Gone(l)' <=> Gone(l)
                                  /\ Left(l)' <=> Left(l)
                                  /\ InLists(l)' <=> InLists(l)
      BY <1>1, <1>3, <2>3, Untouched
    <2>5. Queue'
      BY <1>2, <2>1, <2>2, <2>4 DEF Queue, Applying
    <2>6. \A l \in Listeners : (SubIn(Seen, l)' <=> SubIn(Seen, l)) /\ (UnsubIn(Seen, l)' <=> UnsubIn(Seen, l))
      BY <1>1, <2>3 DEF SubIn, UnsubIn
    <2>7. \A e \in Events : UpToDate(e) => UpToDate(e)'
      BY <1>1, <1>4, <2>4, <2>6 DEF UpToDate
    <2>8. \A i \in DOMAIN processing : processing[i] \in Events
      BY DEF DInv, Counts
    <2>9. InFlight'
      BY <1>1, <2>1, <2>7, <2>8 DEF Full, InFlight
    <2> QED
      BY <1>5, <2>4, <2>5, <2>9 DEF Full
  <1> QED
    BY <1>6, <1>7

(***************************************************************************)
(* A request is applied: a subscription adds its listener, an              *)
(* unsubscription takes out the listener with that id, if it is there.     *)
(***************************************************************************)
LEMMA Applied ==
  ASSUME DInv, Full, ApplyRequest
  PROVE  LET h == Head(requests)
         IN  /\ TableOK(mListeners') /\ DOMAIN mListeners \subseteq DOMAIN mListeners'
             /\ h.op = "sub" =>
                  /\ \A k \in Listeners : ListedIn(mListeners', k) <=> ListedIn(mListeners, k) \/ k = h.l
                  /\ mRemoveById' = IF subId[h.l] = NullId THEN mRemoveById
                                    ELSE Put(mRemoveById, subId[h.l], h.l)
             /\ h.op = "unsub" => \E l \in Listeners :
                  /\ HasId(l) /\ subPc[l] = "done" /\ unsubs[l] > 0 /\ h.id = subId[l]
                  /\ \A k \in Listeners : ListedIn(mListeners', k) <=> ListedIn(mListeners, k) /\ k # l
                  /\ mRemoveById' = Drop(mRemoveById, {h.id})
  <1> DEFINE h == Head(requests)
             old == [tab |-> mListeners, rem |-> mRemoveById]
  <1>1. /\ thread = "apply" /\ requests # <<>> /\ requests \in Seq(Asked) /\ mListenerRequests \in Seq(Asked)
        /\ QueueOK(Line) /\ TableOK(mListeners)
    BY DEF ApplyRequest, Full, Queue, InSync, Applying
  <1>2. Line \in Seq(Asked) /\ Line # <<>> /\ Head(Line) = h
    BY <1>1, Lines DEF Line
  <1>3. 1 \in DOMAIN Line /\ Line[1] = h /\ h \in Asked
    BY <1>2
  <1>4. CASE h.op = "sub"
    <2>1. h.l \in Listeners /\ subPc[h.l] = "done" /\ SubIn(Line, h.l)
      BY <1>1, <1>3, <1>4 DEF QueueOK, SubIn
    <2>2. mListeners' = doSubscribeId(old, h.l).tab /\ mRemoveById' = doSubscribeId(old, h.l).rem
      BY <1>4 DEF ApplyRequest
    <2> HIDE DEF h
    <2>3. ~InLists(h.l)
      BY <2>1 DEF Full, InSync
    <2>4. subId[h.l] # NullId => subId[h.l] \notin DOMAIN mRemoveById
      <3> SUFFICES ASSUME subId[h.l] # NullId, subId[h.l] \in DOMAIN mRemoveById
                   PROVE  FALSE
        OBVIOUS
      <3>1. HasId(h.l)
        BY <2>1 DEF Full, Ids
      <3> DEFINE k == mRemoveById[subId[h.l]]
      <3>2. k \in Listeners /\ HasId(k) /\ subId[k] = subId[h.l] /\ InLists(k)
        BY DEF Full, InSync
      <3>3. k = h.l
        BY <2>1, <3>1, <3>2 DEF Full, Ids
      <3> QED
        BY <2>3, <3>2, <3>3
    <2>5. /\ TableOK(mListeners') /\ DOMAIN mListeners \subseteq DOMAIN mListeners'
          /\ \A k \in Listeners : ListedIn(mListeners', k) <=> ListedIn(mListeners, k) \/ k = h.l
          /\ mRemoveById' = IF subId[h.l] = NullId \/ subId[h.l] \in DOMAIN mRemoveById THEN mRemoveById
                            ELSE Put(mRemoveById, subId[h.l], h.l)
      BY <1>1, <2>1, <2>2, Subscribed
    <2> QED
      BY <1>4, <2>4, <2>5 DEF h
  <1>5. CASE h.op = "unsub"
    <2>1. PICK l \in Listeners : HasId(l) /\ subPc[l] = "done" /\ unsubs[l] > 0 /\ h.id = subId[l]
      BY <1>1, <1>3, <1>5 DEF QueueOK
    <2>2. mListeners' = doUnsubscribe(old, h.id).tab /\ mRemoveById' = doUnsubscribe(old, h.id).rem
      BY <1>5 DEF ApplyRequest
    <2> HIDE DEF h
    <2>3. CASE h.id \in DOMAIN mRemoveById
      <3>1. LET k == mRemoveById[h.id]
            IN  k \in Listeners /\ HasId(k) /\ subId[k] = h.id /\ InLists(k)
        BY <2>3 DEF Full, InSync
      <3>4. mRemoveById[h.id] = l /\ ListedIn(mListeners, l)
        BY <2>1, <3>1 DEF Full, Ids, InLists
      <3>3. /\ TableOK(mListeners') /\ DOMAIN mListeners \subseteq DOMAIN mListeners'
            /\ \A x \in Listeners : ListedIn(mListeners', x) <=> ListedIn(mListeners, x) /\ x # l
            /\ mRemoveById' = Drop(mRemoveById, {h.id})
        <4>1. l \in Listeners /\ TableOK(mListeners)
          BY <1>1, <2>1
        <4> QED
          BY <2>2, <2>3, <3>4, <4>1, Unsubscribed
      <3> QED
        BY <1>5, <2>1, <3>3 DEF h
    <2>4. CASE h.id \notin DOMAIN mRemoveById
      <3>1. mListeners' = mListeners /\ mRemoveById' = mRemoveById
        BY <2>2, <2>4 DEF doUnsubscribe
      <3>2. ~InLists(l)
        BY <2>1, <2>4 DEF Full, InSync, HasId
      <3>3. mRemoveById = Drop(mRemoveById, {h.id})
        <4>1. DOMAIN mRemoveById \ {h.id} = DOMAIN mRemoveById
          BY <2>4
        <4> QED
          BY <4>1 DEF Drop, Full, InSync
      <3> QED
        BY <1>1, <1>5, <2>1, <3>1, <3>2, <3>3 DEF h, InLists
    <2> QED
      BY <2>3, <2>4
  <1>6. h.op = "sub" \/ h.op = "unsub"
    BY <1>3 DEF Asked
  <1> QED
    BY <1>4, <1>5, <1>6

(***************************************************************************)
(* Applying a request: the tables agree again, and the request has taken   *)
(* effect.                                                                 *)
(***************************************************************************)
LEMMA ApplyStep ==
  ASSUME DInv, Full, ApplyRequest
  PROVE  Full'
  <1> DEFINE h == Head(requests)
  <1>1. /\ thread = "apply" /\ requests # <<>> /\ requests \in Seq(Asked) /\ mListenerRequests \in Seq(Asked)
        /\ requests' = Tail(requests) /\ thread' = (IF requests' = <<>> THEN "dispatch" ELSE "apply")
        /\ UNCHANGED <<mListenerRequests, nextid, subPc, subId, unsubs, resigned, mUnprocessed, processing,
                       current, before, ended, firePc>>
        /\ QueueOK(Line)
    BY DEF ApplyRequest, Full, Queue, clients, firing, heard, queues, Applying
  <1>2. current = None
    BY <1>1 DEF DInv, Rounds
  <1>3. /\ Line \in Seq(Asked) /\ Line # <<>> /\ Head(Line) = h /\ Line' = Tail(Line)
        /\ Seen = requests /\ Seen' = Tail(requests)
    BY <1>1, Lines DEF Line, Seen
  <1>4. h \in Asked /\ (h.op = "sub" \/ h.op = "unsub")
    <2>1. h \in Asked
      BY <1>1
    <2> QED
      BY <2>1 DEF Asked
  <1>5. /\ TableOK(mListeners')
        /\ h.op = "sub" =>
             /\ \A k \in Listeners : ListedIn(mListeners', k) <=> ListedIn(mListeners, k) \/ k = h.l
             /\ mRemoveById' = IF subId[h.l] = NullId THEN mRemoveById
                               ELSE Put(mRemoveById, subId[h.l], h.l)
        /\ h.op = "unsub" => \E l \in Listeners :
             /\ HasId(l) /\ subPc[l] = "done" /\ unsubs[l] > 0 /\ h.id = subId[l]
             /\ \A k \in Listeners : ListedIn(mListeners', k) <=> ListedIn(mListeners, k) /\ k # l
             /\ mRemoveById' = Drop(mRemoveById, {h.id})
    BY Applied
  <1> HIDE DEF h
  <1>6. /\ Line' \in Seq(Asked) /\ QueueOK(Line')
        /\ \A l : SubIn(Line, l) <=> SubIn(Line', l) \/ (h.op = "sub" /\ h.l = l)
        /\ \A l : UnsubIn(Line, l) <=> UnsubIn(Line', l) \/ (h.op = "unsub" /\ h.id = subId[l])
        /\ h.op = "sub" => ~SubIn(Line', h.l)
        /\ \A l : h.op = "unsub" /\ h.id = subId[l] => ~SubIn(Line, l)
    BY <1>1, <1>3, Popped
  <1>7. /\ requests' \in Seq(Asked)
        /\ \A l : SubIn(Seen, l) <=> SubIn(Seen', l) \/ (h.op = "sub" /\ h.l = l)
        /\ \A l : UnsubIn(Seen, l) <=> UnsubIn(Seen', l) \/ (h.op = "unsub" /\ h.id = subId[l])
    BY <1>1, <1>3, Popped DEF h
  <1>8. \A l \in Listeners :
          /\ SubIn(Line, l)' <=> SubIn(Line', l)
          /\ UnsubIn(Line, l)' <=> UnsubIn(Line', l)
          /\ SubIn(Seen, l)' <=> SubIn(Seen', l)
          /\ UnsubIn(Seen, l)' <=> UnsubIn(Seen', l)
          /\ HasId(l)' <=> HasId(l)
          /\ Left(l)' <=> Left(l)
          /\ InLists(l)' <=> ListedIn(mListeners', l)
    BY <1>1 DEF SubIn, UnsubIn, HasId, Left, InLists
  <1>9. Ids'
    BY <1>1 DEF Full, Ids, HasId
  <1>10. Queue'
    <2>1. QueueOK(Line)'
      BY <1>1, <1>6 DEF QueueOK, HasId
    <2> QED
      BY <1>1, <1>7, <2>1 DEF Queue, Applying
  <1>11. h.op = "sub" => h.l \in Listeners /\ subPc[h.l] = "done" /\ SubIn(Line, h.l) /\ ~InLists(h.l)
    <2>1. 1 \in DOMAIN Line /\ Line[1] = h
      BY <1>3
    <2>2. h.op = "sub" => h.l \in Listeners /\ subPc[h.l] = "done" /\ SubIn(Line, h.l)
      BY <1>1, <2>1 DEF QueueOK, SubIn
    <2> QED
      BY <2>2 DEF Full, InSync
  <1>12. ASSUME NEW l \in Listeners, Gone(l)
         PROVE  Gone(l)'
    <2>1. ~ListedIn(mListeners, l) /\ ~SubIn(Line, l)
      BY <1>12 DEF Gone, InLists
    <2>2. ~SubIn(Line', l) /\ ~(h.op = "sub" /\ h.l = l)
      BY <1>6, <2>1
    <2>3. ~ListedIn(mListeners', l)
      BY <1>4, <1>5, <2>1, <2>2
    <2> QED
      BY <1>8, <2>2, <2>3 DEF Gone
  <1>13. ASSUME NEW l \in Listeners, h.op = "unsub", h.id = subId[l], HasId(l)
         PROVE  Gone(l)'
    <2>1. ~ListedIn(mListeners', l)
      BY <1>5, <1>13 DEF Full, Ids
    <2>2. ~SubIn(Line', l)
      BY <1>6, <1>13
    <2> QED
      BY <1>8, <2>1, <2>2 DEF Gone
  <1>14. ASSUME NEW l \in Listeners, ListedIn(mListeners, l) \/ (h.op = "sub" /\ h.l = l)
         PROVE  ListedIn(mListeners', l) \/ Left(l)
    BY <1>4, <1>5, <1>14 DEF Left
  <1>15. InSync'
    <2>1. ASSUME NEW l \in Listeners, ListedIn(mListeners', l)
          PROVE  subPc[l] = "done" /\ ~SubIn(Line', l)
      <3>1. CASE h.op = "sub" /\ h.l = l
        BY <1>6, <1>11, <3>1
      <3>2. CASE ~(h.op = "sub" /\ h.l = l)
        <4>1. ListedIn(mListeners, l)
          BY <1>4, <1>5, <2>1, <3>2
        <4> QED
          BY <1>6, <4>1 DEF Full, InSync, InLists
      <3> QED
        BY <3>1, <3>2
    <2>2. CASE h.op = "sub" /\ subId[h.l] = NullId
      <3>1. mRemoveById' = mRemoveById /\ ~Sub[h.l].withId
        <4>1. subPc[h.l] # "none" /\ h.l \in Listeners
          BY <1>11, <2>2
        <4>2. ~(NullId \in Nat)
          BY DEF NullId
        <4>3. ~HasId(h.l)
          BY <2>2, <4>1, <4>2 DEF Full, Ids
        <4> QED
          BY <1>5, <2>2, <4>1, <4>3 DEF HasId
      <3> QED
        BY <1>1, <1>5, <1>8, <1>11, <2>1, <2>2, <3>1 DEF Full, InSync, InLists
    <2>3. CASE h.op = "sub" /\ subId[h.l] # NullId
      <3>1. mRemoveById' = Put(mRemoveById, subId[h.l], h.l) /\ h.l \in Listeners /\ HasId(h.l)
        BY <1>5, <1>11, <2>3 DEF Full, Ids
      <3>2. /\ DOMAIN mRemoveById' = DOMAIN mRemoveById \cup {subId[h.l]}
            /\ mRemoveById'[subId[h.l]] = h.l
            /\ \A x \in DOMAIN mRemoveById : x # subId[h.l] => mRemoveById'[x] = mRemoveById[x]
            /\ mRemoveById' = [x \in DOMAIN mRemoveById' |-> mRemoveById'[x]]
        BY <3>1 DEF Put
      <3>3. ASSUME NEW id \in DOMAIN mRemoveById'
            PROVE  /\ mRemoveById'[id] \in Listeners /\ HasId(mRemoveById'[id])
                   /\ subId[mRemoveById'[id]] = id /\ ListedIn(mListeners', mRemoveById'[id])
        <4>1. CASE id = subId[h.l]
          BY <1>5, <2>3, <3>1, <3>2, <4>1
        <4>2. CASE id # subId[h.l]
          BY <1>5, <2>3, <3>2, <4>2 DEF Full, InSync, InLists
        <4> QED
          BY <4>1, <4>2
      <3>4. ASSUME NEW l \in Listeners, ListedIn(mListeners', l), Sub[l].withId
            PROVE  subId[l] \in DOMAIN mRemoveById' /\ mRemoveById'[subId[l]] = l
        <4>1. CASE l = h.l
          BY <3>2, <4>1
        <4>2. CASE l # h.l
          <5>1. ListedIn(mListeners, l) /\ HasId(l)
            BY <1>5, <2>3, <3>4, <4>2 DEF Full, InSync, InLists, HasId
          <5>2. subId[l] # subId[h.l]
            BY <3>1, <4>2, <5>1 DEF Full, Ids
          <5> QED
            BY <3>2, <3>4, <5>1, <5>2 DEF Full, InSync, InLists
        <4> QED
          BY <4>1, <4>2
      <3> QED
        BY <1>1, <1>5, <1>8, <2>1, <3>2, <3>3, <3>4 DEF InSync
    <2>4. CASE h.op = "unsub"
      <3>1. PICK k \in Listeners :
              /\ HasId(k) /\ subPc[k] = "done" /\ unsubs[k] > 0 /\ h.id = subId[k]
              /\ \A x \in Listeners : ListedIn(mListeners', x) <=> ListedIn(mListeners, x) /\ x # k
              /\ mRemoveById' = Drop(mRemoveById, {h.id})
        BY <1>5, <2>4
      <3>2. /\ DOMAIN mRemoveById' = DOMAIN mRemoveById \ {subId[k]}
            /\ \A x \in DOMAIN mRemoveById' : mRemoveById'[x] = mRemoveById[x]
            /\ mRemoveById' = [x \in DOMAIN mRemoveById' |-> mRemoveById'[x]]
        BY <3>1 DEF Drop
      <3>3. ASSUME NEW id \in DOMAIN mRemoveById'
            PROVE  /\ mRemoveById'[id] \in Listeners /\ HasId(mRemoveById'[id])
                   /\ subId[mRemoveById'[id]] = id /\ ListedIn(mListeners', mRemoveById'[id])
        BY <3>1, <3>2 DEF Full, InSync, InLists
      <3>4. ASSUME NEW l \in Listeners, ListedIn(mListeners', l), Sub[l].withId
            PROVE  subId[l] \in DOMAIN mRemoveById' /\ mRemoveById'[subId[l]] = l
        <4>1. ListedIn(mListeners, l) /\ l # k
          BY <3>1, <3>4
        <4>2. HasId(l)
          BY <3>4, <4>1 DEF Full, InSync, InLists, HasId
        <4>3. subId[l] # subId[k]
          BY <3>1, <4>1, <4>2 DEF Full, Ids
        <4> QED
          BY <3>2, <3>4, <4>1, <4>3 DEF Full, InSync, InLists
      <3> QED
        BY <1>1, <1>5, <1>8, <2>1, <3>2, <3>3, <3>4 DEF InSync
    <2> QED
      BY <1>4, <2>2, <2>3, <2>4
  <1>16. Served'
    <2>1. ASSUME NEW l \in Listeners, unsubs[l] > 0
          PROVE  Gone(l)' \/ UnsubIn(Line, l)'
      <3>1. HasId(l) /\ (Gone(l) \/ UnsubIn(Line, l))
        BY <2>1 DEF Full, Ids, Served
      <3> QED
        BY <1>6, <1>8, <1>12, <1>13, <3>1
    <2>2. ASSUME NEW l \in Listeners, subPc[l] = "done"
          PROVE  InLists(l)' \/ SubIn(Line, l)' \/ Left(l)'
      <3>1. InLists(l) \/ SubIn(Line, l) \/ Left(l)
        BY <2>2 DEF Full, Served
      <3> QED
        BY <1>6, <1>8, <1>14, <3>1 DEF InLists
    <2> QED
      BY <1>1, <2>1, <2>2 DEF Served
  <1>17. InFlight'
    <2>1. \A e \in Events : ended[e] \subseteq Listeners /\ before[e] \subseteq Listeners
      BY DEF Full, InFlight
    <2>2. ASSUME NEW e \in Events, UpToDate(e)
          PROVE  UpToDate(e)'
      <3>1. ASSUME NEW l \in ended[e]
            PROVE  Gone(l)' \/ UnsubIn(Seen, l)'
        <4>1. l \in Listeners /\ HasId(l) /\ (Gone(l) \/ UnsubIn(Seen, l))
          BY <2>1, <2>2 DEF Full, InFlight, Ids, UpToDate
        <4> QED
          BY <1>7, <1>8, <1>12, <1>13, <4>1
      <3>2. ASSUME NEW l \in before[e]
            PROVE  InLists(l)' \/ SubIn(Seen, l)' \/ Left(l)'
        <4>1. l \in Listeners /\ (InLists(l) \/ SubIn(Seen, l) \/ Left(l))
          BY <2>1, <2>2 DEF UpToDate
        <4> QED
          BY <1>7, <1>8, <1>14, <4>1 DEF InLists
      <3> QED
        BY <1>1, <3>1, <3>2 DEF UpToDate
    <2>3. \A i \in DOMAIN processing : processing[i] \in Events
      BY DEF DInv, Counts
    <2> QED
      BY <1>1, <2>2, <2>3 DEF Full, InFlight
  <1>18. Calls'
    BY <1>1, <1>2 DEF Calls
  <1> QED
    BY <1>9, <1>10, <1>15, <1>16, <1>17, <1>18 DEF Full

(***************************************************************************)
(* An event is dispatched: all the requests it has to see are applied.     *)
(***************************************************************************)
LEMMA DispatchStep ==
  ASSUME DInv, Full, DispatchNext
  PROVE  Full'
  <1>0. PICK e : e = Head(processing)
    OBVIOUS
  <1>1. /\ thread = "dispatch" /\ processing # <<>> /\ processing' = Tail(processing)
        /\ current' = Dispatched(e) /\ processing \in Seq(Events)
        /\ UNCHANGED <<mListeners, mRemoveById, nextid, subPc, subId, unsubs, resigned, requests,
                       mListenerRequests, mUnprocessed, before, ended, firePc, thread>>
    BY <1>0 DEF DispatchNext, DInv, Counts, tables, clients, firing, heard, queues
  <1>2. /\ 1 \in DOMAIN processing /\ e = processing[1] /\ e \in Events
        /\ \A i \in DOMAIN Tail(processing) : i + 1 \in DOMAIN processing /\ Tail(processing)[i] = processing[i + 1]
    BY <1>0, <1>1
  <1>3. Line' = Line /\ Seen' = Seen /\ Seen = <<>>
    BY <1>1 DEF Line, Seen, Full, Queue, Applying
  <1>4. TableOK(mListeners') /\ \A k \in Listeners : ListedIn(mListeners', k) <=> ListedIn(mListeners, k)
    BY <1>1 DEF Full, InSync
  <1>5. /\ Ids' /\ QueueOK(Line)' /\ InSync' /\ Served'
        /\ \A l \in Listeners : /\ Gone(l)' <=> Gone(l)
                                /\ Left(l)' <=> Left(l)
                                /\ InLists(l)' <=> InLists(l)
    BY <1>1, <1>3, <1>4, Untouched
  <1>6. Queue'
    BY <1>1, <1>5 DEF Full, Queue
  <1>7. \A l \in Listeners : (SubIn(Seen, l)' <=> SubIn(Seen, l)) /\ (UnsubIn(Seen, l)' <=> UnsubIn(Seen, l))
    BY <1>1, <1>3 DEF SubIn, UnsubIn
  <1>8. \A x \in Events : ended[x] \subseteq Listeners /\ before[x] \subseteq Listeners
    BY DEF Full, InFlight
  <1>9. \A x \in Events : UpToDate(x) => UpToDate(x)'
    BY <1>1, <1>5, <1>7, <1>8 DEF UpToDate
  <1>10. \A i \in DOMAIN processing : processing[i] \in Events /\ firePc[processing[i]] # "none" /\ UpToDate(processing[i])
    BY DEF DInv, Counts, Full, InFlight
  <1>11. InFlight'
    <2>1. ASSUME NEW i \in DOMAIN processing'
          PROVE  firePc'[processing'[i]] # "none" /\ UpToDate(processing[i])'
      <3>1. i + 1 \in DOMAIN processing /\ processing'[i] = processing[i + 1]
        BY <1>1, <1>2
      <3>2. processing'[i] \in Events /\ firePc[processing'[i]] # "none" /\ UpToDate(processing'[i])
        BY <1>10, <3>1
      <3> QED
        BY <1>1, <1>9, <3>2
    <2> QED
      BY <1>1, <2>1 DEF Full, InFlight
  <1>12. Calls'
    <2> DEFINE known == EvId[e].pri \in DOMAIN mListeners
    <2>1. /\ current'.ev = e /\ current'.called = {}
          /\ current'.order = (IF known THEN EARLY ELSE LATE + 1)
          /\ current'.history = (IF known THEN "unhandled" ELSE "dropped")
          /\ current' = [ev |-> current'.ev, called |-> current'.called, order |-> current'.order,
                         history |-> current'.history]
      BY <1>1 DEF Dispatched
    <2>2. firePc'[e] # "none" /\ UpToDate(e)' /\ e \in Events
      BY <1>1, <1>2, <1>9, <1>10
    <2>3. ASSUME NEW l \in before'[e], Matches(l, e), Sub[l].order < current'.order
          PROVE  Left(l)'
      <3>1. l \in before[e] /\ l \in Listeners
        BY <1>1, <1>2, <1>8
      <3>2. ~known
        <4>1. Sub[l].order \in 0..2
          BY <3>1, OrdersKnown
        <4> QED
          BY <2>1, <2>3, <4>1 DEF EARLY
      <3>3. InLists(l) \/ SubIn(Seen, l) \/ Left(l)
        BY <1>2, <1>10, <3>1 DEF UpToDate
      <3>4. ~SubIn(Seen, l)
        BY <1>3 DEF SubIn
      <3>5. ~InLists(l)
        BY <2>3, <3>2 DEF InLists, ListedIn, Matches
      <3> QED
        BY <1>5, <3>1, <3>3, <3>4, <3>5
    <2>4. UpToDate(current.ev)'
      BY <2>1, <2>2 DEF UpToDate
    <2>5. current'.order \in 0..3 /\ (current'.order \in Orders => known)
      BY <2>1 DEF EARLY, MIDDLE, LATE, Orders
    <2> QED
      BY <1>1, <2>1, <2>2, <2>3, <2>4, <2>5 DEF Calls
  <1> QED
    BY <1>5, <1>6, <1>11, <1>12 DEF Full

(***************************************************************************)
(* The event is finished.                                                  *)
(***************************************************************************)
LEMMA FinishStep ==
  ASSUME DInv, Full, FinishEvent
  PROVE  Full'
  <1> DEFINE e == current.ev
  <1>1. /\ thread = "dispatch" /\ current # None /\ current' = None
        /\ before' = [before EXCEPT ![e] = {}] /\ ended' = [ended EXCEPT ![e] = {}]
        /\ UNCHANGED <<mRemoveById, nextid, subPc, subId, unsubs, resigned, requests,
                       mListenerRequests, mUnprocessed, processing, firePc, thread>>
    BY DEF FinishEvent, clients, queues
  <1>2. /\ e \in Events
        /\ current.history # "dropped" => EvId[e].pri \in DOMAIN mListeners
    BY <1>1 DEF Full, Calls
  <1>3. Line' = Line /\ Seen' = Seen
    BY <1>1 DEF Line, Seen
  <1>4. TableOK(mListeners') /\ \A k \in Listeners : ListedIn(mListeners', k) <=> ListedIn(mListeners, k)
    <2>1. TableOK(mListeners)
      BY DEF Full, InSync
    <2>2. CASE current.history = "dropped"
      BY <2>1, <2>2 DEF FinishEvent
    <2>3. CASE current.history # "dropped"
      <3>1. mListeners' = cleanUp(mListeners, EvId[e].pri, EvId[e].sec)
        BY <2>3 DEF FinishEvent
      <3>2. EvId[e].pri \in DOMAIN mListeners
        BY <1>2, <2>3
      <3>3. \A q \in DOMAIN mListeners : \A t :
              /\ TableOK(cleanUp(mListeners, q, t))
              /\ \A k \in Listeners : ListedIn(cleanUp(mListeners, q, t), k) <=> ListedIn(mListeners, k)
        BY <2>1, CleanedUp
      <3> QED
        BY <3>1, <3>2, <3>3
    <2> QED
      BY <2>2, <2>3
  <1>5. /\ Ids' /\ QueueOK(Line)' /\ InSync' /\ Served'
        /\ \A l \in Listeners : /\ Gone(l)' <=> Gone(l)
                                /\ Left(l)' <=> Left(l)
                                /\ InLists(l)' <=> InLists(l)
    BY <1>1, <1>3, <1>4, Untouched
  <1>6. Queue'
    BY <1>1, <1>5 DEF Full, Queue
  <1>7. \A l \in Listeners : (SubIn(Seen, l)' <=> SubIn(Seen, l)) /\ (UnsubIn(Seen, l)' <=> UnsubIn(Seen, l))
    BY <1>1, <1>3 DEF SubIn, UnsubIn
  <1>8. /\ before \in [Events -> SUBSET Listeners] /\ ended \in [Events -> SUBSET Listeners]
        /\ \A x \in Events : ended[x] \subseteq Listeners /\ before[x] \subseteq Listeners
    BY DEF Full, InFlight
  <1>9. /\ before' \in [Events -> SUBSET Listeners] /\ ended' \in [Events -> SUBSET Listeners]
        /\ \A x \in Events : before'[x] \subseteq before[x] /\ ended'[x] \subseteq ended[x]
    BY <1>1, <1>2, <1>8
  <1>10. \A x \in Events : UpToDate(x) => UpToDate(x)'
    BY <1>5, <1>7, <1>8, <1>9 DEF UpToDate
  <1>11. \A i \in DOMAIN processing : processing[i] \in Events
    BY DEF DInv, Counts
  <1>12. InFlight'
    BY <1>1, <1>9, <1>10, <1>11 DEF Full, InFlight
  <1>13. Calls'
    BY <1>1 DEF Calls
  <1> QED
    BY <1>5, <1>6, <1>12, <1>13 DEF Full

(***************************************************************************)
(* The listeners of one order are called, and some of them leave.          *)
(***************************************************************************)
LEMMA CallStep ==
  ASSUME DInv, Full, CallOrder
  PROVE  Full'
  <1>1. /\ thread = "dispatch" /\ current # None /\ current.order \in Orders
        /\ UNCHANGED <<nextid, subPc, subId, unsubs, requests, mListenerRequests, mUnprocessed,
                       processing, before, ended, firePc, thread>>
    BY DEF CallOrder, clients, firing, queues
  <1>2. PICK resp \in [CurrentLists -> Responses] : callAllListeners(resp) /\ current' = NextOrder(resp)
    BY DEF CallOrder
  <1>3. PICK c : c = DOMAIN resp
    OBVIOUS
  <1>4. PICK out : out = {l \in c : Deletes(resp[l])}
    OBVIOUS
  <1>5. PICK e \in Events : e = current.ev
    BY <1>1 DEF Full, Calls
  <1>6. TableOK(mListeners) /\ EvId[current.ev].pri \in DOMAIN mListeners
    BY <1>1 DEF Full, Calls, InSync
  <1>7. /\ TableOK(mListeners') /\ DOMAIN mListeners' = DOMAIN mListeners
        /\ mRemoveById' = clearRemoveId(mRemoveById, out)
        /\ resigned' = resigned \cup out
        /\ \A k \in Listeners : ListedIn(mListeners', k) <=> ListedIn(mListeners, k) /\ k \notin out
        /\ c = {l \in Listeners : /\ ListedIn(mListeners, l) /\ Sub[l].order = current.order
                                  /\ Matches(l, current.ev)}
    BY <1>1, <1>2, <1>3, <1>4, <1>6, Called
  <1>8. c \subseteq Listeners /\ out \subseteq c
    BY <1>4, <1>7
  <1>9. Line' = Line /\ Seen' = Seen /\ Seen = <<>>
    BY <1>1 DEF Line, Seen, Full, Queue, Applying
  <1>10. \A l \in Listeners : /\ InLists(l)' <=> InLists(l) /\ l \notin out
                              /\ SubIn(Line, l)' <=> SubIn(Line, l)
                              /\ UnsubIn(Line, l)' <=> UnsubIn(Line, l)
                              /\ HasId(l)' <=> HasId(l)
    BY <1>1, <1>7, <1>9 DEF InLists, SubIn, UnsubIn, HasId
  <1>11. \A l \in Listeners : /\ Gone(l) => Gone(l)'
                              /\ Left(l) => Left(l)'
                              /\ InLists(l) => InLists(l)' \/ Left(l)'
    BY <1>1, <1>7, <1>10 DEF Gone, Left
  <1>12. Ids' /\ Queue'
    <2>1. Ids'
      BY <1>1 DEF Full, Ids, HasId
    <2>2. QueueOK(Line)'
      BY <1>1, <1>9 DEF Full, Queue, QueueOK, HasId
    <2> QED
      BY <1>1, <2>1, <2>2 DEF Full, Queue
  <1>13. InSync'
    <2> DEFINE K == {subId[l] : l \in out}
    <2>1. /\ DOMAIN mRemoveById' = DOMAIN mRemoveById \ K
          /\ \A i \in DOMAIN mRemoveById' : mRemoveById'[i] = mRemoveById[i]
          /\ mRemoveById' = [i \in DOMAIN mRemoveById' |-> mRemoveById'[i]]
      BY <1>7 DEF clearRemoveId, Drop
    <2>2. ASSUME NEW id \in DOMAIN mRemoveById'
          PROVE  /\ mRemoveById'[id] \in Listeners /\ HasId(mRemoveById[id])'
                 /\ subId'[mRemoveById'[id]] = id /\ InLists(mRemoveById[id])'
      <3>1. PICK k : k = mRemoveById[id]
        OBVIOUS
      <3>2. k = mRemoveById'[id] /\ k \in Listeners /\ HasId(k) /\ subId[k] = id /\ InLists(k)
        BY <2>1, <3>1 DEF Full, InSync
      <3>3. k \notin out
        BY <2>1, <3>2
      <3>4. HasId(k)' /\ InLists(k)'
        BY <1>10, <3>2, <3>3
      <3> QED
        BY <1>1, <3>2, <3>4 DEF HasId, InLists
    <2>3. ASSUME NEW l \in Listeners, InLists(l)', Sub[l].withId
          PROVE  subId'[l] \in DOMAIN mRemoveById' /\ mRemoveById'[subId'[l]] = l
      <3>1. InLists(l) /\ l \notin out
        BY <1>10, <2>3
      <3>2. subId[l] \in DOMAIN mRemoveById /\ mRemoveById[subId[l]] = l /\ HasId(l)
        BY <2>3, <3>1 DEF Full, InSync
      <3>3. ASSUME NEW k \in out
            PROVE  subId[k] # subId[l]
        <4>1. k \in Listeners /\ InLists(k) /\ k # l
          BY <1>7, <1>8, <3>1, <3>3 DEF InLists
        <4>2. CASE Sub[k].withId
          <5>1. HasId(k)
            BY <4>1, <4>2 DEF Full, InSync
          <5> QED
            BY <3>2, <4>1, <5>1 DEF Full, Ids
        <4>3. CASE ~Sub[k].withId
          BY <3>2, <4>1, <4>3 DEF Full, Ids, HasId, NullId
        <4> QED
          BY <4>2, <4>3
      <3> QED
        BY <1>1, <2>1, <3>2, <3>3
    <2>4. \A l \in Listeners : InLists(l)' => subPc'[l] = "done" /\ ~SubIn(Line, l)'
      BY <1>1, <1>10 DEF Full, InSync
    <2> QED
      BY <1>7, <2>1, <2>2, <2>3, <2>4 DEF InSync
  <1>14. Served'
    BY <1>1, <1>10, <1>11 DEF Full, Served
  <1>15. \A l \in Listeners : (SubIn(Seen, l)' <=> SubIn(Seen, l)) /\ (UnsubIn(Seen, l)' <=> UnsubIn(Seen, l))
    BY <1>1, <1>9 DEF SubIn, UnsubIn
  <1>16. \A x \in Events : ended[x] \subseteq Listeners /\ before[x] \subseteq Listeners
    BY DEF Full, InFlight
  <1>17. \A x \in Events : UpToDate(x) => UpToDate(x)'
    BY <1>1, <1>11, <1>15, <1>16 DEF UpToDate
  <1>18. \A i \in DOMAIN processing : processing[i] \in Events
    BY DEF DInv, Counts
  <1>19. InFlight'
    BY <1>1, <1>7, <1>8, <1>17, <1>18 DEF Full, InFlight
  <1>20. Calls'
    <2> DEFINE canceled == \E l \in c : Cancels(resp[l])
    <2>1. /\ current'.ev = e /\ current'.called = current.called \cup c
          /\ current'.order = (IF canceled THEN LATE + 1 ELSE current.order + 1)
          /\ current'.history = (IF canceled THEN "canceled"
                                 ELSE IF c = {} THEN current.history ELSE "handled")
          /\ current' = [ev |-> current'.ev, called |-> current'.called, order |-> current'.order,
                         history |-> current'.history]
      BY <1>2, <1>3, <1>5 DEF NextOrder
    <2> HIDE DEF canceled
    <2>2. /\ firePc[e] # "none" /\ UpToDate(e) /\ current.called \subseteq Listeners
          /\ current.called \cap ended[e] = {}
          /\ \A l \in current.called : Matches(l, e)
          /\ EvId[e].pri \in DOMAIN mListeners
          /\ current.history \notin {"dropped", "canceled"}
          /\ \A l \in before[e] : Matches(l, e) /\ Sub[l].order < current.order =>
                                    l \in current.called \/ Left(l)
      BY <1>1, <1>5 DEF Full, Calls
    <2>3. UpToDate(e)'
      BY <1>17, <2>2
    <2>4. UpToDate(current.ev)'
      BY <2>1, <2>3 DEF UpToDate
    <2>5. c \cap ended[e] = {}
      <3>1. \A l \in ended[e] : Gone(l)
        BY <1>9, <2>2 DEF UpToDate, UnsubIn
      <3> QED
        BY <1>7, <3>1 DEF Gone, InLists
    <2>6. \A l \in c : Matches(l, e)
      BY <1>5, <1>7
    <2>7. /\ current'.order \in 0..3
          /\ current'.order \in Orders => current'.history \notin {"dropped", "canceled"}
          /\ current'.history # "dropped"
      BY <1>1, <2>1, <2>2 DEF Orders, EARLY, MIDDLE, LATE
    <2>8. ASSUME NEW l \in before[e], Matches(l, e), Sub[l].order < current'.order,
                 current'.history # "canceled"
          PROVE  l \in current'.called \/ Left(l)'
      <3>1. l \in Listeners
        BY <1>16
      <3>2. Sub[l].order < current.order \/ Sub[l].order = current.order
        BY <1>1, <2>1, <2>8, <3>1, OrdersKnown DEF Orders, EARLY, MIDDLE, LATE
      <3>3. CASE Sub[l].order < current.order
        BY <1>11, <2>1, <2>2, <2>8, <3>1, <3>3
      <3>4. CASE Sub[l].order = current.order
        <4>1. InLists(l) \/ Left(l)
          BY <1>9, <2>2 DEF UpToDate, SubIn
        <4> QED
          BY <1>5, <1>7, <1>11, <2>1, <2>8, <3>1, <3>4, <4>1 DEF InLists
      <3> QED
        BY <3>2, <3>3, <3>4
    <2> QED
      BY <1>1, <1>7, <1>8, <2>1, <2>2, <2>4, <2>5, <2>6, <2>7, <2>8 DEF Calls
  <1> QED
    BY <1>12, <1>13, <1>14, <1>19, <1>20 DEF Full

(***************************************************************************)
(* A client pushes a request r: a first subscription, or an unsubscription *)
(* of a subscription with an id.                                           *)
(***************************************************************************)
LEMMA Asking ==
  ASSUME DInv, Full, NEW r \in Asked,
         mListenerRequests' = Append(mListenerRequests, r),
         UNCHANGED <<mListeners, mRemoveById, subId, requests, thread, mUnprocessed, processing,
                     current, before, ended, firePc, resigned>>,
         Ids',
         \A k \in Listeners : /\ subPc[k] = "done" => subPc'[k] = "done"
                              /\ HasId(k) => HasId(k)'
                              /\ unsubs[k] > 0 => unsubs'[k] > 0,
         NEW l \in Listeners, subPc'[l] = "done",
         \A k \in Listeners \ {l} : subPc'[k] = subPc[k] /\ unsubs'[k] = unsubs[k],
         \/ r.op = "sub" /\ r.l = l /\ subPc[l] # "done" /\ unsubs' = unsubs
         \/ r.op = "unsub" /\ r.id = subId[l] /\ subPc[l] = "done" /\ HasId(l) /\ unsubs'[l] > 0
  PROVE  Full'
  <1>1. Ids
    BY DEF Full
  <1>2. /\ requests \in Seq(Asked) /\ mListenerRequests \in Seq(Asked) /\ Line \in Seq(Asked)
        /\ Line' = Append(Line, r) /\ mListenerRequests' \in Seq(Asked)
    <2>1. requests \in Seq(Asked) /\ mListenerRequests \in Seq(Asked)
      BY DEF Full, Queue
    <2> QED
      BY <2>1, Lines, Pushed DEF Line
  <1>3. PICK q \in Seq(Asked) : q = Line
    BY <1>2
  <1>4. PICK n \in Nat : n = Len(q) /\ DOMAIN q = 1..n
    BY <1>3
  <1>5. /\ DOMAIN Line' = 1..(n + 1) /\ Line'[n + 1] = r /\ \A i \in 1..n : Line'[i] = q[i]
    BY <1>2, <1>3, <1>4
  <1>6. \A i \in 1..(n + 1) : i \in 1..n \/ i = n + 1
    BY <1>4
  <1>7. \A k : /\ SubIn(Line, k)' <=> SubIn(Line, k) \/ (r.op = "sub" /\ r.l = k)
               /\ UnsubIn(Line, k)' <=> UnsubIn(Line, k) \/ (r.op = "unsub" /\ r.id = subId[k])
    <2>1. \A k : /\ SubIn(Line', k) <=> SubIn(Line, k) \/ (r.op = "sub" /\ r.l = k)
                 /\ UnsubIn(Line', k) <=> UnsubIn(Line, k) \/ (r.op = "unsub" /\ r.id = subId[k])
      BY <1>2, Pushed
    <2>2. \A k : SubIn(Line', k) <=> SubIn(Line, k)'
      BY DEF SubIn
    <2>3. \A k : UnsubIn(Line', k) <=> UnsubIn(Line, k)'
      BY DEF UnsubIn
    <2> QED
      BY <2>1, <2>2, <2>3
  <1>8. \A k : (SubIn(Seen, k) => SubIn(Seen, k)') /\ (UnsubIn(Seen, k) => UnsubIn(Seen, k)')
    <2>1. CASE thread = "requests"
      <3>1. Seen = mListenerRequests /\ Seen' = Append(mListenerRequests, r)
        BY <2>1 DEF Seen
      <3>2. \A k : (SubIn(Seen, k) => SubIn(Seen', k)) /\ (UnsubIn(Seen, k) => UnsubIn(Seen', k))
        BY <1>2, <3>1, Pushed
      <3> QED
        BY <3>2 DEF SubIn, UnsubIn
    <2>2. CASE thread # "requests"
      <3>1. Seen' = Seen
        BY <2>2 DEF Seen
      <3> QED
        BY <3>1 DEF SubIn, UnsubIn
    <2> QED
      BY <2>1, <2>2
  <1>9. \A k \in Listeners : (InLists(k)' <=> InLists(k)) /\ (Left(k) => Left(k)')
    BY DEF InLists, Left
  <1>10. /\ \A i \in 1..n : q[i].op = "sub" => q[i].l \in Listeners /\ subPc[q[i].l] = "done"
         /\ \A i \in 1..n : q[i].op = "unsub" =>
              \E k \in Listeners : HasId(k) /\ subPc[k] = "done" /\ unsubs[k] > 0 /\ q[i].id = subId[k]
         /\ \A i, j \in 1..n : q[i].op = "sub" /\ q[j].op = "sub" /\ q[i].l = q[j].l => i = j
         /\ \A i, j \in 1..n :
              q[i].op = "sub" /\ q[j].op = "unsub" /\ q[j].id = subId[q[i].l] => i < j
    <2>1. QueueOK(q)
      BY <1>3 DEF Full, Queue
    <2> QED
      BY <1>4, <2>1 DEF QueueOK
  <1>11. ASSUME r.op = "sub"
         PROVE  /\ r.l = l /\ subPc[l] # "done" /\ unsubs' = unsubs /\ ~(unsubs[l] > 0) /\ ~InLists(l)
                /\ \A i \in 1..n : q[i].op = "sub" => q[i].l # l
                /\ \A i \in 1..n : q[i].op = "unsub" => q[i].id # subId[l]
    <2>1. r.l = l /\ subPc[l] # "done" /\ unsubs' = unsubs
      BY <1>11
    <2>2. ~(unsubs[l] > 0) /\ ~InLists(l)
      BY <1>1, <2>1 DEF Ids, Full, InSync
    <2>3. ASSUME NEW i \in 1..n, q[i].op = "unsub"
          PROVE  q[i].id # subId[l]
      <3>1. PICK k \in Listeners : HasId(k) /\ subPc[k] = "done" /\ q[i].id = subId[k]
        BY <1>10, <2>3
      <3>2. k # l
        BY <2>1, <3>1
      <3>3. CASE HasId(l)
        BY <1>1, <3>1, <3>2, <3>3 DEF Ids
      <3>4. CASE ~HasId(l)
        BY <1>1, <3>1, <3>4 DEF Ids, NullId
      <3> QED
        BY <3>3, <3>4
    <2> QED
      BY <1>10, <2>1, <2>2, <2>3
  <1>12. QueueOK(Line)'
    <2>1. ASSUME NEW i \in DOMAIN Line', Line'[i].op = "sub"
          PROVE  Line'[i].l \in Listeners /\ subPc'[Line'[i].l] = "done"
      BY <1>5, <1>6, <1>10, <1>11, <2>1
    <2>2. ASSUME NEW i \in DOMAIN Line', Line'[i].op = "unsub"
          PROVE  \E k \in Listeners : HasId(k)' /\ subPc'[k] = "done" /\ unsubs'[k] > 0 /\ Line'[i].id = subId'[k]
      BY <1>5, <1>6, <1>10, <2>2
    <2>3. ASSUME NEW i \in DOMAIN Line', NEW j \in DOMAIN Line', Line'[i].op = "sub", Line'[j].op = "sub",
                 Line'[i].l = Line'[j].l
          PROVE  i = j
      BY <1>5, <1>6, <1>10, <1>11, <2>3
    <2>4. ASSUME NEW i \in DOMAIN Line', NEW j \in DOMAIN Line', Line'[i].op = "sub", Line'[j].op = "unsub",
                 Line'[j].id = subId'[Line'[i].l]
          PROVE  i < j
      <3>1. CASE i \in 1..n /\ j \in 1..n
        BY <1>5, <1>10, <2>4, <3>1
      <3>2. CASE i = n + 1 /\ j \in 1..n
        BY <1>5, <1>11, <2>4, <3>2
      <3>3. CASE i \in 1..n /\ j = n + 1
        BY <3>3
      <3>4. ~(i = n + 1 /\ j = n + 1)
        BY <1>5, <2>4
      <3> QED
        BY <1>5, <1>6, <3>1, <3>2, <3>3, <3>4
    <2> QED
      BY <2>1, <2>2, <2>3, <2>4 DEF QueueOK
  <1>13. Queue'
    BY <1>2, <1>12 DEF Full, Queue
  <1>14. InSync'
    <2>1. ASSUME NEW id \in DOMAIN mRemoveById
          PROVE  /\ mRemoveById[id] \in Listeners /\ HasId(mRemoveById[id])'
                 /\ subId[mRemoveById[id]] = id /\ InLists(mRemoveById[id])'
      <3>1. PICK k \in Listeners : k = mRemoveById[id] /\ HasId(k) /\ subId[k] = id /\ InLists(k)
        BY DEF Full, InSync
      <3>2. HasId(k)' /\ InLists(k)'
        BY <1>9, <3>1
      <3> QED
        BY <3>1, <3>2 DEF HasId, InLists
    <2>2. ASSUME NEW k \in Listeners, InLists(k)'
          PROVE  /\ subPc'[k] = "done" /\ ~SubIn(Line, k)'
                 /\ Sub[k].withId => subId'[k] \in DOMAIN mRemoveById' /\ mRemoveById'[subId'[k]] = k
      BY <1>7, <1>9, <1>11, <2>2 DEF Full, InSync
    <2>3. TableOK(mListeners) /\ mRemoveById = [i \in DOMAIN mRemoveById |-> mRemoveById[i]]
      BY DEF Full, InSync
    <2> QED
      BY <2>1, <2>2, <2>3 DEF InSync
  <1>15. \A k \in Listeners : unsubs[k] > 0 => /\ Gone(k) => Gone(k)'
    BY <1>7, <1>9, <1>11 DEF Gone
  <1>16. Served'
    <2>1. ASSUME NEW k \in Listeners, unsubs'[k] > 0
          PROVE  Gone(k)' \/ UnsubIn(Line, k)'
      <3>1. CASE unsubs[k] > 0
        BY <1>7, <1>15, <3>1 DEF Full, Served
      <3>2. CASE ~(unsubs[k] > 0)
        BY <1>7, <2>1, <3>2
      <3> QED
        BY <3>1, <3>2
    <2>2. ASSUME NEW k \in Listeners, subPc'[k] = "done"
          PROVE  InLists(k)' \/ SubIn(Line, k)' \/ Left(k)'
      BY <1>7, <1>9, <2>2 DEF Full, Served
    <2> QED
      BY <2>1, <2>2 DEF Served
  <1>17. \A x \in Events : /\ ended[x] \subseteq Listeners /\ before[x] \subseteq Listeners
                           /\ \A k \in ended[x] : unsubs[k] > 0
                           /\ \A k \in before[x] : subPc[k] = "done"
    BY DEF Full, InFlight
  <1>18. \A x \in Events : UpToDate(x) => UpToDate(x)'
    BY <1>8, <1>9, <1>15, <1>17 DEF UpToDate
  <1>19. \A i \in DOMAIN processing : processing[i] \in Events
    BY DEF DInv, Counts
  <1>20. InFlight'
    BY <1>17, <1>18, <1>19 DEF Full, InFlight
  <1>21. Calls'
    <2>1. CASE current = None
      BY <2>1 DEF Calls
    <2>2. CASE current # None
      <3>1. PICK e \in Events : e = current.ev
        BY <2>2 DEF Full, Calls
      <3>2. UpToDate(e)'
        BY <1>18, <2>2, <3>1 DEF Full, Calls
      <3>3. UpToDate(current.ev)'
        BY <3>1, <3>2 DEF UpToDate
      <3>4. \A k \in before[current.ev] : k \in Listeners
        BY <1>17, <3>1
      <3> QED
        BY <1>9, <2>2, <3>3, <3>4 DEF Full, Calls
    <2> QED
      BY <2>1, <2>2
  <1> QED
    BY <1>13, <1>14, <1>16, <1>20, <1>21 DEF Full

(***************************************************************************)
(* subscribe, subscribeId and unsubscribe.                                 *)
(***************************************************************************)
LEMMA SubscribeStep ==
  ASSUME DInv, Full, NEW l \in Listeners, subscribe(l) \/ subscribeId(l)
  PROVE  Full'
  <1>1. Ids
    BY DEF Full
  <1>2. PICK r : r = [op |-> "sub", l |-> l]
    OBVIOUS
  <1>3. r \in Asked /\ r.op = "sub" /\ r.l = l
    BY <1>2 DEF Asked
  <1>4. /\ mListenerRequests' = Append(mListenerRequests, r)
        /\ UNCHANGED <<mListeners, mRemoveById, subId, requests, thread, mUnprocessed, processing,
                       current, before, ended, firePc, resigned, unsubs>>
        /\ subPc' = [subPc EXCEPT ![l] = "done"] /\ subPc[l] # "done"
    BY <1>2 DEF subscribe, subscribeId, tables, firing, worker, heard
  <1>5. \/ subPc[l] = "none" /\ ~Sub[l].withId /\ nextid' = nextid
        \/ subPc[l] = "alloc" /\ Sub[l].withId /\ nextid' = nextid + 1 /\ subId[l] = nextid
    BY <1>1 DEF subscribe, subscribeId, Ids
  <1>6. /\ subPc' \in [Listeners -> {"none", "alloc", "done"}] /\ subPc'[l] = "done"
        /\ \A k \in Listeners \ {l} : subPc'[k] = subPc[k]
    BY <1>1, <1>4 DEF Ids
  <1>7. \A k \in Listeners : HasId(k)' <=> HasId(k)
    BY <1>5, <1>6 DEF HasId
  <1>8. Ids'
    <2>1. nextid' \in Nat /\ nextid' >= nextid
      BY <1>1, <1>5 DEF Ids
    <2>2. ASSUME NEW k \in Listeners, HasId(k), subPc'[k] = "done"
          PROVE  subId[k] < nextid'
      <3>1. CASE k = l
        BY <1>1, <1>5, <2>2, <3>1 DEF Ids, HasId
      <3>2. CASE k # l
        <4>1. subId[k] < nextid /\ subId[k] \in Nat /\ nextid \in Nat
          BY <1>1, <1>6, <2>2, <3>2 DEF Ids
        <4> QED
          BY <2>1, <4>1
      <3> QED
        BY <3>1, <3>2
    <2>3. ASSUME NEW k \in Listeners, subPc'[k] = "alloc"
          PROVE  Sub[k].withId /\ subId[k] = nextid' /\ subPc[k] = "alloc"
      <3>1. k # l /\ subPc[k] = "alloc"
        BY <1>6, <2>3
      <3>2. subPc[l] = "none"
        BY <1>1, <1>5, <3>1 DEF Ids
      <3> QED
        BY <1>1, <1>5, <3>1, <3>2 DEF Ids
    <2>4. \A k \in Listeners : unsubs[k] > 0 => HasId(k) /\ subPc'[k] = "done"
      BY <1>1, <1>6 DEF Ids
    <2> QED
      BY <1>1, <1>4, <1>6, <1>7, <2>1, <2>2, <2>3, <2>4 DEF Ids
  <1> QED
    BY <1>3, <1>4, <1>6, <1>7, <1>8, Asking

LEMMA UnsubscribeStep ==
  ASSUME DInv, Full, NEW l \in Listeners, NEW n \in NotifyListener, unsubscribe(l, n)
  PROVE  Full'
  <1>1. Ids
    BY DEF Full
  <1>2. PICK r : r = [op |-> "unsub", id |-> subId[l], notify |-> n]
    OBVIOUS
  <1>3. r \in Asked /\ r.op = "unsub" /\ r.id = subId[l]
    BY <1>1, <1>2, EventAssumption DEF Asked, Ids
  <1>4. /\ mListenerRequests' = Append(mListenerRequests, r)
        /\ UNCHANGED <<mListeners, mRemoveById, subId, requests, thread, mUnprocessed, processing,
                       current, before, ended, firePc, resigned, subPc, nextid>>
        /\ unsubs' = [unsubs EXCEPT ![l] = @ + 1] /\ subPc[l] = "done" /\ Sub[l].withId
    BY <1>2 DEF unsubscribe, tables, firing, worker, heard
  <1>5. /\ unsubs' \in [Listeners -> Nat] /\ unsubs'[l] > 0
        /\ \A k \in Listeners \ {l} : unsubs'[k] = unsubs[k]
    BY <1>1, <1>4 DEF Ids
  <1>6. HasId(l) /\ \A k \in Listeners : HasId(k)' <=> HasId(k)
    BY <1>4 DEF HasId
  <1>7. Ids'
    BY <1>1, <1>4, <1>5, <1>6 DEF Ids
  <1> QED
    BY <1>3, <1>4, <1>5, <1>6, <1>7, Asking

(***************************************************************************)
(* A subscription gets its id, while no other one is about to.             *)
(***************************************************************************)
LEMMA AllocStep ==
  ASSUME ~ConcurrentAlloc, DInv, Full, NEW l \in Listeners, alloc(l)
  PROVE  Full'
  <1>1. Ids
    BY DEF Full
  <1>2. /\ UNCHANGED <<mListeners, mRemoveById, nextid, unsubs, requests, mListenerRequests, thread,
                       mUnprocessed, processing, current, before, ended, firePc, resigned>>
        /\ subPc[l] = "none" /\ Sub[l].withId /\ \A k \in Listeners : subPc[k] # "alloc"
        /\ subId' = [subId EXCEPT ![l] = nextid] /\ subPc' = [subPc EXCEPT ![l] = "alloc"]
    BY DEF alloc, tables, firing, worker, heard, queues
  <1>3. /\ subPc' \in [Listeners -> {"none", "alloc", "done"}] /\ subPc'[l] = "alloc"
        /\ subId' \in [Listeners -> Int] /\ subId'[l] = nextid
        /\ \A k \in Listeners \ {l} : subPc'[k] = subPc[k] /\ subId'[k] = subId[k]
        /\ \A k \in Listeners : subPc[k] = "done" <=> subPc'[k] = "done"
        /\ \A k \in Listeners : subPc[k] = "done" => k # l
    BY <1>1, <1>2 DEF Ids
  <1>4. HasId(l)' /\ \A k \in Listeners \ {l} : HasId(k)' <=> HasId(k)
    BY <1>2, <1>3 DEF HasId
  <1>5. Ids'
    <2>1. \A k \in Listeners \ {l} : HasId(k) => subId[k] < nextid /\ subId[k] # nextid
      BY <1>1, <1>2 DEF Ids, HasId
    <2>2. \A k \in Listeners : unsubs[k] > 0 => k # l
      BY <1>1, <1>2 DEF Ids
    <2>3. ASSUME NEW j \in Listeners, NEW k \in Listeners, HasId(j)', HasId(k)', subId'[j] = subId'[k]
          PROVE  j = k
      <3>1. CASE j = l \/ k = l
        BY <1>3, <1>4, <2>1, <2>3, <3>1
      <3>2. CASE j # l /\ k # l
        BY <1>1, <1>3, <1>4, <2>3, <3>2 DEF Ids
      <3> QED
        BY <3>1, <3>2
    <2>4. \A k \in Listeners : /\ ~HasId(k)' => subId'[k] = NullId
                               /\ HasId(k)' => subId'[k] \in Nat
                               /\ HasId(k)' /\ subPc'[k] = "done" => subId'[k] < nextid
                               /\ unsubs[k] > 0 => HasId(k)' /\ subPc'[k] = "done"
      BY <1>1, <1>3, <1>4, <2>2 DEF Ids
    <2>5. \A k \in Listeners : subPc'[k] = "alloc" => k = l
      BY <1>2, <1>3
    <2> QED
      BY <1>1, <1>2, <1>3, <2>3, <2>4, <2>5 DEF Ids
  <1>6. Line' = Line /\ Seen' = Seen
    BY <1>2 DEF Line, Seen
  <1>7. /\ \A k : (SubIn(Line, k)' <=> SubIn(Line, k)) /\ (SubIn(Seen, k)' <=> SubIn(Seen, k))
        /\ \A k \in Listeners \ {l} : /\ UnsubIn(Line, k)' <=> UnsubIn(Line, k)
                                      /\ UnsubIn(Seen, k)' <=> UnsubIn(Seen, k)
    BY <1>3, <1>6 DEF SubIn, UnsubIn
  <1>8. \A k \in Listeners : /\ InLists(k)' <=> InLists(k)
                             /\ Left(k)' <=> Left(k)
                             /\ Gone(k)' <=> Gone(k)
    BY <1>2, <1>7 DEF InLists, Left, Gone
  <1>9. QueueOK(Line)'
    <2>1. PICK q : q = Line
      OBVIOUS
    <2>2. QueueOK(q) /\ q = Line'
      BY <1>6, <2>1 DEF Full, Queue
    <2>3. \A i \in DOMAIN q : q[i].op = "sub" => /\ q[i].l \in Listeners /\ subPc'[q[i].l] = "done"
                                                 /\ subId'[q[i].l] = subId[q[i].l]
      BY <1>3, <2>2 DEF QueueOK
    <2>4. \A i \in DOMAIN q : q[i].op = "unsub" =>
            \E k \in Listeners : HasId(k)' /\ subPc'[k] = "done" /\ unsubs'[k] > 0 /\ q[i].id = subId'[k]
      BY <1>2, <1>3, <1>4, <2>2 DEF QueueOK
    <2>5. /\ \A i, j \in DOMAIN q : q[i].op = "sub" /\ q[j].op = "sub" /\ q[i].l = q[j].l => i = j
          /\ \A i, j \in DOMAIN q :
               q[i].op = "sub" /\ q[j].op = "unsub" /\ q[j].id = subId'[q[i].l] => i < j
      BY <2>2, <2>3 DEF QueueOK
    <2> QED
      BY <2>2, <2>3, <2>4, <2>5 DEF QueueOK
  <1>10. Queue'
    BY <1>2, <1>9 DEF Full, Queue
  <1>11. InSync'
    <2>1. ASSUME NEW id \in DOMAIN mRemoveById
          PROVE  /\ mRemoveById[id] \in Listeners /\ HasId(mRemoveById[id])'
                 /\ subId'[mRemoveById[id]] = id /\ InLists(mRemoveById[id])'
      <3>1. PICK k \in Listeners : k = mRemoveById[id] /\ HasId(k) /\ subId[k] = id /\ InLists(k)
        BY DEF Full, InSync
      <3>2. HasId(k)' /\ InLists(k)' /\ subId'[k] = id
        BY <1>3, <1>4, <1>8, <3>1 DEF Full, InSync
      <3> QED
        BY <1>2, <3>1, <3>2 DEF HasId, InLists
    <2>2. ASSUME NEW k \in Listeners, InLists(k)'
          PROVE  /\ subPc'[k] = "done" /\ ~SubIn(Line, k)'
                 /\ Sub[k].withId => subId'[k] \in DOMAIN mRemoveById' /\ mRemoveById'[subId'[k]] = k
      BY <1>2, <1>3, <1>7, <1>8, <2>2 DEF Full, InSync
    <2>3. TableOK(mListeners) /\ mRemoveById = [i \in DOMAIN mRemoveById |-> mRemoveById[i]]
      BY DEF Full, InSync
    <2> QED
      BY <1>2, <2>1, <2>2, <2>3 DEF InSync
  <1>12. Served'
    BY <1>1, <1>2, <1>3, <1>7, <1>8 DEF Full, Served, Ids
  <1>13. \A x \in Events : /\ ended[x] \subseteq Listeners /\ before[x] \subseteq Listeners
                           /\ \A k \in ended[x] : unsubs[k] > 0 /\ k # l
                           /\ \A k \in before[x] : subPc[k] = "done"
    BY <1>1, <1>2 DEF Full, InFlight, Ids
  <1>14. \A x \in Events : UpToDate(x) => UpToDate(x)'
    BY <1>2, <1>7, <1>8, <1>13 DEF UpToDate
  <1>15. \A i \in DOMAIN processing : processing[i] \in Events
    BY DEF DInv, Counts
  <1>16. InFlight'
    BY <1>2, <1>3, <1>13, <1>14, <1>15 DEF Full, InFlight
  <1>17. Calls'
    <2>1. CASE current = None
      BY <1>2, <2>1 DEF Calls
    <2>2. CASE current # None
      <3>1. PICK e \in Events : e = current.ev
        BY <2>2 DEF Full, Calls
      <3>2. UpToDate(e)'
        BY <1>14, <2>2, <3>1 DEF Full, Calls
      <3>3. UpToDate(current.ev)'
        BY <1>2, <3>1, <3>2 DEF UpToDate
      <3>4. \A k \in before[current.ev] : k \in Listeners
        BY <1>13, <3>1
      <3> QED
        BY <1>2, <1>8, <2>2, <3>3, <3>4 DEF Full, Calls
    <2> QED
      BY <2>1, <2>2
  <1> QED
    BY <1>5, <1>10, <1>11, <1>12, <1>16, <1>17 DEF Full

(***************************************************************************)
(* The invariant holds as long as the manager exists, when no two threads  *)
(* are inside subscribeId at once.                                         *)
(***************************************************************************)
LEMMA SubscriptionInvariant == ~ConcurrentAlloc => (Spec => []SInv)
  <1> SUFFICES ASSUME ~ConcurrentAlloc
               PROVE  Spec => []SInv
    OBVIOUS
  <1>1. Init => SInv
    <2> SUFFICES ASSUME Init
                 PROVE  Full
      BY DEF SInv
    <2>1. <<>> \in Seq(Asked) /\ DOMAIN <<>> = {} /\ <<>> \o <<>> = <<>>
      OBVIOUS
    <2>2. Line = <<>> /\ DOMAIN Line = {}
      BY <2>1 DEF Init, Line
    <2>3. Ids
      BY DEF Init, Ids, HasId, NullId
    <2>4. Queue
      BY <2>1, <2>2 DEF Init, Queue, QueueOK, Applying
    <2>5. mListeners = <<>> /\ mRemoveById = <<>> /\ DOMAIN mListeners = {} /\ DOMAIN mRemoveById = {}
      BY <2>1 DEF Init
    <2>6. \A l \in Listeners : ~InLists(l)
      BY <2>5 DEF InLists, ListedIn
    <2>7. InSync
      <3>1. TableOK(mListeners)
        BY <2>5 DEF TableOK
      <3>2. mRemoveById = [i \in DOMAIN mRemoveById |-> mRemoveById[i]]
        BY <2>5
      <3> QED
        BY <2>5, <2>6, <3>1, <3>2 DEF InSync
    <2>8. Served
      BY <2>3 DEF Init, Served
    <2>9. InFlight
      BY <2>1 DEF Init, InFlight
    <2> QED
      BY <2>3, <2>4, <2>7, <2>8, <2>9 DEF Init, Full, Calls
  <1>2. DInv /\ SInv /\ [Next]_vars => SInv'
    <2> SUFFICES ASSUME DInv, SInv, [Next]_vars, destroy' # "dead"
                 PROVE  Full'
      BY DEF SInv
    <2>1. ~DestroyEnd
      BY DEF DestroyEnd
    <2>2. destroy # "dead"
      <3>1. ~(destroy = "dead" /\ destroy' # "dead")
        BY DEF Next, Operate, InsideCall, ThreadStep, subscribe, alloc, unsubscribe, subscribeId, fire, CountEvent,
               NotifyThread, ListenerFires, LoopTop, WaitForEvent, TakeEvents, TakeRequests, ApplyRequest,
               DispatchNext, CallOrder, FinishEvent, EndRound, NotifyDestructor, DestroyBegin,
               DestroyNotify, WakeSpuriously, DestroyEnd, vars
      <3> QED
        BY <3>1
    <2>3. Full
      BY <2>2 DEF SInv
    <2>4. CASE \/ \E l \in Listeners : subscribe(l) \/ subscribeId(l) \/ alloc(l)
               \/ \E l \in Listeners, n \in NotifyListener : unsubscribe(l, n)
      BY <2>3, <2>4, SubscribeStep, UnsubscribeStep, AllocStep
    <2>5. CASE \E e \in Events : fire(e) \/ ListenerFires(e)
      BY <2>3, <2>5, FireStep
    <2>6. CASE \/ \E e \in Events : CountEvent(e) \/ NotifyThread(e)
               \/ LoopTop \/ WaitForEvent \/ EndRound \/ NotifyDestructor
               \/ DestroyBegin \/ DestroyNotify \/ WakeSpuriously \/ UNCHANGED vars
      BY <2>3, <2>6, QuietSteps
    <2>7. CASE TakeEvents \/ TakeRequests
      BY <2>3, <2>7, TakeStep
    <2>8. CASE ApplyRequest \/ DispatchNext \/ CallOrder \/ FinishEvent
      BY <2>3, <2>8, ApplyStep, DispatchStep, CallStep, FinishStep
    <2> QED
      BY <2>1, <2>4, <2>5, <2>6, <2>7, <2>8 DEF Next, Operate, InsideCall, ThreadStep
  <1> QED
    BY <1>1, <1>2, DestructorInvariant, PTL DEF Spec

(***************************************************************************)
(* An id is in mRemoveById exactly while its listener is in a list, and    *)
(* leads to it: unsubscribe never erases through a dead iterator.  Only    *)
(* the unlocked alloc() can break this.                                    *)
(***************************************************************************)
THEOREM IdsLeadToListeners == ~ConcurrentAlloc => (Spec => []RemoveMapInSync)
  <1>1. SInv => RemoveMapInSync
    <2> SUFFICES ASSUME SInv, destroy # "dead"
                 PROVE  /\ \A id \in DOMAIN mRemoveById : Listed(mRemoveById[id])
                        /\ \A l \in Listeners : Listed(l) /\ Sub[l].withId =>
                             subId[l] \in DOMAIN mRemoveById /\ mRemoveById[subId[l]] = l
      BY DEF RemoveMapInSync
    <2>1. InSync
      BY DEF SInv, Full
    <2>2. \A l : Listed(l) <=> InLists(l)
      BY DEF Listed, InLists, ListedIn
    <2> QED
      BY <2>1, <2>2 DEF InSync
  <1> QED
    BY <1>1, SubscriptionInvariant, PTL

(***************************************************************************)
(* An event finds the listeners at least as up to date as it is itself: it *)
(* reaches every listener subscribed before it was fired and none that had *)
(* been unsubscribed.                                                      *)
(***************************************************************************)
THEOREM EventsFindListeners == ~ConcurrentAlloc => (Spec => []ListenersUpToDate)
  <1>1. DInv /\ SInv => ListenersUpToDate
    <2> SUFFICES ASSUME DInv, SInv, destroy # "dead", current # None
                 PROVE  /\ current.called \cap ended[current.ev] = {}
                        /\ \A l \in current.called : Matches(l, current.ev)
                        /\ current.order \notin Orders /\ current.history # "canceled" =>
                             \A l \in before[current.ev] : Matches(l, current.ev) =>
                               l \in current.called \/ l \in resigned \/ unsubs[l] > 0
      BY DEF ListenersUpToDate
    <2>2. Full
      BY DEF SInv
    <2>3. /\ current.called \cap ended[current.ev] = {} /\ \A l \in current.called : Matches(l, current.ev)
          /\ current.order \in 0..3
          /\ current.history # "canceled" =>
               \A l \in before[current.ev] : Matches(l, current.ev) /\ Sub[l].order < current.order =>
                 l \in current.called \/ Left(l)
      BY <2>2 DEF Full, Calls
    <2>4. \A l \in before[current.ev] : l \in Listeners
      BY <2>2 DEF Full, Calls, InFlight
    <2>5. ASSUME current.order \notin Orders, NEW l \in before[current.ev]
          PROVE  Sub[l].order < current.order
      <3>1. current.order = 3
        BY <2>3, <2>5 DEF Orders, EARLY, MIDDLE, LATE
      <3>2. Sub[l].order \in 0..2
        BY <2>4, OrdersKnown
      <3> QED
        BY <3>1, <3>2
    <2> QED
      BY <2>3, <2>5 DEF Left
  <1> QED
    BY <1>1, DestructorInvariant, SubscriptionInvariant, PTL
=============================================================================
