---------------------------- MODULE EventManager ----------------------------
(***************************************************************************)
(* The event system (libcore/src/task/EventManager.cpp): any thread        *)
(* subscribes, unsubscribes and fires; these only push to two queues.  One *)
(* thread takes both queues, brings the listener tables up to date and     *)
(* calls the listeners.  With a condition variable that thread sleeps in   *)
(* sleep_processEventQueue until events are pending, and the destructor    *)
(* waits for it to leave; without one it polls.                            *)
(*                                                                         *)
(* The tables mListeners and mRemoveById belong to the processing thread:  *)
(* what a listener does when called (subscribe, unsubscribe, fire) only    *)
(* pushes to the queues.  A listener is called for an event, or a last     *)
(* time without one when it is unsubscribed with notifyListener.  One step *)
(* calls the listeners of one EventOrder, in whatever order they are in    *)
(* their lists, so that a list is a set.  Each listener is subscribed at   *)
(* most once, so that it stands for its entry (the list iterator) as well. *)
(***************************************************************************)
EXTENDS Integers, Sequences

CONSTANTS
  Listeners,        \* the subscriptions clients may make
  Sub,              \* Sub[l]: [pri, sec, order, withId]; sec = AnySec: only the primary id
  Events,           \* the events fired
  EvId,             \* EvId[e]: the event's IdPair [pri, sec]
  ByListener,       \* the events fired by a listener, in the processing thread
  AnySec,           \* no secondary id
  NotifyListener,   \* the flags unsubscribe is called with
  MaxUnsubscribe,   \* bound: unsubscribe calls per subscription
  ConcurrentAlloc   \* TRUE: threads may be inside subscribeId at the same time

ASSUME EventAssumption ==
  /\ \A l \in Listeners : Sub[l].order \in 0..2 /\ Sub[l].withId \in BOOLEAN
  /\ ByListener \subseteq Events
  /\ NotifyListener \subseteq BOOLEAN
  /\ ConcurrentAlloc \in BOOLEAN

VARIABLES
  mListeners,         \* primary id -> [first: lists, second: secondary id -> lists]
  mRemoveById,        \* subscription id -> listener entry
  nextid,             \* IncreasingSubId::nextid
  mUnprocessed,       \* queue of events
  mListenerRequests,  \* queue of subscriptions and unsubscriptions
  mPendingEvents,
  mCleanup,
  useCV,              \* the constructor's argument
  subPc, subId,       \* progress of each subscription, and the id it got
  unsubs,             \* unsubscribe calls made, per listener
  firePc,             \* progress of each fire()
  thread,             \* where the processing thread is
  requests,           \* listener requests taken from the queue
  processing,         \* events taken from the queue, not looked at yet
  current,            \* the event being dispatched, with its order, or none
  numProcessed,
  destroy,            \* where the destructor is
  misled,             \* history: what has woken the destructor too early
  fate,               \* history: what became of each event
  resigned,           \* history: listeners that answered DELETE_LISTENER
  before, ended       \* history: for an event in flight, the subscriptions and the
                      \* unsubscriptions older than it

tables  == <<mListeners, mRemoveById>>
clients == <<nextid, subPc, subId, unsubs>>
firing  == <<firePc, before, ended>>
worker  == <<requests, processing, current, numProcessed>>
heard   == <<fate, resigned>>
queues  == <<mUnprocessed, mListenerRequests>>
cv      == <<mPendingEvents, mCleanup, useCV>>
vars    == <<tables, clients, firing, worker, heard, queues, cv, thread, destroy, misled>>

-----------------------------------------------------------------------------

EARLY == 0
MIDDLE == 1
LATE  == 2
Orders == {EARLY, MIDDLE, LATE}

NullId == -1
None   == [ev |-> "none"]

(* EventResponse *)
NOP == 0
DELETE_LISTENER == 1
CANCEL_EVENT == 2
DELETE_LISTENER_AND_CANCEL_EVENT == 3
Responses == {NOP, DELETE_LISTENER, CANCEL_EVENT, DELETE_LISTENER_AND_CANCEL_EVENT}
Deletes(r) == r % 2 = 1
Cancels(r) == r >= CANCEL_EVENT

NoListeners == [o \in Orders |-> {}]
Put(f, k, v) == [x \in DOMAIN f \cup {k} |-> IF x = k THEN v ELSE f[x]]
Drop(f, K)   == [x \in DOMAIN f \ K |-> f[x]]

Matches(l, e) == Sub[l].pri = EvId[e].pri /\ Sub[l].sec \in {AnySec, EvId[e].sec}

Init ==
  /\ mListeners = << >> /\ mRemoveById = << >>
  /\ nextid = 0
  /\ mUnprocessed = <<>> /\ mListenerRequests = <<>>
  /\ mPendingEvents = 0 /\ mCleanup = FALSE
  /\ useCV \in BOOLEAN
  /\ subPc = [l \in Listeners |-> "none"]
  /\ subId = [l \in Listeners |-> NullId]
  /\ unsubs = [l \in Listeners |-> 0]
  /\ firePc = [e \in Events |-> "none"]
  /\ thread = "top" /\ requests = <<>> /\ processing = <<>> /\ current = None /\ numProcessed = 0
  /\ destroy = "alive" /\ misled = "no"
  /\ fate = [e \in Events |-> "none"]
  /\ resigned = {}
  /\ before = [e \in Events |-> {}]
  /\ ended = [e \in Events |-> {}]

-----------------------------------------------------------------------------
(* Clients.  They call nothing any more once the destructor has begun.     *)

subscribe(l) ==
  /\ destroy = "alive" /\ subPc[l] = "none" /\ ~Sub[l].withId
  /\ mListenerRequests' = Append(mListenerRequests, [op |-> "sub", l |-> l])
  /\ subPc' = [subPc EXCEPT ![l] = "done"]
  /\ UNCHANGED <<tables, nextid, subId, unsubs, firing, worker, heard, mUnprocessed, cv,
                 thread, destroy, misled>>

(***************************************************************************)
(* subscribeId: SubscriptionIdClass::alloc() is an unlocked nextid++, a    *)
(* read here and a write in subscribeId.                                   *)
(***************************************************************************)
alloc(l) ==
  /\ destroy = "alive" /\ subPc[l] = "none" /\ Sub[l].withId
  /\ ConcurrentAlloc \/ \A k \in Listeners : subPc[k] # "alloc"
  /\ subId' = [subId EXCEPT ![l] = nextid]
  /\ subPc' = [subPc EXCEPT ![l] = "alloc"]
  /\ UNCHANGED <<tables, nextid, unsubs, firing, worker, heard, queues, cv, thread,
                 destroy, misled>>

subscribeId(l) ==
  /\ subPc[l] = "alloc"
  /\ nextid' = subId[l] + 1
  /\ mListenerRequests' = Append(mListenerRequests, [op |-> "sub", l |-> l])
  /\ subPc' = [subPc EXCEPT ![l] = "done"]
  /\ UNCHANGED <<tables, subId, unsubs, firing, worker, heard, mUnprocessed, cv, thread,
                 destroy, misled>>

unsubscribe(l, notifyListener) ==
  /\ destroy = "alive" /\ subPc[l] = "done" /\ Sub[l].withId
  /\ unsubs[l] < MaxUnsubscribe
  /\ unsubs' = [unsubs EXCEPT ![l] = @ + 1]
  /\ mListenerRequests' = Append(mListenerRequests,
                                  [op |-> "unsub", id |-> subId[l], notify |-> notifyListener])
  /\ UNCHANGED <<tables, nextid, subPc, subId, firing, worker, heard, mUnprocessed, cv,
                 thread, destroy, misled>>

(* fire() pushes, *)
PushEvent(e) ==
  /\ firePc[e] = "none"
  /\ mUnprocessed' = Append(mUnprocessed, e)
  /\ before' = [before EXCEPT ![e] = {l \in Listeners : subPc[l] = "done"}]
  /\ ended'  = [ended EXCEPT ![e] = {l \in Listeners : unsubs[l] > 0}]

fire(e) ==
  /\ destroy = "alive" /\ e \notin ByListener
  /\ PushEvent(e)
  /\ firePc' = [firePc EXCEPT ![e] = "pushed"]
  /\ UNCHANGED <<tables, clients, worker, heard, mListenerRequests, cv, thread, destroy, misled>>

(* ... then counts the event and, if it is the only one, *)
CountEvent(e) ==
  /\ firePc[e] = "pushed"
  /\ mPendingEvents' = IF useCV /\ ~mCleanup THEN mPendingEvents + 1 ELSE mPendingEvents
  /\ firePc' = [firePc EXCEPT ![e] = IF useCV /\ mPendingEvents' = 1 THEN "notify" ELSE "done"]
  /\ UNCHANGED <<tables, clients, before, ended, worker, heard, queues, mCleanup, useCV,
                 thread, destroy, misled>>

(* ... takes the lock and notifies. *)
NotifyThread(e) ==
  /\ firePc[e] = "notify"
  /\ firePc' = [firePc EXCEPT ![e] = "done"]
  /\ thread' = IF thread = "waiting" THEN "wait" ELSE thread
  /\ UNCHANGED <<tables, clients, before, ended, worker, heard, queues, cv, destroy, misled>>

-----------------------------------------------------------------------------
(* The listener tables.                                                    *)

ListOf(tab, l) == IF Sub[l].sec = AnySec THEN tab[Sub[l].pri].first[Sub[l].order]
                  ELSE tab[Sub[l].pri].second[Sub[l].sec][Sub[l].order]

WithList(tab, l, list) ==
  IF Sub[l].sec = AnySec THEN [tab EXCEPT ![Sub[l].pri].first[Sub[l].order] = list]
  ELSE [tab EXCEPT ![Sub[l].pri].second[Sub[l].sec][Sub[l].order] = list]

insertPriId(tab, p) ==
  IF p \in DOMAIN tab THEN tab ELSE Put(tab, p, [first |-> NoListeners, second |-> << >>])

insertSecId(tab, p, s) ==
  IF s = AnySec \/ s \in DOMAIN tab[p].second THEN tab
  ELSE [tab EXCEPT ![p].second = Put(@, s, NoListeners)]

(* cleanUp: a secondary entry without listeners is deleted. *)
cleanUp(tab, p, s) ==
  IF s # AnySec /\ s \in DOMAIN tab[p].second /\ tab[p].second[s] = NoListeners
  THEN [tab EXCEPT ![p].second = Drop(@, {s})] ELSE tab

addListener(list, l) == list \cup {l}

(***************************************************************************)
(* doSubscribeId: an id that is already in mRemoveById keeps its entry.    *)
(***************************************************************************)
doSubscribeId(st, l) ==
  LET tab == insertSecId(insertPriId(st.tab, Sub[l].pri), Sub[l].pri, Sub[l].sec)
  IN  [tab |-> WithList(tab, l, addListener(ListOf(tab, l), l)),
       rem |-> IF subId[l] = NullId \/ subId[l] \in DOMAIN st.rem THEN st.rem
               ELSE Put(st.rem, subId[l], l)]

(* Mutant: the id stays in mRemoveById. *)
doUnsubscribeForgets(st, id) ==
  IF id \notin DOMAIN st.rem THEN st
  ELSE LET l == st.rem[id]
           tab == WithList(st.tab, l, ListOf(st.tab, l) \ {l})
       IN  [st EXCEPT !.tab = cleanUp(tab, Sub[l].pri, Sub[l].sec)]

doUnsubscribe(st, id) ==
  IF id \notin DOMAIN st.rem THEN st
  ELSE LET l == st.rem[id]
           tab == WithList(st.tab, l, ListOf(st.tab, l) \ {l})
       IN  [tab |-> cleanUp(tab, Sub[l].pri, Sub[l].sec), rem |-> Drop(st.rem, {id})]

(* clearRemoveId for every listener that asked to be deleted. *)
clearRemoveId(rem, deleted) == Drop(rem, {subId[l] : l \in deleted})

-----------------------------------------------------------------------------
(* The processing thread.                                                  *)

(* sleep_processEventQueue, or the caller that polls: one more round? *)
LoopTop ==
  /\ thread = "top"
  /\ thread' = IF ~useCV THEN "take" ELSE IF mCleanup THEN "leave" ELSE "wait"
  /\ useCV \/ destroy = "alive"
  /\ UNCHANGED <<tables, clients, firing, worker, heard, queues, cv, destroy, misled>>

(* Mutant: the thread goes to sleep without looking at mPendingEvents again. *)
WaitForEventBlindly ==
  /\ thread = "wait"
  /\ thread' = IF mCleanup THEN "take" ELSE "waiting"
  /\ UNCHANGED <<tables, clients, firing, worker, heard, queues, cv, destroy, misled>>

(* The test and the wait, under the lock. *)
WaitForEvent ==
  /\ thread = "wait"
  /\ thread' = IF mCleanup \/ mPendingEvents # 0 THEN "take" ELSE "waiting"
  /\ UNCHANGED <<tables, clients, firing, worker, heard, queues, cv, destroy, misled>>

(* temporary_processEventQueue: the events are taken first, *)
TakeEvents ==
  /\ thread = "take"
  /\ processing' = mUnprocessed /\ mUnprocessed' = <<>>
  /\ thread' = "requests"
  /\ UNCHANGED <<tables, clients, requests, firing, current, numProcessed, heard,
                 mListenerRequests, cv, destroy, misled>>

(* ... then all the listener requests, *)
TakeRequests ==
  /\ thread = "requests"
  /\ requests' = mListenerRequests /\ mListenerRequests' = <<>>
  /\ thread' = IF mListenerRequests = <<>> THEN "dispatch" ELSE "apply"
  /\ UNCHANGED <<tables, clients, firing, processing, current, numProcessed, heard,
                 mUnprocessed, cv, destroy, misled>>

(* ... which are applied in order, *)
ApplyRequest ==
  /\ thread = "apply"
  /\ LET req == Head(requests)
         old == [tab |-> mListeners, rem |-> mRemoveById]
     IN  \E st \in {IF req.op = "sub" THEN doSubscribeId(old, req.l)
                    ELSE doUnsubscribe(old, req.id)} :
           mListeners' = st.tab /\ mRemoveById' = st.rem
  /\ requests' = Tail(requests)
  /\ thread' = IF requests' = <<>> THEN "dispatch" ELSE "apply"
  /\ UNCHANGED <<clients, firing, processing, current, numProcessed, heard, queues, cv,
                 destroy, misled>>

(* ... then each event is dispatched; one without a primary entry is dropped. *)
Dispatched(e) ==
  [ev |-> e, called |-> {},
   order   |-> IF EvId[e].pri \in DOMAIN mListeners THEN EARLY ELSE LATE + 1,
   history |-> IF EvId[e].pri \in DOMAIN mListeners THEN "unhandled" ELSE "dropped"]

(* Mutant: an event stops counting as pending when it is dispatched. *)
DispatchNextUncounted ==
  /\ thread = "dispatch" /\ current = None /\ processing # <<>>
  /\ current' = Dispatched(Head(processing))
  /\ processing' = Tail(processing)
  /\ mPendingEvents' = mPendingEvents - 1
  /\ UNCHANGED <<tables, clients, requests, firing, heard, queues, numProcessed, mCleanup,
                 useCV, thread, destroy, misled>>

DispatchNext ==
  /\ thread = "dispatch" /\ current = None /\ processing # <<>>
  /\ current' = Dispatched(Head(processing))
  /\ processing' = Tail(processing)
  /\ numProcessed' = numProcessed + 1
  /\ UNCHANGED <<tables, clients, requests, firing, heard, queues, cv, thread, destroy, misled>>

(* The primary list of the current order together with the secondary one. *)
CurrentLists ==
  LET id   == EvId[current.ev]
      info == mListeners[id.pri]
  IN  info.first[current.order] \cup
        IF id.sec \in DOMAIN info.second THEN info.second[id.sec][current.order] ELSE {}

(***************************************************************************)
(* callAllListeners on both lists of the order; resp is what the listeners *)
(* return.  Those that say so are erased with their ids.                   *)
(***************************************************************************)
callAllListeners(resp) ==
  LET id      == EvId[current.ev]
      info    == mListeners[id.pri]
      deleted == {l \in DOMAIN resp : Deletes(resp[l])}
      Kept(lists) == [lists EXCEPT ![current.order] = @ \ deleted]
  IN  /\ mListeners' = [mListeners EXCEPT ![id.pri] =
            [first  |-> Kept(info.first),
             second |-> [s \in DOMAIN info.second |->
                IF s = id.sec THEN Kept(info.second[s]) ELSE info.second[s]]]]
      /\ mRemoveById' = clearRemoveId(mRemoveById, deleted)
      /\ resigned' = resigned \cup deleted

NextOrder(resp) ==
  LET canceled == \E l \in DOMAIN resp : Cancels(resp[l])
  IN  [ev      |-> current.ev,
       called  |-> current.called \cup DOMAIN resp,
       order   |-> IF canceled THEN LATE + 1 ELSE current.order + 1,
       history |-> IF canceled THEN "canceled"
                   ELSE IF DOMAIN resp = {} THEN current.history ELSE "handled"]

CallOrder ==
  /\ thread = "dispatch" /\ current # None /\ current.order \in Orders
  /\ \E resp \in [CurrentLists -> Responses] :
       /\ callAllListeners(resp)
       /\ current' = NextOrder(resp)
  /\ UNCHANGED <<clients, requests, firing, processing, numProcessed, fate, queues, cv,
                 thread, destroy, misled>>

(* After the last order: clean up, then the event's own operator(), which a *)
(* dropped event does not get.                                             *)
FinishEvent ==
  /\ thread = "dispatch" /\ current # None /\ current.order \notin Orders
  /\ mListeners' = IF current.history = "dropped" THEN mListeners
                   ELSE cleanUp(mListeners, EvId[current.ev].pri, EvId[current.ev].sec)
  /\ fate' = [fate EXCEPT ![current.ev] = IF current.history = "dropped" THEN "dropped"
                                          ELSE "done"]
  /\ before' = [before EXCEPT ![current.ev] = {}]
  /\ ended' = [ended EXCEPT ![current.ev] = {}]
  /\ current' = None
  /\ UNCHANGED <<mRemoveById, clients, requests, firePc, processing, numProcessed,
                 resigned, queues, cv, thread, destroy, misled>>

(* A listener is being called, for an event or to be unsubscribed. *)
ListenerCalled ==
  \/ /\ thread = "dispatch" /\ current # None /\ current.order \in Orders
     /\ CurrentLists # {}
  \/ /\ thread = "apply" /\ Head(requests).op = "unsub" /\ Head(requests).notify
     /\ Head(requests).id \in DOMAIN mRemoveById

(***************************************************************************)
(* A listener fires an event.  It is the thread itself that would be       *)
(* notified; but when the destructor has exchanged the condition variable  *)
(* the notification is for the destructor.                                 *)
(***************************************************************************)
ListenerFires(e) ==
  /\ ListenerCalled
  /\ e \in ByListener
  /\ PushEvent(e)
  /\ firePc' = [firePc EXCEPT ![e] = "done"]
  /\ mPendingEvents' = IF useCV /\ ~mCleanup THEN mPendingEvents + 1 ELSE mPendingEvents
  /\ thread' = IF useCV /\ ~mCleanup /\ mPendingEvents' = 1 /\ destroy = "switched"
               THEN IF thread = "apply" THEN "notifyApply" ELSE "notifyDispatch"
               ELSE thread
  /\ UNCHANGED <<tables, clients, worker, heard, mListenerRequests, mCleanup, useCV,
                 destroy, misled>>

(* Mutant: the round goes on with the events that came in meanwhile. *)
EndRoundTakesMore ==
  /\ thread = "dispatch" /\ current = None /\ processing = <<>>
  /\ mPendingEvents' = IF useCV THEN mPendingEvents - numProcessed ELSE mPendingEvents
  /\ numProcessed' = 0
  /\ processing' = mUnprocessed /\ mUnprocessed' = <<>>
  /\ thread' = IF mUnprocessed = <<>> THEN "top" ELSE "dispatch"
  /\ UNCHANGED <<tables, clients, requests, firing, current, heard, mListenerRequests,
                 mCleanup, useCV, destroy, misled>>

EndRound ==
  /\ thread = "dispatch" /\ current = None /\ processing = <<>>
  /\ mPendingEvents' = IF useCV THEN mPendingEvents - numProcessed ELSE mPendingEvents
  /\ numProcessed' = 0
  /\ thread' = "top"
  /\ UNCHANGED <<tables, clients, requests, firing, processing, current, heard, queues,
                 mCleanup, useCV, destroy, misled>>

(* The thread takes the destructor's mutex and notifies it: it is leaving, *)
(* or fire() in a listener notifies whoever waits.                         *)
NotifyDestructor ==
  /\ thread \in {"leave", "notifyApply", "notifyDispatch"} /\ destroy # "switched"
  /\ destroy' = IF destroy = "waiting" THEN "woken" ELSE destroy
  /\ misled' = IF destroy = "waiting" /\ thread = "notifyApply" THEN "unsubscribe" ELSE misled
  /\ thread' = CASE thread = "leave" -> "gone"
                 [] thread = "notifyApply" -> "apply"
                 [] thread = "notifyDispatch" -> "dispatch"
  /\ UNCHANGED <<tables, clients, firing, worker, heard, queues, cv>>

-----------------------------------------------------------------------------
(* The destructor.  No client is inside a call; a poller is between rounds. *)

DestroyBegin ==
  /\ destroy = "alive"
  /\ \A e \in Events : firePc[e] \in {"none", "done"}
  /\ \A l \in Listeners : subPc[l] # "alloc"
  /\ useCV \/ thread = "top"
  /\ destroy' = IF useCV THEN "switched" ELSE "woken"
  /\ UNCHANGED <<tables, clients, firing, worker, heard, queues, cv, thread, misled>>

(* Mutant: the event thread is not notified. *)
DestroySilently ==
  /\ destroy = "switched"
  /\ mCleanup' = TRUE
  /\ destroy' = "waiting"
  /\ UNCHANGED <<tables, clients, firing, worker, heard, queues, mPendingEvents, useCV,
                 thread, misled>>

DestroyNotify ==
  /\ destroy = "switched"
  /\ mCleanup' = TRUE
  /\ thread' = IF thread = "waiting" THEN "wait" ELSE thread
  /\ destroy' = "waiting"
  /\ UNCHANGED <<tables, clients, firing, worker, heard, queues, mPendingEvents, useCV,
                 misled>>

(* destroyCV.wait tests no condition: a spurious wake-up ends it. *)
WakeSpuriously ==
  /\ destroy = "waiting"
  /\ destroy' = "woken" /\ misled' = "spurious"
  /\ UNCHANGED <<tables, clients, firing, worker, heard, queues, cv, thread>>

DestroyEnd ==
  /\ destroy = "woken"
  /\ destroy' = "dead"
  /\ mListeners' = << >>
  /\ UNCHANGED <<mRemoveById, clients, firing, worker, heard, queues, cv, thread, misled>>

-----------------------------------------------------------------------------

ThreadStep ==
  \/ LoopTop \/ WaitForEvent \/ TakeEvents \/ TakeRequests \/ ApplyRequest
  \/ DispatchNext \/ CallOrder \/ FinishEvent \/ EndRound \/ NotifyDestructor

InsideCall ==
  \/ \E l \in Listeners : subscribeId(l)
  \/ \E e \in Events : CountEvent(e) \/ NotifyThread(e)

(* The thread that is left behind goes on with memory that was freed. *)
LeftBehind == useCV /\ destroy = "dead" /\ thread # "gone"

Operate ==
  \/ \E l \in Listeners : subscribe(l) \/ alloc(l)
  \/ \E l \in Listeners, n \in NotifyListener : unsubscribe(l, n)
  \/ \E e \in Events : fire(e) \/ ListenerFires(e)
  \/ InsideCall \/ ThreadStep
  \/ DestroyBegin \/ DestroyNotify \/ WakeSpuriously \/ DestroyEnd

Next == ~LeftBehind /\ Operate

Spec == Init /\ [][Next]_vars

(***************************************************************************)
(* Threads that run go on running: the event thread, the destructor, and   *)
(* a client that is inside a call.  Clients need not call anything.        *)
(***************************************************************************)
FairSpec == Spec /\ WF_vars(~LeftBehind /\ ThreadStep) /\ WF_vars(InsideCall)
                 /\ WF_vars(DestroyNotify \/ DestroyEnd)

-----------------------------------------------------------------------------

Listed(l) == /\ Sub[l].pri \in DOMAIN mListeners
             /\ Sub[l].sec \in DOMAIN mListeners[Sub[l].pri].second \cup {AnySec}
             /\ l \in ListOf(mListeners, l)

(***************************************************************************)
(* mRemoveById is kept in sync with the lists: a subscription with an id   *)
(* is in a list exactly while its id leads to it, so that unsubscribe      *)
(* finds it and never erases through a dead iterator.                      *)
(***************************************************************************)
RemoveMapInSync ==
  destroy # "dead" =>
    /\ \A id \in DOMAIN mRemoveById : Listed(mRemoveById[id])
    /\ \A l \in Listeners : Listed(l) /\ Sub[l].withId =>
         subId[l] \in DOMAIN mRemoveById /\ mRemoveById[subId[l]] = l

(***************************************************************************)
(* The listeners are at least as up to date as the events: a listener      *)
(* whose subscription was made before the event was fired hears it, unless *)
(* the subscription has ended or the event was canceled first; and one     *)
(* unsubscribed before the event was fired does not hear it.               *)
(***************************************************************************)
ListenersUpToDate ==
  destroy # "dead" /\ current # None =>
    LET e == current.ev
    IN  /\ current.called \cap ended[e] = {}
        /\ \A l \in current.called : Matches(l, e)
        /\ current.order \notin Orders /\ current.history # "canceled" =>
             \A l \in before[e] : Matches(l, e) =>
                l \in current.called \/ l \in resigned \/ unsubs[l] > 0

(***************************************************************************)
(* The destructor returns only after the event thread has left its loop,   *)
(* whose lock and condition variable it deletes, whatever listeners fire   *)
(* when they are called for an event.  There are two ways to mislead it: a *)
(* spurious wake-up, and a listener that fires when it is told that it is  *)
(* unsubscribed.                                                           *)
(***************************************************************************)
DestructorIsLast ==
  useCV /\ destroy \in {"woken", "dead"} /\ misled = "no" => thread = "gone"

(***************************************************************************)
(* "notify destructor that I am returning" (sleep_processEventQueue): what *)
(* wakes the destructor, if not a spurious wake-up, is the thread leaving. *)
(***************************************************************************)
WokenByReturn ==
  useCV /\ destroy \in {"woken", "dead"} /\ misled # "spurious" => thread = "gone"

(***************************************************************************)
(* Every event whose fire() has returned is looked at, unless the manager  *)
(* is destroyed first: the count in mPendingEvents, which the thread may   *)
(* take below zero before fire() adds to it, loses no wake-up.  (A fire()  *)
(* that has returned, a fate and the destruction stay as they are.)        *)
(***************************************************************************)
EventsProcessed ==
  []<>(destroy # "alive" \/ \A e \in Events : firePc[e] = "done" => fate[e] # "none")

(***************************************************************************)
(* The destructor, once begun, returns: the event thread is woken, leaves  *)
(* and notifies it.                                                        *)
(***************************************************************************)
DestructorReturns == destroy = "switched" ~> destroy = "dead"
=============================================================================
