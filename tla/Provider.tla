------------------------------ MODULE Provider ------------------------------
(***************************************************************************)
(* Listeners and providers (libcore/src/util/ListenerProvider.hpp).  A     *)
(* Provider keeps its listeners in a vector and, from the second listener  *)
(* on, the position of each in a map.  notify() walks the vector from its  *)
(* end and calls each listener, and a listener that is called may add      *)
(* others, remove itself, or cause the provider to notify again.  A        *)
(* MarkovianProvider tells a new listener the last value before it is      *)
(* registered, which is a call of a listener like any other.               *)
(*                                                                         *)
(* Everything takes place in one thread; a step ends where a listener is   *)
(* called or returns.  A value stands for all the arguments of a           *)
(* notification, so that one module covers the overloads of notify() and   *)
(* MarkovianProvider1 to 6.  The hooks of Provider are empty unless        *)
(* overridden and are left out; positions count from 1.  The code does not *)
(* test whether a listener is registered already; as the map has room for  *)
(* one position of each, callers register a listener once at a time.       *)
(***************************************************************************)
EXTENDS Integers, Sequences

CONSTANTS
  Listeners,
  Values,       \* what listeners are told
  MaxDepth,     \* bound: calls of listeners inside each other
  MaxNotify,    \* bound: notifications in all
  MaxChanges    \* bound: calls of addListener and removeListener

ASSUME ProviderAssumption ==
  /\ Values # {}
  /\ MaxDepth \in Nat /\ MaxNotify \in Nat /\ MaxChanges \in Nat

VARIABLES
  mListeners,       \* the vector
  mListenerIndex,   \* the map from listeners to positions
  mA,               \* the last value
  frames,           \* the calls in progress that call a listener, the innermost last
  heard,            \* history: the last value each listener was told
  late,             \* history: registered with a value that was not the last any more
  notified, changes \* counts for the bounds

vars == <<mListeners, mListenerIndex, mA, frames, heard, late,
          notified, changes>>

-----------------------------------------------------------------------------

Registered == {mListeners[k] : k \in DOMAIN mListeners}
Idle == frames = <<>>
Top == frames[Len(frames)]

(***************************************************************************)
(* Who may make a call now: code outside the listeners, or the listener    *)
(* being called.  "Listeners may add other listeners or remove themselves, *)
(* though undefined behavior results from removing other listeners during  *)
(* the call."                                                              *)
(***************************************************************************)
MayRemove(p) == p \in Registered /\ (~Idle => p = Top.who)

(***************************************************************************)
(* A call of notify() that is telling a to the listener at position i.     *)
(* start, since, told and disturbed are history: the listeners registered  *)
(* when it began, those registered all along, those called so far, and     *)
(* whether a call further inside has removed a listener.                   *)
(***************************************************************************)
Frame(a, i) ==
  [kind |-> "notify", i |-> i, who |-> mListeners[i], a |-> a,
   start |-> Registered, since |-> Registered, told |-> <<mListeners[i]>>,
   disturbed |-> FALSE]

(***************************************************************************)
(* A call of addListener() that is telling p the last value.               *)
(***************************************************************************)
AddFrame(p) ==
  [kind |-> "add", i |-> 0, who |-> p, a |-> mA, start |-> {}, since |-> {},
   told |-> <<>>, disturbed |-> FALSE]

BeingAdded == {frames[d].who : d \in {e \in DOMAIN frames : frames[e].kind = "add"}}

Init ==
  /\ mListeners = <<>>
  /\ mListenerIndex = [l \in {} |-> 0]
  /\ mA \in Values
  /\ frames = <<>>
  /\ heard = [l \in Listeners |-> {}]
  /\ late = {}
  /\ notified = 0 /\ changes = 0

(***************************************************************************)
(* MarkovianProvider::notify, up to the call of the first listener.        *)
(***************************************************************************)
notify(a) ==
  /\ Len(frames) < MaxDepth /\ notified < MaxNotify
  /\ mA' = a
  /\ notified' = notified + 1
  /\ IF mListeners = <<>>
     THEN UNCHANGED <<frames, heard, late>>
     ELSE /\ frames' = Append(frames, Frame(a, Len(mListeners)))
          /\ heard' = [heard EXCEPT ![mListeners[Len(mListeners)]] = {a}]
          /\ late' = late \ {mListeners[Len(mListeners)]}
  /\ UNCHANGED <<mListeners, mListenerIndex, changes>>

(***************************************************************************)
(* The loop goes on to position i of the vector as it is then.             *)
(***************************************************************************)
Proceed(i, value) ==
  /\ IF i \in DOMAIN mListeners
     THEN /\ frames' = [frames EXCEPT ![Len(frames)] =
                          [Top EXCEPT !.i = i, !.who = mListeners[i],
                                      !.told = Append(Top.told, mListeners[i])]]
          /\ heard' = [heard EXCEPT ![mListeners[i]] = {value}]
          /\ late' = late \ {mListeners[i]}
     ELSE /\ frames' = SubSeq(frames, 1, Len(frames) - 1)
          /\ UNCHANGED <<heard, late>>
  /\ UNCHANGED <<mListeners, mListenerIndex, mA, notified, changes>>

(***************************************************************************)
(* Mutant: the loop stays where it is when the listener there has gone.    *)
(***************************************************************************)
ListenerReturnsStays ==
  /\ ~Idle /\ Top.kind = "notify"
  /\ Proceed(IF Top.who \in Registered THEN Top.i - 1 ELSE Top.i, mA)

(***************************************************************************)
(* Mutant: the loop goes on with its argument instead of the member.       *)
(***************************************************************************)
ListenerReturnsToArgument == ~Idle /\ Top.kind = "notify" /\ Proceed(Top.i - 1, Top.a)

(***************************************************************************)
(* The listener notify() is calling returns, and the loop calls the next   *)
(* one with the value the member has by now.                               *)
(***************************************************************************)
ListenerReturns == ~Idle /\ Top.kind = "notify" /\ Proceed(Top.i - 1, mA)

(***************************************************************************)
(* MarkovianProvider::addListener, up to the call of the new listener.     *)
(***************************************************************************)
addListener(p) ==
  /\ Len(frames) < MaxDepth /\ changes < MaxChanges
  /\ p \in Listeners \ (Registered \cup BeingAdded)
  /\ frames' = Append(frames, AddFrame(p))
  /\ heard' = [heard EXCEPT ![p] = {mA}]
  /\ changes' = changes + 1
  /\ UNCHANGED <<mListeners, mListenerIndex, mA, late, notified>>

(***************************************************************************)
(* The new listener returns, and Provider::addListener registers it.  If   *)
(* the provider notified others of another value meanwhile, the new one    *)
(* has missed it.                                                          *)
(***************************************************************************)
ProviderAddListener ==
  /\ ~Idle /\ Top.kind = "add"
  /\ LET p == Top.who IN
     /\ mListeners' = Append(mListeners, p)
     /\ mListenerIndex' =
          IF Len(mListeners) = 0
          THEN mListenerIndex
          ELSE IF Len(mListeners) = 1
          THEN [l \in DOMAIN mListenerIndex \cup {mListeners[1], p} |->
                  IF l = p THEN 2 ELSE IF l = mListeners[1] THEN 1 ELSE mListenerIndex[l]]
          ELSE [l \in DOMAIN mListenerIndex \cup {p} |->
                  IF l = p THEN Len(mListeners) + 1 ELSE mListenerIndex[l]]
     /\ late' = IF Top.a = mA THEN late \ {p} ELSE late \cup {p}
  /\ frames' = SubSeq(frames, 1, Len(frames) - 1)
  /\ UNCHANGED <<mA, heard, notified, changes>>

(***************************************************************************)
(* History: p is no longer registered all along, and the calls outside the *)
(* innermost one have lost a listener behind their backs.                  *)
(***************************************************************************)
Without(p) ==
  [k \in DOMAIN frames |->
     [frames[k] EXCEPT !.since = @ \ {p}, !.disturbed = @ \/ k < Len(frames)]]

(***************************************************************************)
(* The last listener takes the place of the one removed.                   *)
(***************************************************************************)
MoveLastTo(where) ==
  [k \in 1..(Len(mListeners) - 1) |->
     IF k = where THEN mListeners[Len(mListeners)] ELSE mListeners[k]]

(***************************************************************************)
(* Mutant: the listener that was moved keeps its old position in the map.  *)
(***************************************************************************)
removeListenerMapLate(p) ==
  /\ changes < MaxChanges
  /\ MayRemove(p)
  /\ IF Len(mListeners) > 1
     THEN /\ mListeners' = MoveLastTo(mListenerIndex[p])
          /\ mListenerIndex' = [l \in DOMAIN mListenerIndex \ {p} |-> mListenerIndex[l]]
     ELSE mListeners' = <<>> /\ mListenerIndex' = [l \in {} |-> 0]
  /\ frames' = Without(p)
  /\ changes' = changes + 1
  /\ UNCHANGED <<mA, heard, late, notified>>

(***************************************************************************)
(* Provider::removeListener.                                               *)
(***************************************************************************)
removeListener(p) ==
  /\ changes < MaxChanges
  /\ MayRemove(p)
  /\ IF Len(mListeners) > 1
     THEN LET where == mListenerIndex[p]
              last  == mListeners[Len(mListeners)]
          IN  /\ mListeners' = MoveLastTo(where)
              /\ mListenerIndex' = [l \in DOMAIN mListenerIndex \ {p} |->
                                      IF l = last THEN where ELSE mListenerIndex[l]]
     ELSE mListeners' = <<>> /\ mListenerIndex' = [l \in {} |-> 0]
  /\ frames' = Without(p)
  /\ changes' = changes + 1
  /\ UNCHANGED <<mA, heard, late, notified>>

Next ==
  \/ \E a \in Values : notify(a)
  \/ ListenerReturns
  \/ ProviderAddListener
  \/ \E p \in Listeners : addListener(p) \/ removeListener(p)

Spec == Init /\ [][Next]_vars

-----------------------------------------------------------------------------
(***************************************************************************)
(* The map leads to every listener of a vector of two or more, through any *)
(* sequence of removals, so that the assertion of removeListener holds and *)
(* the right one is removed; a shorter vector leaves no position behind    *)
(* that could be taken for another's later.                                *)
(***************************************************************************)
IndexInSync ==
  /\ \A i, j \in DOMAIN mListeners : mListeners[i] = mListeners[j] => i = j
  /\ Len(mListeners) > 1 =>
       /\ DOMAIN mListenerIndex = Registered
       /\ \A i \in DOMAIN mListeners : mListenerIndex[mListeners[i]] = i
  /\ DOMAIN mListenerIndex \subseteq Registered

(***************************************************************************)
(* "Listeners may add other listeners or remove themselves" during         *)
(* notify(): when its loop ends, every listener that was registered all    *)
(* along has been called, none has been called twice, and none that was    *)
(* added meanwhile ("new functions will not be called until the next       *)
(* notification").  This does not hold of a call around another one in     *)
(* which a listener removed itself.                                        *)
(***************************************************************************)
NotifiedOnce ==
  ~Idle /\ Top.kind = "notify" /\ ~Top.disturbed =>
    /\ \A i \in DOMAIN Top.told : Top.told[i] \in Top.start
    /\ \A i, j \in DOMAIN Top.told : Top.told[i] = Top.told[j] => i = j
    /\ Top.i - 1 \notin DOMAIN mListeners =>
         \A l \in Top.since : \E i \in DOMAIN Top.told : Top.told[i] = l

(***************************************************************************)
(* "The markovian provider recalls the last item sent to a listener and    *)
(* notifies new listeners with this value": whenever no call is in         *)
(* progress every listener knows the last value, also when notifications   *)
(* were nested, cut short by removals, or joined by new listeners.  The    *)
(* one exception: the value changed in the very call that told a listener  *)
(* the last value, before it was registered, and nothing was sent since.   *)
(***************************************************************************)
NoStaleListener == Idle => \A l \in Registered : heard[l] = {mA} \/ l \in late
=============================================================================
