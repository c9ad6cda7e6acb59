------------------------------ MODULE MCEvents ------------------------------
(***************************************************************************)
(* An instance of EventManager: a listener for all events of a type, one   *)
(* with an id for a specific event, and three events, one of which is      *)
(* fired by a listener.                                                    *)
(***************************************************************************)
EXTENDS EventManager

MCListeners == {"all", "early"}
MCSub == [l \in MCListeners |->
           IF l = "all" THEN [pri |-> "p", sec |-> AnySec, order |-> 1, withId |-> FALSE]
           ELSE [pri |-> "p", sec |-> 7, order |-> 0, withId |-> TRUE]]
MCFired == {"e1", "e2", "e3"}
MCEvId == [e \in MCFired |-> [pri |-> "p", sec |-> IF e = "e2" THEN 8 ELSE 7]]
=============================================================================
