------------------------------ MODULE MCBuilder ------------------------------
(***************************************************************************)
(* An instance of ASIOStreamBuilder: two clients that play by the rules,   *)
(* and one that announces different numbers on its sockets.                *)
(***************************************************************************)
EXTENDS ASIOStreamBuilder

MCClients   == {"alice", "bob", "carol"}
MCOpens     == [c \in MCClients |-> CASE c = "alice" -> 2
                                      [] c = "bob" -> 2
                                      [] c = "carol" -> 3]
MCAnnounces == [c \in MCClients |-> CASE c = "alice" -> <<2, 2>>
                                      [] c = "bob" -> <<2, 2>>
                                      [] c = "carol" -> <<2, 3, 2>>]
=============================================================================
