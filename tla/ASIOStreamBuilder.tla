-------------------------- MODULE ASIOStreamBuilder --------------------------
(***************************************************************************)
(* The listener's end of the handshake: accepting sockets and putting the  *)
(* sockets of one client together to a connection                          *)
(* (libcore/src/network/TCPStreamListener.cpp and ASIOStreamBuilder.cpp).  *)
(*                                                                         *)
(* Each client opens several sockets and sends on each a header with the   *)
(* number of its sockets, in two decimal digits, and with its UUID.  The   *)
(* headers of all clients arrive in any order.  The builder collects the   *)
(* sockets of a UUID in sIncompleteStreams until the number announced is   *)
(* reached.                                                                *)
(***************************************************************************)
EXTENDS Integers, Sequences, FiniteSets

CONSTANTS
  Clients,      \* connecting clients; each has a UUID of its own
  Opens,        \* Opens[c]: the number of sockets c opens
  Announces,    \* Announces[c][i]: the number in the header of its i-th socket
  Refused,      \* clients whose stream gets no callbacks from the user
  MayFail       \* TRUE: a header may be broken, and accepting may fail

ASSUME BuilderAssumption ==
  /\ Opens \in [Clients -> Nat]
  /\ \A c \in Clients : Announces[c] \in [1..Opens[c] -> Nat]
  /\ Refused \subseteq Clients
  /\ MayFail \in BOOLEAN

VARIABLES
  sock,                 \* sock[c][i]: what became of each socket
  accepting,            \* an async_accept is outstanding
  sIncompleteStreams,   \* for each UUID, the number announced and the sockets
  sStaleUUIDs,          \* UUIDs of incomplete streams, one entry per socket
  built                 \* the connections constructed, in order

builderVars == <<sock, accepting, sIncompleteStreams, sStaleUUIDs, built>>

-----------------------------------------------------------------------------

SocketsOf(c) == 1..Opens[c]

(***************************************************************************)
(* copyHeader writes two decimal digits, buildStream reads them back.      *)
(***************************************************************************)
CopyHeader(n) == <<(n \div 10) % 10, n % 10>>

(***************************************************************************)
(* Mutant: the digits are read in the wrong order.                         *)
(***************************************************************************)
NumConnectionsSwapped(digits) == digits[2] * 10 + digits[1]

NumConnections(digits) == digits[1] * 10 + digits[2]

BuilderInit ==
  /\ sock = [c \in Clients |-> [i \in SocketsOf(c) |-> "connecting"]]
  /\ accepting = TRUE
  /\ sIncompleteStreams = << >>
  /\ sStaleUUIDs = <<>>
  /\ built = <<>>

(***************************************************************************)
(* handleAccept: read the header of the socket and accept the next one;    *)
(* after an error nothing is accepted any more.                            *)
(***************************************************************************)
HandleAccept(c, i) ==
  /\ accepting
  /\ sock[c][i] = "connecting"
  /\ sock' = [sock EXCEPT ![c][i] = "header"]
  /\ UNCHANGED <<accepting, sIncompleteStreams, sStaleUUIDs, built>>

AcceptFails ==
  /\ MayFail
  /\ accepting
  /\ accepting' = FALSE
  /\ UNCHANGED <<sock, sIncompleteStreams, sStaleUUIDs, built>>

(***************************************************************************)
(* buildStream with a read error or without the version string.            *)
(***************************************************************************)
BadHeader(c, i) ==
  /\ MayFail
  /\ sock[c][i] = "header"
  /\ sock' = [sock EXCEPT ![c][i] = "dropped"]
  /\ UNCHANGED <<accepting, sIncompleteStreams, sStaleUUIDs, built>>

Without(m, c) == [d \in DOMAIN m \ {c} |-> m[d]]

With(m, c, entry) ==
  [d \in DOMAIN m \cup {c} |-> IF d = c THEN entry ELSE m[d]]

(* The entry of the UUID, found or created. *)
EntryOf(c, num) ==
  IF c \in DOMAIN sIncompleteStreams THEN sIncompleteStreams[c]
  ELSE [mNumSockets |-> num, mSockets |-> <<>>]

(* A number that differs from the entry's discards the entry and its sockets. *)
Discard(c, i) ==
  /\ sIncompleteStreams' = Without(sIncompleteStreams, c)
  /\ sock' = [sock EXCEPT ![c][i] = "dropped"]
  /\ UNCHANGED <<sStaleUUIDs, built>>

(***************************************************************************)
(* A complete entry becomes a connection (CONNECTED at once, its headers   *)
(* sent); stream 1 is closed again when the user sets no callbacks.        *)
(***************************************************************************)
Complete(c, i, sockets) ==
  /\ sIncompleteStreams' = Without(sIncompleteStreams, c)
  /\ sock' = [sock EXCEPT ![c][i] = "paired"]
  /\ built' = Append(built, [client |-> c, sockets |-> sockets, open |-> c \notin Refused])
  /\ UNCHANGED sStaleUUIDs

Collect(c, i, num, sockets) ==
  /\ sIncompleteStreams' =
       With(sIncompleteStreams, c, [mNumSockets |-> num, mSockets |-> sockets])
  /\ sock' = [sock EXCEPT ![c][i] = "paired"]
  /\ sStaleUUIDs' = Append(sStaleUUIDs, c)
  /\ UNCHANGED built

(***************************************************************************)
(* Mutant: the number in later headers is not compared.                    *)
(***************************************************************************)
BuildStreamTrusting(c, i) ==
  LET num     == EntryOf(c, NumConnections(CopyHeader(Announces[c][i]))).mNumSockets
      sockets == Append(EntryOf(c, num).mSockets, i)
  IN  /\ sock[c][i] = "header"
      /\ \/ num = Len(sockets) /\ Complete(c, i, sockets)
         \/ num # Len(sockets) /\ Collect(c, i, num, sockets)
      /\ UNCHANGED accepting

(***************************************************************************)
(* buildStream: the socket joins the others of its UUID.                   *)
(***************************************************************************)
BuildStream(c, i) ==
  LET num     == NumConnections(CopyHeader(Announces[c][i]))
      entry   == EntryOf(c, num)
      sockets == Append(entry.mSockets, i)
  IN  /\ sock[c][i] = "header"
      /\ \/ num # entry.mNumSockets /\ Discard(c, i)
         \/ num = entry.mNumSockets /\ num = Len(sockets) /\ Complete(c, i, sockets)
         \/ num = entry.mNumSockets /\ num # Len(sockets) /\ Collect(c, i, num, sockets)
      /\ UNCHANGED accepting

Handler ==
  \E c \in Clients : \E i \in SocketsOf(c) : HandleAccept(c, i) \/ BuildStream(c, i)

BuilderNext ==
  \/ Handler
  \/ AcceptFails
  \/ \E c \in Clients : \E i \in SocketsOf(c) : BadHeader(c, i)

BuilderSpec == BuilderInit /\ [][BuilderNext]_builderVars

(***************************************************************************)
(* The io service runs the handlers of what has completed.                 *)
(***************************************************************************)
BuilderFairSpec == BuilderSpec /\ WF_builderVars(Handler)

-----------------------------------------------------------------------------
(* Properties *)

Honest(c) == \A i \in SocketsOf(c) : Announces[c][i] = Opens[c]

(***************************************************************************)
(* A connection is made of the sockets of one client, each once, and of as *)
(* many as their headers announce, however the headers of the clients      *)
(* interleave; and a client gets one connection, if its number of sockets  *)
(* fits into two digits.                                                   *)
(***************************************************************************)
ConnectionsWhole ==
  /\ \A b \in 1..Len(built) :
       LET s == built[b].sockets
       IN  /\ \A i, j \in 1..Len(s) : s[i] = s[j] => i = j
           /\ \A i \in 1..Len(s) :
                /\ sock[built[b].client][s[i]] = "paired"
                /\ Announces[built[b].client][s[i]] % 100 = Len(s)
  /\ \A b, d \in 1..Len(built) :
       b # d /\ Honest(built[b].client) /\ Opens[built[b].client] < 100 =>
         built[b].client # built[d].client

(***************************************************************************)
(* An honest client with fewer than 100 sockets gets its connection, other *)
(* clients' disagreeing headers notwithstanding, unless one of its headers *)
(* is broken or the listener has stopped accepting.                        *)
(***************************************************************************)
HonestServed ==
  \A c \in Clients :
    Honest(c) /\ Opens[c] \in 1..99 =>
      <>(\/ ~accepting
         \/ \E i \in SocketsOf(c) : sock[c][i] = "dropped"
         \/ \E b \in 1..Len(built) : built[b].client = c)

=============================================================================
