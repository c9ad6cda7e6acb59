------------------------------- MODULE TCPWire -------------------------------
(***************************************************************************)
(* One direction of a connection from end to end: the packets of a batch   *)
(* are put on the wire by ASIOSocketWrapper (WireBatch), and the peer's    *)
(* ASIOReadBuffer cuts what arrives back into packets.  The sender offers  *)
(* the bytes in pieces of its own, and the receiver gets them in others.   *)
(***************************************************************************)
EXTENDS ASIOReadBuffer

CONSTANTS
  PACKET_BUFFER_SIZE, MaxChunkSize, MaxBatch, MayFail   \* see WireBatch

ASSUME WireAssumption ==
  /\ PACKET_BUFFER_SIZE \in Nat \ {0}
  /\ MayFail \in BOOLEAN

VARIABLES
  chunks,                        \* the chunks TCPStream::send has queued
  batch, op, sendBuffer, taken   \* the sender's state; sendBuffer is its mBuffer

Sender == INSTANCE WireBatch WITH mBuffer <- sendBuffer

senderVars == <<chunks, batch, op, sendBuffer, taken>>
receiverVars == <<consumed, mBuffer, mNewChunk, mode, received>>

WireInit ==
  /\ Init
  /\ chunks = [p \in DOMAIN packets |-> PacketBytes(p)]
  /\ batch = [p \in DOMAIN packets |-> Len(chunks[p])]
  /\ Sender!Init

Send ==
  /\ Sender!Next
  /\ wire' = wire \o [i \in 1..(Len(taken') - Len(taken)) |->
                        LET b == taken'[Len(taken) + i] IN chunks[b[1]][b[2]]]
  /\ UNCHANGED <<packets, chunks, receiverVars>>

Receive == (Read \/ ReadFails) /\ UNCHANGED senderVars

WireNext == Send \/ Receive

(* The io services of both sides run the handlers of what is outstanding;   *)
(* a batch takes finitely many steps.                                       *)
FairSpec ==
  /\ WireInit /\ [][WireNext]_<<vars, senderVars>>
  /\ WF_<<vars, senderVars>>(Send \/ (Read /\ UNCHANGED senderVars))

-----------------------------------------------------------------------------
(* Every packet of a batch comes out at the other end, unless a side       *)
(* fails: however the pieces fall, neither side stops in the middle        *)
(* (sendToWire and its handlers, translateBuffer, readIntoChunk).          *)
PacketsArrive ==
  <>(op.kind = "failed" \/ mode = "deleted" \/ Len(received) = Len(packets))
=============================================================================
