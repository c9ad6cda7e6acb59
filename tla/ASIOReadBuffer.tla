--------------------------- MODULE ASIOReadBuffer ---------------------------
(***************************************************************************)
(* The receiving side of one TCP socket: cutting the byte stream back into *)
(* packets (libcore/src/network/ASIOReadBuffer.cpp).                       *)
(*                                                                         *)
(* A packet on the wire is its length (a uint30), its stream id (a uint30) *)
(* and its payload; the length counts the id and the payload.  The socket  *)
(* delivers the stream in pieces of any size.  Bytes go to the fixed       *)
(* mBuffer; an incomplete packet of which at least sLowWaterMark bytes are *)
(* there is moved to a chunk of its own, and the rest of it is read        *)
(* directly into that chunk.                                               *)
(*                                                                         *)
(* A byte of an integer is a number below 2 * Radix; the bytes of payloads *)
(* are larger numbers, all different.                                      *)
(***************************************************************************)
EXTENDS Integers, SequencesExt, Uint30

CONSTANTS
  sBufferLength,   \* the size of mBuffer (1440 in the code)
  sLowWaterMark,   \* (256 in the code)
  Ids,             \* the stream ids in use
  Payloads,        \* bound: the payload sizes packets may have
  MaxPackets       \* bound: packets on the stream

(***************************************************************************)
(* The code relies on the low water mark to cover both integers in front   *)
(* of a payload, and on the buffer to be larger than the mark.             *)
(***************************************************************************)
ASSUME WaterMarkAssumption ==
  /\ Ids \subseteq Nat \ {0}
  /\ Payloads \subseteq Nat
  /\ \A i \in Ids, n \in Payloads :
       LET id == Len(Serialize(i))
       IN  Len(Serialize(id + n)) + id <= sLowWaterMark
  /\ sLowWaterMark < sBufferLength

VARIABLES
  packets,      \* what the peer sends
  wire,         \* the bytes it has put on the connection so far
  consumed,     \* how many of them the socket has handed over
  mBuffer,      \* the bytes of mBuffer below mBufferPos
  mNewChunk,    \* the chunk being read into: its size and what it has
  mode,         \* which read is posted: "buffer", "chunk" or none ("deleted")
  received      \* the chunks given to receiveFullChunk

vars == <<packets, wire, consumed, mBuffer, mNewChunk, mode, received>>

-----------------------------------------------------------------------------

Packet == [id : Ids, payload : Payloads]

(***************************************************************************)
(* The bytes of a packet, as TCPStream::send puts them together.           *)
(***************************************************************************)
PayloadBytes(p) == [j \in 1..packets[p].payload |-> 100 * p + j]

PacketBytes(p) ==
  LET id == Serialize(packets[p].id)
  IN  Serialize(Len(id) + packets[p].payload) \o id \o PayloadBytes(p)

From(s, i) == SubSeq(s, i, Len(s))

NoChunk == [id |-> 0, size |-> 0, data |-> <<>>]

(***************************************************************************)
(* processPartialChunk: decode the stream id and copy the payload bytes    *)
(* received so far.  The result of unserialize is not looked at: an id     *)
(* that has not arrived completely would be 0 and take all of the bytes.   *)
(***************************************************************************)
ProcessPartialChunk(data, packetLength) ==
  LET id     == Unserialize(data)
      header == IF id.ok THEN id.size ELSE Len(data)
  IN  [id   |-> id.value,
       size |-> packetLength - header,
       data |-> From(data, header + 1)]

(***************************************************************************)
(* The loop of translateBuffer: the complete packets in the buffer, what   *)
(* is left of the buffer and the chunk it was moved to, if any.            *)
(***************************************************************************)
RECURSIVE Translate(_, _)
Translate(buf, chunks) ==
  LET length == Unserialize(buf)
      total  == length.size + length.value
      body   == From(buf, length.size + 1)
  IN  IF length.ok /\ Len(buf) >= total
      THEN Translate(From(buf, total + 1),
                     Append(chunks, ProcessPartialChunk(SubSeq(body, 1, length.value),
                                                        length.value)))
      ELSE IF length.ok /\ Len(buf) >= sLowWaterMark
      THEN [chunks |-> chunks, rest |-> <<>>,
            partial |-> ProcessPartialChunk(body, length.value)]
      ELSE [chunks |-> chunks, rest |-> buf, partial |-> NoChunk]

-----------------------------------------------------------------------------

Init ==
  /\ packets \in UNION {[1..n -> Packet] : n \in 1..MaxPackets}
  /\ wire = <<>> /\ consumed = 0
  /\ mBuffer = <<>>
  /\ mNewChunk = NoChunk
  /\ mode = "buffer"
  /\ received = <<>>

Available == Len(wire) - consumed

(***************************************************************************)
(* asioReadIntoFixedBuffer: n more bytes, then translateBuffer, which      *)
(* posts the next read.                                                    *)
(***************************************************************************)
ReadIntoFixedBuffer ==
  /\ mode = "buffer"
  /\ \E n \in 1..Min({Available, sBufferLength - Len(mBuffer)}) :
       LET t == Translate(mBuffer \o SubSeq(wire, consumed + 1, consumed + n),
                          <<>>)
       IN  /\ consumed' = consumed + n
           /\ received' = received \o t.chunks
           /\ mBuffer' = t.rest
           /\ mNewChunk' = t.partial
           /\ mode' = IF t.partial = NoChunk THEN "buffer" ELSE "chunk"
  /\ UNCHANGED <<packets, wire>>

(***************************************************************************)
(* asioReadIntoChunk: n more bytes of the chunk, handed over when full.    *)
(***************************************************************************)
ReadIntoChunk ==
  /\ mode = "chunk"
  /\ \E n \in 1..Min({Available, mNewChunk.size - Len(mNewChunk.data)}) :
       LET c == [mNewChunk EXCEPT
                   !.data = @ \o SubSeq(wire, consumed + 1, consumed + n)]
       IN  /\ consumed' = consumed + n
           /\ IF Len(c.data) >= c.size
              THEN /\ received' = Append(received, c)
                   /\ mNewChunk' = NoChunk
                   /\ mode' = "buffer"
              ELSE /\ mNewChunk' = c
                   /\ UNCHANGED <<received, mode>>
  /\ UNCHANGED <<packets, wire, mBuffer>>

(***************************************************************************)
(* The read fails (processError) or the connection is gone when it         *)
(* completes: the read buffer deletes itself and reads no more.            *)
(***************************************************************************)
ReadFails ==
  /\ mode # "deleted"
  /\ mode' = "deleted"
  /\ UNCHANGED <<packets, wire, consumed, mBuffer, mNewChunk, received>>

Read == ReadIntoFixedBuffer \/ ReadIntoChunk

-----------------------------------------------------------------------------
(* Properties *)

Expected(p) ==
  [id |-> packets[p].id, size |-> packets[p].payload, data |-> PayloadBytes(p)]

(***************************************************************************)
(* Whatever pieces the stream arrives in, the chunks handed to the         *)
(* connection are the packets sent, complete, with their stream ids and in *)
(* order.                                                                  *)
(***************************************************************************)
PacketsExact ==
  /\ Len(received) <= Len(packets)
  /\ \A i \in DOMAIN received : received[i] = Expected(i)
=============================================================================
