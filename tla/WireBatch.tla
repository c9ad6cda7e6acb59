------------------------------ MODULE WireBatch ------------------------------
(***************************************************************************)
(* How the holder of the torch puts one batch of chunks on the wire        *)
(* (sendToWire and the completion handlers of                              *)
(* libcore/src/network/ASIOSocketWrapper.cpp).                             *)
(*                                                                         *)
(* A batch of one chunk is sent from the chunk itself.  Of a longer batch, *)
(* a front chunk larger than the fixed mBuffer is sent from the chunk too; *)
(* otherwise mBuffer is filled with as many bytes of the batch as fit,     *)
(* the last chunk possibly in part, and sent from there.  The socket takes *)
(* any non-zero number of the bytes it is offered, and the handler decides *)
(* again how to go on.                                                     *)
(*                                                                         *)
(* A byte is the pair <<chunk, position>>, a chunk is its index in batch.  *)
(***************************************************************************)
EXTENDS Integers, SequencesExt

CONSTANTS
  PACKET_BUFFER_SIZE,  \* the size of mBuffer (1400 in the code)
  MaxChunkSize,        \* bound: bytes in one chunk
  MaxBatch,            \* bound: chunks in the batch
  MayFail              \* TRUE: async_send may complete with an error

VARIABLES
  batch,     \* the sizes of the chunks swapped out of mSendQueue
  op,        \* the outstanding async_send, with what its handler was bound to
  mBuffer,   \* the bytes copied to the fixed buffer
  taken      \* the bytes the socket has accepted so far

vars == <<batch, op, mBuffer, taken>>

-----------------------------------------------------------------------------

Bytes(c) == [j \in 1..batch[c] |-> <<c, j>>]

(***************************************************************************)
(* The bytes of the chunks in a deque, without the first `sent` of them.   *)
(***************************************************************************)
BytesOf(deque, sent) ==
  LET all == FlattenSeq([i \in DOMAIN deque |-> Bytes(deque[i])])
  IN  SubSeq(all, sent + 1, Len(all))

(***************************************************************************)
(* async_send of a chunk, with sendLargeChunkItem as its handler.          *)
(***************************************************************************)
ChunkOp(c, sent) ==
  [kind |-> "chunk", deque |-> <<c>>, offset |-> sent,
   size |-> batch[c] - sent, current |-> 0]

(***************************************************************************)
(* async_send of the front of a deque, with sendLargeDequeItem.            *)
(***************************************************************************)
DequeOp(deque, sent) ==
  [kind |-> "deque", deque |-> deque, offset |-> sent,
   size |-> batch[Head(deque)] - sent, current |-> 0]

(***************************************************************************)
(* async_send of mBuffer from `current` on, with sendStaticBuffer: deque   *)
(* and offset are what is left for afterwards.                             *)
(***************************************************************************)
BufferOp(deque, lastChunkOffset, current, size) ==
  [kind |-> "buffer", deque |-> deque, offset |-> lastChunkOffset,
   size |-> size, current |-> current]

Idle == [kind |-> "idle", deque |-> <<>>, offset |-> 0, size |-> 0,
         current |-> 0]

Failed == [Idle EXCEPT !.kind = "failed"]

(***************************************************************************)
(* The number of chunks of the deque that fit into mBuffer completely.     *)
(***************************************************************************)
Packed(deque, sent) ==
  Max({k \in 0..Len(deque) :
         Len(BytesOf(SubSeq(deque, 1, k), sent)) <= PACKET_BUFFER_SIZE})

(***************************************************************************)
(* The copying branch of sendToWire(deque): fill mBuffer, drop the chunks  *)
(* copied completely and remember how much of the next one was copied.     *)
(***************************************************************************)
FillBuffer(deque, sent) ==
  LET k    == Packed(deque, sent)
      used == Len(BytesOf(SubSeq(deque, 1, k), sent))
      all  == BytesOf(deque, sent)
      fill == SubSeq(all, 1, Min({PACKET_BUFFER_SIZE, Len(all)}))
      part == Len(fill) - used
  IN  /\ mBuffer' = fill
      /\ op' = BufferOp(SubSeq(deque, k + 1, Len(deque)), part, 0, Len(fill))

(***************************************************************************)
(* sendToWire for a deque.  A deque of one is sent by itself.              *)
(***************************************************************************)
SendDeque(deque, sent) ==
  IF batch[Head(deque)] - sent > PACKET_BUFFER_SIZE \/ Len(deque) = 1
  THEN op' = DequeOp(deque, sent) /\ UNCHANGED mBuffer
  ELSE FillBuffer(deque, sent)

(***************************************************************************)
(* The callers' choice between the two overloads of sendToWire.            *)
(***************************************************************************)
SendRest(deque, sent) ==
  IF Len(deque) = 1
  THEN op' = ChunkOp(Head(deque), sent) /\ UNCHANGED mBuffer
  ELSE SendDeque(deque, sent)

(***************************************************************************)
(* Nothing is left of the batch: the handler calls finishAsyncSend.        *)
(***************************************************************************)
FinishAsyncSend == op' = Idle /\ UNCHANGED mBuffer

-----------------------------------------------------------------------------

Batches == UNION {[1..n -> 1..MaxChunkSize] : n \in 1..MaxBatch}

Init ==
  /\ batch \in Batches
  /\ op = [Idle EXCEPT !.kind = "start"]
  /\ mBuffer = <<>>
  /\ taken = <<>>

Start ==
  /\ op.kind = "start"
  /\ SendRest([i \in DOMAIN batch |-> i], 0)
  /\ UNCHANGED <<batch, taken>>

(***************************************************************************)
(* The bytes async_send was given, read when the socket takes them.        *)
(***************************************************************************)
Offered ==
  IF op.kind = "buffer"
  THEN SubSeq(mBuffer, op.current + 1, op.current + op.size)
  ELSE SubSeq(Bytes(Head(op.deque)), op.offset + 1, op.offset + op.size)

Take(n) ==
  /\ taken' = taken \o SubSeq(Offered, 1, n)
  /\ UNCHANGED batch

SendLargeChunkItem(n) ==
  /\ op.kind = "chunk"
  /\ Take(n)
  /\ IF n + op.offset # batch[Head(op.deque)]
     THEN op' = ChunkOp(Head(op.deque), op.offset + n) /\ UNCHANGED mBuffer
     ELSE FinishAsyncSend

(***************************************************************************)
(* Mutant: the last chunk of the deque is dropped.                         *)
(***************************************************************************)
SendLargeDequeItemShort(n) ==
  /\ op.kind = "deque"
  /\ Take(n)
  /\ IF n + op.offset # batch[Head(op.deque)]
     THEN SendDeque(op.deque, op.offset + n)
     ELSE IF Len(op.deque) <= 2
          THEN FinishAsyncSend
          ELSE SendRest(Tail(op.deque), 0)

SendLargeDequeItem(n) ==
  /\ op.kind = "deque"
  /\ Take(n)
  /\ IF n + op.offset # batch[Head(op.deque)]
     THEN SendDeque(op.deque, op.offset + n)
     ELSE IF Len(op.deque) < 2
          THEN FinishAsyncSend
          ELSE SendRest(Tail(op.deque), 0)

SendStaticBuffer(n) ==
  /\ op.kind = "buffer"
  /\ Take(n)
  /\ IF n # op.size
     THEN /\ op' = BufferOp(op.deque, op.offset, op.current + n, op.size - n)
          /\ UNCHANGED mBuffer
     ELSE IF op.deque = <<>> THEN FinishAsyncSend
                             ELSE SendRest(op.deque, op.offset)

Outstanding == op.kind \in {"chunk", "deque", "buffer"}

SendError ==
  /\ MayFail
  /\ Outstanding
  /\ op' = Failed
  /\ UNCHANGED <<batch, mBuffer, taken>>

Completed ==
  \E n \in 1..op.size :
    SendLargeChunkItem(n) \/ SendLargeDequeItem(n) \/ SendStaticBuffer(n)

Next == Start \/ Completed \/ SendError
=============================================================================
