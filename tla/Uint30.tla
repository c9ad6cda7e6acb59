------------------------------- MODULE Uint30 -------------------------------
(***************************************************************************)
(* The variable-length integer of the wire protocol, used for stream ids   *)
(* and packet lengths (Stream::StreamID in libcore/src/network/Stream.cpp, *)
(* also known as uint30).  Below Radix a value takes one byte, below the   *)
(* square of Radix two, and otherwise four.  A byte of Radix or more says  *)
(* that another one follows.                                               *)
(***************************************************************************)
EXTENDS Integers, Sequences

CONSTANT Radix   \* 128 in the code: half the values of a byte

ASSUME RadixAssumption == Radix \in Nat /\ Radix > 1

(***************************************************************************)
(* StreamID::serialize                                                     *)
(***************************************************************************)
Serialize(n) ==
  LET high == n \div (Radix * Radix)
  IN  IF n < Radix THEN <<n>>
      ELSE IF n < Radix * Radix THEN <<(n % Radix) + Radix, n \div Radix>>
      ELSE <<(n % Radix) + Radix,
             ((n \div Radix) % Radix) + Radix,
             high % (2 * Radix),
             (high \div (2 * Radix)) % (2 * Radix)>>

NeedsMore == [ok |-> FALSE, size |-> 0, value |-> 0]

Decoded(size, value) == [ok |-> TRUE, size |-> size, value |-> value]

(***************************************************************************)
(* Mutant: the mark of the first byte of two is not taken off.             *)
(***************************************************************************)
UnserializeUnmasked(data) ==
  IF Len(data) = 0 THEN NeedsMore
  ELSE IF data[1] < Radix THEN Decoded(1, data[1])
  ELSE IF Len(data) < 2 THEN NeedsMore
  ELSE IF data[2] < Radix THEN Decoded(2, data[1] + data[2] * Radix)
  ELSE IF Len(data) < 4 THEN NeedsMore
  ELSE Decoded(4, (data[1] % Radix) + (data[2] % Radix) * Radix
                    + (data[3] + data[4] * 2 * Radix) * Radix * Radix)

(***************************************************************************)
(* StreamID::unserialize of the bytes at hand: whether they suffice, how   *)
(* many are consumed and the value.                                        *)
(***************************************************************************)
Unserialize(data) ==
  IF Len(data) = 0 THEN NeedsMore
  ELSE IF data[1] < Radix THEN Decoded(1, data[1])
  ELSE IF Len(data) < 2 THEN NeedsMore
  ELSE IF data[2] < Radix
       THEN Decoded(2, (data[1] % Radix) + data[2] * Radix)
  ELSE IF Len(data) < 4 THEN NeedsMore
  ELSE Decoded(4, (data[1] % Radix) + (data[2] % Radix) * Radix
                    + (data[3] + data[4] * 2 * Radix) * Radix * Radix)

=============================================================================
