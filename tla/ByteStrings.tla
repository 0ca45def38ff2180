----------------------------- MODULE ByteStrings -----------------------------
(***************************************************************************)
(* Sequences of bytes, and functions that go through one from the left:    *)
(* what the loops of both codecs over a slice have in common.  A step is a *)
(* value here, a function of what is left to read, so that one theorem     *)
(* unfolds every loop that is written with it.                             *)
(***************************************************************************)
EXTENDS Integers, Sequences

Byte == 0..255

\* What a string says: what its beginning says, then what the rest of it says.
LeftToRight(said, rest) ==
  LET read[s \in Seq(Byte)] == IF s = <<>> THEN <<>> ELSE said[s] \o read[rest[s]]
  IN  read

\* The longest end of a string that is one of these.
DropUntil(starts) ==
  LeftToRight([s \in Seq(Byte) |-> IF s \in starts THEN s ELSE <<>>],
              [s \in Seq(Byte) |-> IF s \in starts THEN <<>> ELSE Tail(s)])

ByteSum(bytes) ==
  LET sum[i \in 0..Len(bytes)] == IF i = 0 THEN 0 ELSE sum[i - 1] + bytes[i]
  IN  sum[Len(bytes)]

SumsToZero(bytes) == ByteSum(bytes) % 256 = 0

=============================================================================
