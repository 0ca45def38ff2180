---------------------------- MODULE SaturnFraming ----------------------------
(***************************************************************************)
(* Bytes on a valve bus: how kdtv-proto::saturn delimits and sums a frame, *)
(* and how its decoder pulls one out of a receive buffer that may hold     *)
(* noise, half a frame or several.  Bytes are integers 0..255.             *)
(***************************************************************************)
EXTENDS ByteStrings

CONSTANT
  MAX_DATA_LEN    \* the longest DATA field, 14 in the code

SYNC1 == 170
SYNC2 == 85
HEADER_LEN == 5
FRAME_OVERHEAD == 6
MAX_FRAME == FRAME_OVERHEAD + MAX_DATA_LEN

RESPONSE_ERROR == 128
RESPONSE_NAK == 255

\* The two's complement of the sum of every byte before it, the sync pair
\* included.
Checksum(covered) == (-ByteSum(covered)) % 256

Frame(address, control, data) ==
  [address |-> address, control |-> control, data |-> data]

\* Encoder::assemble; a valve's replies are laid out the same way.
Assemble(f) ==
  LET covered == <<SYNC1, SYNC2, f.address, f.control, Len(f.data)>> \o f.data
  IN Append(covered, Checksum(covered))

-----------------------------------------------------------------------------

\* Expectation: the master identity the link speaks as and, during a
\* transaction, the length and control byte its reply must have.
NoRequest == [length |-> 0, control |-> 0]

ResponseTo(master, length, control) ==
  [strict |-> TRUE, master |-> master, awaiting |-> [length |-> length, control |-> control]]

Capture(master) == [strict |-> FALSE, master |-> master, awaiting |-> NoRequest]

\* RxBuffer::resync: drop what precedes the first sync pair; with none, keep a
\* last byte that may be the first half of one.
Resync(rx) ==
  DropUntil({s \in Seq(Byte) : s[1] = SYNC1 /\ (Len(s) = 1 \/ s[2] = SYNC2)})[rx]

\* What one call of decode returns, and the buffer it leaves.
Waiting(rx) == [is |-> "none", rx |-> rx]
Rejected(why, rx) == [is |-> "error", why |-> why, rx |-> rx]
Accepted(frame, rx) == [is |-> "frame", frame |-> frame, rx |-> rx]

\* A sound frame that does not answer the request: an error, but one that has
\* taken the whole frame out of the buffer.
Refused(frame, rx) == [is |-> "refused", frame |-> frame, rx |-> rx]

\* A frame that fails a check loses its sync pair and no more.
PastThePair_DropsTheHeader(rx) == SubSeq(rx, HEADER_LEN + 1, Len(rx))

PastThePair(rx) == SubSeq(rx, 3, Len(rx))

LengthOutOfRange_Never(rx) == FALSE

LengthOutOfRange(rx) == rx[5] > MAX_DATA_LEN

Unexpected(f, expect) ==
  /\ expect.awaiting # NoRequest
  /\ \/ FRAME_OVERHEAD + Len(f.data) # expect.awaiting.length
     \/ f.control \notin {RESPONSE_ERROR, RESPONSE_NAK, expect.awaiting.control}

\* The frame a string of bytes begins with, by the length in its header.
Total(rx) == FRAME_OVERHEAD + rx[5]
FrameIn(rx) == Frame(rx[3], rx[4], SubSeq(rx, HEADER_LEN + 1, Total(rx) - 1))
Behind(rx) == SubSeq(rx, Total(rx) + 1, Len(rx))

Decode(buffer, expect) ==
  LET rx == Resync(buffer)
  IN  IF Len(rx) < HEADER_LEN THEN Waiting(rx)
      ELSE IF expect.strict /\ rx[3] # expect.master
      THEN Rejected("WrongDestination", PastThePair(rx))
      ELSE IF LengthOutOfRange(rx) THEN Rejected("LengthOutOfRange", PastThePair(rx))
      ELSE IF Len(rx) < Total(rx) THEN Waiting(rx)
      ELSE IF rx[Total(rx)] # Checksum(SubSeq(rx, 1, Total(rx) - 1))
      THEN Rejected("BadChecksum", PastThePair(rx))
      ELSE IF Unexpected(FrameIn(rx), expect) THEN Refused(FrameIn(rx), Behind(rx))
      ELSE Accepted(FrameIn(rx), Behind(rx))

-----------------------------------------------------------------------------

(***************************************************************************)
(* What a stream says, read as one whole: the frames that stand in it from *)
(* left to right, each starting at the first sync pair past the one before *)
(* it that heads a sound frame, up to a header whose frame is not all here.*)
(* Which of them answer the request of the moment is no part of it.        *)
(***************************************************************************)
Heads(s) == Len(s) > 1 /\ s[1] = SYNC1 /\ s[2] = SYNC2

Plausible(s, expect) == (expect.strict => s[3] = expect.master) /\ s[5] <= MAX_DATA_LEN

Unfinished(s, expect) ==
  Heads(s) /\ (Len(s) < HEADER_LEN \/ (Plausible(s, expect) /\ Len(s) < Total(s)))

Sound(s, expect) ==
  /\ Heads(s) /\ Len(s) >= HEADER_LEN /\ Plausible(s, expect) /\ Len(s) >= Total(s)
  /\ SumsToZero(SubSeq(s, 1, Total(s)))

Reading(stream, expect) ==
  LeftToRight(
    [s \in Seq(Byte) |-> IF Sound(s, expect) THEN <<FrameIn(s)>> ELSE <<>>],
    [s \in Seq(Byte) |->
       IF Sound(s, expect) THEN Behind(s) ELSE IF Unfinished(s, expect) THEN <<>> ELSE Tail(s)])
  [stream]

=============================================================================
