------------------------------- MODULE Receiver -------------------------------
(***************************************************************************)
(* The receiving half of the supervisor: a port pump's reads of at most    *)
(* CHUNK bytes, appended to a link's bounded receive buffer, out of which  *)
(* frames are decoded until one is incomplete or the turns are spent.      *)
(*                                                                         *)
(* The bytes that come are a script: frames, and pieces of noise around    *)
(* them.  Where a read ends is the operating system's choice; what request *)
(* is outstanding at a turn, and when an abandoned one has the buffer      *)
(* cleared, is the machine's, which is left open here.                     *)
(***************************************************************************)
EXTENDS ByteStrings, SequencesExt

CONSTANTS
  MAX_DATA_LEN, MAX_PAYLOAD,                  \* the longest DATA and payload
  SATURN_RX_CAPACITY, DTV_RX_CAPACITY,        \* what the two buffers hold
  CHUNK,                                      \* the most one read returns
  MAX_FRAMES_PER_CHUNK,                       \* decode calls after one read
  MASTER,                                     \* the address a valve link answers to
  AWAITINGS,                                  \* replies that may be awaited, or none
  Scripts                                     \* [protocol, pieces] a bus may say

Saturn == INSTANCE SaturnFraming
Dtv == INSTANCE DtvFraming

\* Lengths are bytes.
ASSUME LengthAssumption == MAX_DATA_LEN \in Byte /\ MAX_PAYLOAD \in Nat

\* A frame no longer than its encoder allows, or noise.
SaturnFrames ==
  [address : Byte, control : Byte, data : {d \in Seq(Byte) : Len(d) <= MAX_DATA_LEN}]
DtvFrames ==
  [dest : Byte, src : Byte, cmd : Byte, payload : {d \in Seq(Byte) : Len(d) <= MAX_PAYLOAD}]
Pieces ==
  [is : {"noise"}, bytes : Seq(Byte)]
    \cup [is : {"saturn"}, frame : SaturnFrames] \cup [is : {"dtv"}, frame : DtvFrames]

ASSUME ScriptAssumption ==
  /\ Scripts \subseteq [protocol : {"saturn", "dtv"}, pieces : Seq(Pieces)]
  /\ MASTER \in Byte
  /\ AWAITINGS \subseteq [length : Nat, control : Byte] /\ Saturn!NoRequest \in AWAITINGS

ASSUME BufferAssumption ==
  /\ SATURN_RX_CAPACITY \in Nat /\ SATURN_RX_CAPACITY >= Saturn!MAX_FRAME
  /\ DTV_RX_CAPACITY \in Nat /\ DTV_RX_CAPACITY >= Dtv!MAX_FRAME
  /\ CHUNK \in Nat \ {0}
  /\ MAX_FRAMES_PER_CHUNK \in Nat \ {0}

VARIABLES
  script,       \* what the bus says
  stream,       \* the same, as bytes
  received,     \* how many of its bytes have been read
  rx,           \* the receive buffer of the link
  overflowed,   \* bytes the buffer dropped for want of room
  since,        \* how many had been when the buffer was last cleared
  found,        \* the frames taken out of it since then, in order: handed to
                \* the machine, or refused as no answer to its request
  turns         \* decode calls that returned something after the last read

vars == <<script, stream, received, rx, overflowed, since, found, turns>>

\* A piece is noise, or the bytes of one frame.
Bytes(piece) ==
  CASE piece.is = "noise"  -> piece.bytes
    [] piece.is = "saturn" -> Saturn!Assemble(piece.frame)
    [] piece.is = "dtv"    -> Dtv!Assemble(piece.frame)

Capacity == IF script.protocol = "saturn" THEN SATURN_RX_CAPACITY ELSE DTV_RX_CAPACITY
LongestFrame == IF script.protocol = "saturn" THEN Saturn!MAX_FRAME ELSE Dtv!MAX_FRAME

\* ZoneLink::expectation: what the machine's request is answered by, and with
\* nothing in flight any frame for this master.
Expectation(awaiting) == Saturn!ResponseTo(MASTER, awaiting.length, awaiting.control)
Listening == Expectation(Saturn!NoRequest)

Decode(buffer, awaiting) ==
  IF script.protocol = "saturn"
  THEN Saturn!Decode(buffer, Expectation(awaiting)) ELSE Dtv!Decode(buffer)

Reading(s) ==
  IF script.protocol = "saturn" THEN Saturn!Reading(s, Listening) ELSE Dtv!Reading(s)

Init ==
  /\ script \in Scripts
  /\ stream = FlattenSeq([i \in 1..Len(script.pieces) |-> Bytes(script.pieces[i])])
  /\ received = 0 /\ rx = <<>> /\ overflowed = 0 /\ since = 0
  /\ found = <<>> /\ turns = 0

-----------------------------------------------------------------------------

\* RxBuffer::extend: the oldest bytes go.
Extend(buffer, bytes) ==
  LET all == buffer \o bytes
      excess == IF Len(all) > Capacity THEN Len(all) - Capacity ELSE 0
  IN  [rx |-> SubSeq(all, excess + 1, Len(all)), dropped |-> excess]

\* One turn of the loop of feed_zone_bytes and feed_steam_bytes.
Turn(at, awaiting) ==
  LET d == Decode(at.rx, awaiting)
  IN  IF at.waits THEN at
      ELSE [rx    |-> d.rx,
            found |-> IF d.is \in {"frame", "refused"} THEN Append(at.found, d.frame)
                      ELSE at.found,
            turns |-> IF d.is = "none" THEN at.turns ELSE at.turns + 1,
            waits |-> d.is = "none"]

\* What each turn of a drain may find awaited: a frame handed over, or an error,
\* can make the machine give up a request or send another.  The steam decoder is
\* not told.
Awaited ==
  [1..MAX_FRAMES_PER_CHUNK -> IF script.protocol = "saturn" THEN AWAITINGS ELSE {Saturn!NoRequest}]

Drained_Once(buffer, awaited) ==
  LET d == Decode(buffer, awaited[1])
  IN  [rx |-> d.rx, turns |-> IF d.is = "none" THEN 0 ELSE 1,
       found |-> IF d.is \in {"frame", "refused"} THEN Append(found, d.frame) ELSE found]

Drained(buffer, awaited) ==
  LET loop[turn \in 0..MAX_FRAMES_PER_CHUNK] ==
        IF turn = 0 THEN [rx |-> buffer, found |-> found, turns |-> 0, waits |-> FALSE]
        ELSE Turn(loop[turn - 1], awaited[turn])
  IN  loop[MAX_FRAMES_PER_CHUNK]

\* One read of n bytes, and everything the supervisor does with them.
Feed(n) ==
  LET extended == Extend(rx, SubSeq(stream, received + 1, received + n))
  IN  /\ received + n <= Len(stream)
      /\ received' = received + n
      /\ \E awaited \in Awaited :
           LET decoded == Drained(extended.rx, awaited)
           IN  /\ rx' = decoded.rx
               /\ found' = decoded.found
               /\ turns' = decoded.turns
      /\ overflowed' = overflowed + extended.dropped
      /\ UNCHANGED <<script, stream, since>>

\* A transmission in place of one still outstanding: what the buffer holds can
\* only have been addressed to the one given up.  In the middle of a drain it
\* ends the drain, as it does behind it.
Clear ==
  /\ rx # <<>>
  /\ rx' = <<>> /\ found' = <<>> /\ turns' = 0
  /\ since' = received
  /\ UNCHANGED <<script, stream, received, overflowed>>

Next == (\E n \in 1..CHUNK : Feed(n)) \/ Clear

Spec == Init /\ [][Next]_vars

-----------------------------------------------------------------------------

\* Shapes and bounds of the receiver's state: the buffer is within its capacity,
\* and what it dropped, what it holds and the frames taken out of it are together
\* no longer than what was read.
TypeOK ==
  /\ script.protocol \in {"saturn", "dtv"}
  /\ received \in 0..Len(stream) /\ since \in 0..received
  /\ Len(rx) \in 0..Capacity
  /\ Saturn!FRAME_OVERHEAD * Len(found) + Len(rx) + overflowed <= received
  /\ turns \in 0..MAX_FRAMES_PER_CHUNK

\* Where the reads fall makes no difference, nor what is awaited at which turn:
\* as long as nothing was dropped, the frames taken out since the buffer was last
\* cleared and those still to be read out of it are the frames of the bytes
\* received since, read as one whole (decode: "advances past exactly enough
\* bytes that a later valid frame is still found").
ChunkingDoesNotMatter ==
  overflowed = 0 =>
    found \o Reading(rx) = Reading(SubSeq(stream, since + 1, received))

\* A whole frame waits in the buffer only when frames and rejections before it
\* used up the turns of the last read (MAX_FRAMES_PER_CHUNK): a reply is not held
\* back until the bytes of the next one arrive.
NothingWholeIsLeft == Reading(rx) # <<>> => turns = MAX_FRAMES_PER_CHUNK

\* The buffer drops bytes only after a read too long to fit behind the one
\* incomplete frame the decoder may be holding, or when frames and rejections used
\* up the turns of the read before (RX_CAPACITY against port.rs CHUNK).
SpaceForAFrame == Capacity - LongestFrame + 1
DropsNeedABurst ==
  [][overflowed' > overflowed =>
       received' - received > SpaceForAFrame \/ turns = MAX_FRAMES_PER_CHUNK]_vars

\* On the steam bus noise costs at most one frame: of two frames on end, read
\* without a clear, the second is found whatever came before them (an escape left
\* hanging swallows the first one's SOF, never the second's).
NoiseCostsOneFrame ==
  LET n == Len(script.pieces)
  IN  /\ script.protocol = "dtv" /\ overflowed = 0 /\ turns < MAX_FRAMES_PER_CHUNK
      /\ received = Len(stream) /\ since = 0
      /\ n >= 2 /\ script.pieces[n].is = "dtv" /\ script.pieces[n - 1].is = "dtv"
      => found # <<>> /\ found[Len(found)] = script.pieces[n].frame

=============================================================================
