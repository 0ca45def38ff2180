------------------------------ MODULE DtvFraming ------------------------------
(***************************************************************************)
(* Bytes on the steam bus: how kdtv-proto::dtv stuffs and delimits a frame *)
(* and how its decoder pulls one out of a receive buffer.  There is no     *)
(* length field and no sync pair: an unescaped SOF is the only place to    *)
(* start again.  Bytes are integers 0..255.                               *)
(***************************************************************************)
EXTENDS ByteStrings

CONSTANT
  MAX_PAYLOAD     \* the longest payload, 16 in the code

SOF == 136
EOF == 85
ESC == 170
RESERVED == {SOF, EOF, ESC}

LOGICAL_OVERHEAD == 4
MAX_LOGICAL == LOGICAL_OVERHEAD + MAX_PAYLOAD
MAX_FRAME == 2 + 2 * MAX_LOGICAL

Checksum(covered) == (-ByteSum(covered)) % 256

Frame(dest, src, cmd, payload) ==
  [dest |-> dest, src |-> src, cmd |-> cmd, payload |-> payload]

\* escape_into: a reserved byte goes out behind an escape.
EscapeInto(logical) ==
  LeftToRight([s \in Seq(Byte) |-> IF s[1] \in RESERVED THEN <<ESC, s[1]>> ELSE <<s[1]>>],
              [s \in Seq(Byte) |-> Tail(s)])[logical]

\* SteamEncoder::assemble: the checksum first, the stuffing last.
Assemble(f) ==
  LET covered == <<f.dest, f.src, f.cmd>> \o f.payload
  IN  <<SOF>> \o EscapeInto(Append(covered, Checksum(covered))) \o <<EOF>>

-----------------------------------------------------------------------------

\* unescape_into: the byte after an escape is taken literally whatever it is.
\* An escape with nothing behind it yields this, which is no byte.
TRUNCATED == 256

Unescape(body) ==
  LeftToRight([s \in Seq(Byte) |-> IF s[1] # ESC THEN <<s[1]>>
                                   ELSE IF Len(s) > 1 THEN <<s[2]>> ELSE <<TRUNCATED>>],
              [s \in Seq(Byte) |-> SubSeq(s, IF s[1] = ESC THEN 3 ELSE 2, Len(s))])[body]

\* DtvRxBuffer::resync.
Resync(rx) == DropUntil({s \in Seq(Byte) : s[1] = SOF})[rx]

Rejected_ClearsTheBuffer(why, rx) == [is |-> "error", why |-> why, rx |-> <<>>]

Waiting(rx) == [is |-> "none", rx |-> rx]
Rejected(why, rx) == [is |-> "error", why |-> why, rx |-> rx]
Accepted(frame, rx) == [is |-> "frame", frame |-> frame, rx |-> rx]

\* parse_body, on the bytes between the delimiters: the outcome, and what is
\* left of the buffer behind the EOF.
ParseBody(body, rest) ==
  LET logical == Unescape(body)
      n == Len(logical)
      covered == SubSeq(logical, 1, n - 1)
  IN  IF TRUNCATED \in {logical[k] : k \in 1..n} THEN Rejected("TruncatedEscape", rest)
      ELSE IF n > MAX_LOGICAL THEN Rejected("PayloadTooLong", rest)
      ELSE IF n < LOGICAL_OVERHEAD THEN Rejected("TooShort", rest)
      ELSE IF logical[n] # Checksum(covered) THEN Rejected("BadChecksum", rest)
      ELSE Accepted(Frame(logical[1], logical[2], logical[3], SubSeq(covered, 4, n - 1)), rest)

\* The scan of decode: what stands before the first SOF or EOF that no escape
\* precedes, and the place of that byte behind the SOF the buffer starts with.
UpToDelimiter(bytes) ==
  LeftToRight([s \in Seq(Byte) |-> IF s[1] \in {SOF, EOF} THEN <<>>
                                   ELSE SubSeq(s, 1, IF s[1] = ESC /\ Len(s) > 1 THEN 2 ELSE 1)],
              [s \in Seq(Byte) |-> IF s[1] \in {SOF, EOF} THEN <<>>
                                   ELSE SubSeq(s, IF s[1] = ESC THEN 3 ELSE 2, Len(s))])[bytes]

Delimiter(rx) == 2 + Len(UpToDelimiter(Tail(rx)))
IsDelimited(rx) == Delimiter(rx) <= Len(rx) /\ Delimiter(rx) <= MAX_FRAME
From(i, rx) == SubSeq(rx, i, Len(rx))

Decode(buffer) ==
  LET rx == Resync(buffer)
      at == Delimiter(rx)
  IN  IF rx = <<>> THEN Waiting(rx)
      ELSE IF ~ IsDelimited(rx)
      THEN IF Len(rx) >= MAX_FRAME THEN Rejected("FrameOverrun", From(2, rx)) ELSE Waiting(rx)
      ELSE IF rx[at] = SOF THEN Rejected("IncompleteFrame", From(at, rx))
      ELSE ParseBody(SubSeq(rx, 2, at - 1), From(at + 1, rx))

-----------------------------------------------------------------------------

(***************************************************************************)
(* What a stream says, read as one whole: the sound frames that stand in   *)
(* it from left to right, each from an SOF to the first EOF that is not    *)
(* escaped, none longer than a frame can be.                               *)
(***************************************************************************)
Closed(s) == s[1] = SOF /\ IsDelimited(s) /\ s[Delimiter(s)] = EOF

Logical(s) == Unescape(UpToDelimiter(Tail(s)))

Sound(logical) ==
  logical \in Seq(Byte) /\ Len(logical) \in LOGICAL_OVERHEAD..MAX_LOGICAL /\ SumsToZero(logical)

FrameOf(logical) ==
  Frame(logical[1], logical[2], logical[3], SubSeq(logical, 4, Len(logical) - 1))

Reading(stream) ==
  LeftToRight(
    [s \in Seq(Byte) |->
       IF Closed(s) /\ Sound(Logical(s)) THEN <<FrameOf(Logical(s))>> ELSE <<>>],
    [s \in Seq(Byte) |->
       IF Closed(s) THEN From(Delimiter(s) + 1, s)
       ELSE IF s[1] = SOF /\ IsDelimited(s) THEN From(Delimiter(s), s)
       ELSE IF s[1] = SOF /\ Len(s) < MAX_FRAME THEN <<>>
       ELSE Tail(s)])
  [stream]

=============================================================================
