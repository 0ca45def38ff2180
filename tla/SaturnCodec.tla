----------------------------- MODULE SaturnCodec -----------------------------
(***************************************************************************)
(* What kdtv-proto's Saturn encoder and strict decoder decide about the    *)
(* operations a zone machine emits, with the bytes left out: an operation  *)
(* is its name, a reply frame is the operation it answers, the kind of     *)
(* answer and one small value standing for the payload.                    *)
(***************************************************************************)
EXTENDS Integers

Writes == {"AllOff", "SetOutlets", "SetTemperature", "Pause", "Resume"}

Reads ==
  {"ReadFirmwareType", "ReadFirmwareVersion", "ReadSerialNumber",
   "ReadCalibration", "ReadConfiguration", "ReadOutlets", "ReadTemperature",
   "ReadFaults"}

Ops == Writes \cup Reads

\* Two pairs of writes share a control byte, so their echoes look alike.
ControlByte(op) ==
  CASE op \in {"AllOff", "SetOutlets"} -> "WRITE_OUTLET_STATES"
    [] op \in {"Pause", "Resume"}      -> "WRITE_PAUSE_STATE"
    [] OTHER                           -> op

\* Total bytes on the wire of the documented reply to an operation.
ExpectedLength(op) ==
  CASE op \in Writes                                            -> 6
    [] op = "ReadFirmwareType"                                  -> 7
    [] op \in {"ReadOutlets", "ReadTemperature", "ReadFaults"}  -> 8
    [] op = "ReadFirmwareVersion"                               -> 9
    [] op \in {"ReadConfiguration", "ReadSerialNumber"}         -> 12
    [] op = "ReadCalibration"                                   -> 14

-----------------------------------------------------------------------------

\* A payload no table explains, or for an error frame the byte 35 (WELDED).
BAD == -1

\* A read of the outlets carries how many are open; every other good payload
\* is 0.
Frames(MaxOutlets) ==
  [op : Ops, kind : {"echo", "error", "nak", "garbled"}, val : BAD..MaxOutlets]

\* An error frame is seven bytes and a NAK six, whatever was asked.
FrameLength(f) ==
  CASE f.kind = "error" -> 7
    [] f.kind = "nak"   -> 6
    [] OTHER            -> ExpectedLength(f.op)

\* decode() in strict mode, with and without a request outstanding.  The
\* checksum is checked first, then the length the outstanding operation
\* calls for, and only then the control byte.
BadChecksum(f) == f.kind = "garbled"

UnexpectedLength(f, awaiting) == FrameLength(f) # ExpectedLength(awaiting)

UnexpectedControl(f, awaiting) ==
  f.kind = "echo" /\ ControlByte(f.op) # ControlByte(awaiting)

Refused(f, awaiting) ==
  BadChecksum(f) \/ UnexpectedLength(f, awaiting) \/ UnexpectedControl(f, awaiting)

-----------------------------------------------------------------------------

\* Encoder::encode: outside a link that is operational only reads and the
\* all-off pass, and nothing that opens water passes without a grant.
Encodable(op, linkPhase, granted) ==
  /\ op \in Writes \ {"AllOff"} => linkPhase \notin {"Booting", "Discovery"}
  /\ op = "SetOutlets" => granted

=============================================================================
