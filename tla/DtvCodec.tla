------------------------------ MODULE DtvCodec ------------------------------
(***************************************************************************)
(* What the DTV+ codec (kdtv-proto::dtv) lets the steam link say, and what *)
(* it reads out of what it hears.  Opcodes and states are named, and a     *)
(* setpoint is left out: no decision reads one.  DtvFraming has the bytes. *)
(***************************************************************************)

\* SteamOpKind.  Nothing in the engine sends ClearFaults.
SteamOps ==
  {"Start", "Stop", "SetTemperature", "SetDuration", "ReadStatus", "ClearFaults",
   "AddressOpportunity", "AssignAddress"}

IsWrite(op) == op \in {"Start", "Stop", "SetTemperature", "SetDuration"}
IsDiscovery(op) == op \in {"AddressOpportunity", "AssignAddress"}

\* SteamOpKind::opcode: the four writes are one command on the wire.
Opcode(op) ==
  CASE IsWrite(op)                -> "SET_DEV_PARAM"
    [] op = "ReadStatus"          -> "GET_DEV_STATUS"
    [] op = "ClearFaults"         -> "CLEAR_FAULT_FLAGS"
    [] op = "AddressOpportunity"  -> "DEV_ADDRESS_OPP"
    [] op = "AssignAddress"       -> "DEV_ASSIGN_ADDR"

\* SteamOpState: there is no third state to command.
OpStates == {"Off", "On"}

LinkPhases == {"Booting", "Discovery", "ReadyOff", "Running", "Paused", "Faulted"}

\* SteamEncoder::encode, the conditions under which it yields a frame.  The
\* discovery token is minted from the phase of the step, so it is there
\* exactly when the phase is Discovery.
SteamEncodable(op, linkPhase) ==
  /\ IsDiscovery(op) => linkPhase = "Discovery"
  /\ IsWrite(op) /\ op # "Stop" => linkPhase \notin {"Booting", "Discovery"}
  /\ op = "ClearFaults" => linkPhase \in {"ReadyOff", "Faulted"}

-----------------------------------------------------------------------------

\* SteamStateByte: what a generator may report of itself.
StateBytes == {"Off", "On", "PowerClean", "Invalid"}

Producing(state) == state \in {"On", "PowerClean"}

\* A frame off the wire: the device identity a request for an address carries,
\* or the status payload another frame carries, if it carries one; and whether
\* it goes from the adapter's address to the master.
SteamFrame(cmd, device, state, fault) ==
  [cmd |-> cmd, device |-> device, state |-> state, fault |-> fault, ours |-> TRUE]

\* The frame under somebody else's SRC or DEST.
Stray(f) == [f EXCEPT !.ours = FALSE]

Bare(cmd) == SteamFrame(cmd, "none", "none", FALSE)

\* Bytes the decoder reports as an error.
Garbled == Bare("garbled")

\* StatusCarrier::of.
StatusCarriers == {"GET_DEV_STATUS", "STATUS_UPDATE", "DEV_ACK"}

\* DecodedDtv::steam_status succeeds: from the adapter to the master, under a
\* carrier, with a payload of six bytes.  Nothing else reads SRC or DEST.
HasStatus(f) == f.ours /\ f.cmd \in StatusCarriers /\ f.state # "none"

\* DecodedDtv::requested_device_id.
AsksForAddress(f) == f.cmd = "DEV_REQUEST_ADDR" /\ f.device # "none"

Statuses ==
  {SteamFrame(c, "none", s, e) : c \in StatusCarriers, s \in StateBytes, e \in BOOLEAN}

SteamFrames ==
  {Garbled, Bare("DEV_ACK"), Bare("DEV_NAK"), Bare("ERROR")}
    \cup {SteamFrame("DEV_REQUEST_ADDR", d, "none", FALSE) : d \in {"steam", "other"}}
    \cup Statuses \cup {Stray(f) : f \in Statuses}

=============================================================================
