------------------------------ MODULE SaturnWire ------------------------------
(***************************************************************************)
(* The bytes behind SaturnCodec's names: every operation of the allowlist  *)
(* with its control byte, payload, destination and the length of the reply *)
(* it expects, the whole of Encoder::encode's refusals, and the directions *)
(* a frame's address and control byte are read by.  An optional value is a *)
(* set of at most one element.  Checksums and framing are SaturnFraming's. *)
(***************************************************************************)
EXTENDS SaturnCodec, Outlets

AddressOps == {"AddressEnquiry", "AddressAllocate", "AddressClear"}

\* SaturnOpKind::ALL: SaturnCodec has the thirteen that a zone machine sends.
AllOps ==
  Ops \cup {"ReadFlow", "ReadGenericOutlets", "ReadExtendedStatus", "ReadDiagnostics"}
      \cup AddressOps

OpcodeOf(op) ==
  CASE op \in {"AllOff", "SetOutlets"} -> 135
    [] op = "SetTemperature"           -> 139
    [] op \in {"Pause", "Resume"}      -> 153
    [] op = "ReadFirmwareVersion"      -> 1
    [] op = "ReadFirmwareType"         -> 2
    [] op = "ReadOutlets"              -> 7
    [] op = "ReadTemperature"          -> 11
    [] op = "ReadFlow"                 -> 12
    [] op = "ReadFaults"               -> 15
    [] op = "ReadCalibration"          -> 16
    [] op = "ReadSerialNumber"         -> 17
    [] op = "ReadConfiguration"        -> 21
    [] op = "ReadGenericOutlets"       -> 22
    [] op = "ReadExtendedStatus"       -> 64
    [] op = "ReadDiagnostics"          -> 84
    [] op \in AddressOps               -> 58

\* denied_control_bytes: firmware, flow, configuration, generic outlets,
\* extended control and calibration writes, and the three system commands.
DENIED == {129, 130, 140, 149, 161, 164, 192, 244, 246, 247}

\* MasterControl::of: what has a name when it travels to a valve.
DocumentedCommands == {OpcodeOf(op) : op \in AllOps} \cup DENIED

\* expected_response_len
ReplyLength(op) ==
  CASE op \in Writes \cup {"AddressAllocate"}                              -> {6}
    [] op = "ReadFirmwareType"                                             -> {7}
    [] op \in {"ReadOutlets", "ReadTemperature", "ReadFlow", "ReadFaults"} -> {8}
    [] op = "ReadFirmwareVersion"                                          -> {9}
    [] op = "ReadDiagnostics"                                              -> {10}
    [] op = "AddressEnquiry"                                               -> {11}
    [] op \in {"ReadConfiguration", "ReadSerialNumber"}                    -> {12}
    [] op \in {"ReadCalibration", "ReadExtendedStatus"}                    -> {14}
    [] op = "ReadGenericOutlets"                                           -> {17}
    [] op = "AddressClear"                                                 -> {}

-----------------------------------------------------------------------------

\* ValveControl::of: what a control byte means when a valve sends it.
ValveReading(byte) ==
  CASE byte = 128 -> "Error"
    [] byte = 255 -> "Nak"
    [] OTHER      -> "Echo"

\* FirmwareType::of and ValveType::from_firmware: the family a byte names.
ValveTypeOf(byte) ==
  CASE byte = 6   -> {"Dtv6Port"}
    [] byte = 23  -> {"Prompt2Port"}
    [] byte = 30  -> {"Prompt3Port"}
    [] byte = 255 -> {"Prompt3FlowControl"}
    [] OTHER      -> {}

VALVE_ADDRESSES == 3 .. 7
BROADCAST == 15

\* MasterAddr::byte
MasterByte(master) == IF master = "Dtv" THEN 0 ELSE 16

\* Direction::infer: the address of a frame is its destination.
Direction(address, master) ==
  CASE address = MasterByte(master)                       -> "ValveToMaster"
    [] address \in VALVE_ADDRESSES \cup {BROADCAST}       -> "MasterToValve"
    [] OTHER                                              -> "Indeterminate"

-----------------------------------------------------------------------------

\* PrimaryFlags::UNDEFINED_BITS, as bit positions: a flag byte is the set of
\* the bits that are set.
UNDEFINED_FLAGS == {3, 4, 7}

\* The data an operation carries.  args has the outlet mask, the flags, the
\* setpoint and the address of the operations that take one.
Data(op, args) ==
  CASE op = "AllOff"          -> <<0, 0>>
    [] op = "SetOutlets"      -> <<args.mask, args.flags>>
    [] op = "SetTemperature"  -> <<args.setpoint>>
    [] op = "Pause"           -> <<2>>
    [] op = "Resume"          -> <<0>>
    [] op = "AddressEnquiry"  -> <<1>>
    [] op = "AddressAllocate" -> <<2, args.address>>
    [] op = "AddressClear"    -> <<3>>
    [] OTHER                  -> <<>>

Destination(op, target) == IF op \in AddressOps THEN BROADCAST ELSE target

MAX_DATA_LEN == 14

\* DiscoveryToken::mint
Minted(link, phase) == IF phase = "Discovery" THEN {link} ELSE {}

\* LinkKind::zone: the steam link has none.
ZoneOf(link) == {z \in {link} : z # "Steam"}

\* Why Encoder::encode refuses an operation on its link: without a token of
\* this link, outside discovery, in a phase without writes, without authority
\* over this zone, or for outlets the valve does not have.
TokenRefused(link, op, phase, tokens) ==
  op \in AddressOps /\ (tokens # {link} \/ phase # "Discovery")

PhaseRefused(op, phase) ==
  op \in Writes \ {"AllOff"} /\ phase \in {"Booting", "Discovery"}

AuthorityRefused(link, op, authority) ==
  op = "SetOutlets" /\ (ZoneOf(link) = {} \/ authority # ZoneOf(link))

OutletsRefused(op, slots, flags, mappings) ==
  /\ op = "SetOutlets"
  /\ \/ flags \cap UNDEFINED_FLAGS # {}
     \/ ~(slots \subseteq ConfiguredSlots(mappings))

EncodeDenied(link, op, phase, tokens, authority, slots, flags, mappings) ==
  \/ TokenRefused(link, op, phase, tokens)
  \/ PhaseRefused(op, phase)
  \/ AuthorityRefused(link, op, authority)
  \/ OutletsRefused(op, slots, flags, mappings)

=============================================================================
