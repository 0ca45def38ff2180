------------------------------ MODULE SteamWire ------------------------------
(***************************************************************************)
(* The bytes behind DtvCodec's names: the opcode and the payload of every  *)
(* operation the steam encoder has, what it refuses, the opcodes it has no *)
(* operation for, and how a status payload is read.  A payload is a        *)
(* sequence of bytes; an optional value is a set of at most one element.   *)
(***************************************************************************)
EXTENDS DtvCodec, Integers, Sequences

\* Bit w of a byte, w a power of two.
Bit(byte, w) == (byte \div w) % 2 = 1

OFF == 0
ON == 255
POWER_CLEAN == 204

\* SteamOpState::wire
WireState(state) == IF state = "On" THEN ON ELSE OFF

\* SteamStateByte::decode
ReadState(byte) ==
  CASE byte = OFF         -> "Off"
    [] byte = ON          -> "On"
    [] byte = POWER_CLEAN -> "PowerClean"
    [] OTHER              -> "Invalid"

-----------------------------------------------------------------------------

THERMISTOR == 4
COMMUNICATION == 8
OVERTEMPERATURE == 32
SAFETY_CIRCUIT == 64
RESERVED_BITS == {1, 2, 16, 128}
IMMEDIATE_OFF == {OVERTEMPERATURE, SAFETY_CIRCUIT, THERMISTOR}

IsFault(errors) == errors # 0
ReservedBitsSet(errors) == {w \in RESERVED_BITS : Bit(errors, w)}
RequiresImmediateOff(errors) == \E w \in IMMEDIATE_OFF : Bit(errors, w)

\* SteamStatus: decode takes six bytes and no other number of them.
STATUS_PAYLOAD_LEN == 6

StatusPayload(status) ==
  <<status.actual, status.desired, status.state,
    status.minutes, status.seconds, status.errors>>

DecodeStatus(payload) ==
  {[actual |-> payload[1], desired |-> payload[2], state |-> payload[3],
    minutes |-> payload[4], seconds |-> payload[5], errors |-> payload[6]] :
     n \in {n \in {Len(payload)} : n = STATUS_PAYLOAD_LEN}}

\* SteamUiStatus::code
UiCode(status) ==
  CASE status = "NotInstalled"        -> 0
    [] status = "Off"                 -> 1
    [] status = "On"                  -> 2
    [] status = "PowerCleanActive"    -> 3
    [] status = "PowerCleanWarning"   -> 4
    [] status = "PowerCleanRequired"  -> 5
    [] status = "Error"               -> 6
    [] status = "PurgeActive"         -> 7
    [] status = "Invalid"             -> 8

\* SteamStatus::ui_status
UiStatus(status) ==
  LET state == ReadState(status.state)
  IN  CASE state = "PowerClean" -> "PowerCleanActive"
        [] state = "Invalid"    -> "Invalid"
        [] OTHER                -> IF IsFault(status.errors) THEN "Error" ELSE state

-----------------------------------------------------------------------------

\* The opcodes of the operations, and of the frames a device answers with.
CommandByte(op) ==
  CASE IsWrite(op)                -> 52
    [] op = "ReadStatus"          -> 48
    [] op = "ClearFaults"         -> 58
    [] op = "AddressOpportunity"  -> 5
    [] op = "AssignAddress"       -> 7

DEV_REQUEST_ADDR == 6
ANSWERS == {49, 53, 54, 55}

AllowlistedOpcodes == {48, 52, 58} \cup ANSWERS
DiscoveryOpcodes == {5, DEV_REQUEST_ADDR, 7}

DeniedOpcodes ==
  {3, 19, 24, 50, 51, 56, 57, 64, 116, 128, 144, 145, 161} \cup 32 .. 34 \cup 112 .. 114

\* direction_of: address routing is impossible while a device has no address.
SETTINGS_UPDATE == 50
GET_DATA_BUFFER == 114

DirectionOf(cmd) ==
  CASE cmd \in {DEV_REQUEST_ADDR, GET_DATA_BUFFER} \cup ANSWERS -> "DeviceToMaster"
    [] cmd \in (DeniedOpcodes \cup {5, 7, 48, 52, 58}) \ {SETTINGS_UPDATE, GET_DATA_BUFFER} ->
         "MasterToDevice"
    [] OTHER -> "Indeterminate"

-----------------------------------------------------------------------------

STEAM_MASTER == 0
UNASSIGNED == 0
STEAM_BROADCAST == 255
DevAddrs == 3 .. 7

\* DeviceId: what a device says it is, never where it is.
STEAM_GENERATOR == 5
DocumentedDevices == {0, 3, STEAM_GENERATOR, 48, 49, 64, 240} \cup 6 .. 9

SET_PARAM_PAYLOAD_LEN == 3
STATE_POSITION == 2

\* The state a write carries.  SetTemperature and SetDuration carry the one
\* they are given.
StateOf(op, given) ==
  CASE op = "Start" -> "On"
    [] op = "Stop"  -> "Off"
    [] OTHER        -> given

\* SteamEncoder::payload.  args has the setpoint, the minutes and the state of
\* a write, and the address that is assigned.
SteamPayload(op, args) ==
  CASE IsWrite(op)            -> <<args.temp, WireState(StateOf(op, args.state)), args.minutes>>
    [] op = "AssignAddress"   -> <<args.address>>
    [] OTHER                  -> <<>>

SteamDestination(op, dest) ==
  CASE op = "AddressOpportunity" -> STEAM_BROADCAST
    [] op = "AssignAddress"      -> UNASSIGNED
    [] OTHER                     -> dest

\* state_byte_offset, counted from one.
StatePosition(op) == {p \in {STATE_POSITION} : IsWrite(op)}

\* SteamEncoder::encode, given the links of the tokens it is shown.
SteamEncodeDenied(op, phase, tokens) ==
  \/ IsDiscovery(op) /\ (tokens # {"Steam"} \/ phase # "Discovery")
  \/ IsWrite(op) /\ op # "Stop" /\ phase \in {"Booting", "Discovery"}
  \/ op = "ClearFaults" /\ phase \notin {"ReadyOff", "Faulted"}

=============================================================================
