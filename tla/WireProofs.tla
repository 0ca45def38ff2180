------------------------------ MODULE WireProofs ------------------------------
(***************************************************************************)
(* What the tables of the two buses promise for every byte and every       *)
(* operation, and why the machines' models may speak of names where the    *)
(* wire has bytes.                                                         *)
(***************************************************************************)
EXTENDS SaturnWire, ValveFaults, Timings, SteamWire, Bounds, TLAPS

ClosedForm == {"UnknownHealth", "Unrecoverable", "AllOffLatch"}

\* Disposition::of: no error byte reads as health.  Only the two low bytes
\* leave the health unknown, every other one closes every outlet, and the two
\* contradictory tables never disagree on that.
THEOREM NoErrorByteIsHealth ==
  ASSUME NEW raw \in ErrorByte, NEW table \in ErrorTables
  PROVE  /\ Disposition(table, raw).is \in ClosedForm
         /\ RequiresAllOff(Disposition(table, raw)) <=> raw \notin {0, 1}
         /\ \A other \in ErrorTables :
              RequiresAllOff(Disposition(table, raw)) <=> RequiresAllOff(Disposition(other, raw))
<1>1. ASSUME NEW t \in ErrorTables
      PROVE  /\ Disposition(t, raw).is \in ClosedForm
             /\ RequiresAllOff(Disposition(t, raw)) <=> raw \notin {0, 1}
  <2>1. Disposition(t, raw).is = Severity(t, raw)
    BY DEF Disposition
  <2>2. /\ Severity(t, raw) \in ClosedForm
        /\ Severity(t, raw) = "UnknownHealth" <=> raw \in {0, 1}
    BY DEF Severity, ClosedForm, WELDED, ErrorByte
  <2> QED
    BY <2>1, <2>2 DEF RequiresAllOff, ClosedForm
<1> QED
  BY <1>1

\* The one disposition that is never retried is the welded relay, and only a
\* reader of the valve-control table can arrive at it.
THEOREM OnlyAWeldedRelayIsBeyondCommand ==
  ASSUME NEW raw \in ErrorByte, NEW table \in ErrorTables
  PROVE  ~ Retryable(Disposition(table, raw)) <=> raw = WELDED /\ table = "ValveControl"
<1>1. Disposition(table, raw).is = Severity(table, raw)
  BY DEF Disposition
<1>2. Severity(table, raw) = "Unrecoverable" <=> raw = WELDED /\ table = "ValveControl"
  BY DEF Severity, WELDED, ErrorByte
<1> QED
  BY <1>1, <1>2 DEF Retryable

\* A code that is only reserved latches for the reason of the block it is in,
\* so a firmware newer than the table still says which part failed.
THEOREM ReservedCodesKeepTheirBlock ==
  ASSUME NEW code \in ErrorByte, ReservedBlock(code) # "none"
  PROVE  /\ code \notin DocumentedCodes
         /\ ReservedBlock(code) = "MotorActuator" => ProtocolReason(code) = "Motor"
         /\ ReservedBlock(code) \in {"Calibration", "Communication", "Firmware",
                                     "Application", "Internal"}
              => ProtocolReason(code) = ReservedBlock(code)
<1>1. CASE code \in 21 .. 30
  BY <1>1 DEF ReservedBlock, ProtocolReason, DocumentedCodes
<1>2. CASE code \in 34 .. 50
  BY <1>2 DEF ReservedBlock, ProtocolReason, DocumentedCodes
<1>3. CASE code \in 54 .. 60
  BY <1>3 DEF ReservedBlock, ProtocolReason, DocumentedCodes
<1>4. CASE code \in 64 .. 70
  BY <1>4 DEF ReservedBlock, ProtocolReason, DocumentedCodes
<1>5. CASE code \in 75 .. 100
  BY <1>5 DEF ReservedBlock, ProtocolReason, DocumentedCodes
<1>6. CASE code \in 105 .. 113
  BY <1>6 DEF ReservedBlock, ProtocolReason, DocumentedCodes
<1>7. \/ code \in 21 .. 30 \/ code \in 34 .. 50 \/ code \in 54 .. 60
      \/ code \in 64 .. 70 \/ code \in 75 .. 100 \/ code \in 105 .. 113
  <2>1. ASSUME code \notin (21 .. 30) \cup (34 .. 50) \cup (54 .. 60)
                     \cup (64 .. 70) \cup (75 .. 100) \cup (105 .. 113)
        PROVE  ReservedBlock(code) = "none"
    BY <2>1 DEF ReservedBlock
  <2> QED
    BY <2>1
<1> QED
  BY <1>1, <1>2, <1>3, <1>4, <1>5, <1>6, <1>7

\* A fault read is clear exactly when both bytes are: neither byte order turns
\* a fault into health or health into a fault.  What the kernel is told of a
\* fault is a byte, and the byte can be zero although the fault is not.
THEOREM EitherByteOrderAgreesOnHealth ==
  ASSUME NEW first \in ErrorByte, NEW second \in ErrorByte
  PROVE  /\ IsClear(TwoByteField(first, second).be) <=> first = 0 /\ second = 0
         /\ IsClear(TwoByteField(first, second).le) <=> first = 0 /\ second = 0
         /\ Ambiguous(TwoByteField(first, second)) <=> first = second
         /\ Health(TwoByteField(first, second)).is = "Clear" <=> first = 0 /\ second = 0
         /\ FaultCode(Health(TwoByteField(first, second))) = second
<1>1. /\ TwoByteField(first, second).be = 256 * first + second
      /\ TwoByteField(first, second).le = first + 256 * second
  BY DEF TwoByteField
<1>2. /\ IsClear(TwoByteField(first, second).be) <=> first = 0 /\ second = 0
      /\ IsClear(TwoByteField(first, second).le) <=> first = 0 /\ second = 0
      /\ Ambiguous(TwoByteField(first, second)) <=> first = second
  BY <1>1 DEF IsClear, Ambiguous, ErrorByte
<1>3. Health(TwoByteField(first, second)).is = "Clear" <=> first = 0 /\ second = 0
  BY <1>2 DEF Health
<1>4. Health(TwoByteField(first, second)).bits = 256 * first + second
  <2>1. CASE first = 0 /\ second = 0
    BY <1>2, <2>1 DEF Health
  <2>2. CASE ~(first = 0 /\ second = 0)
    BY <1>1, <1>2, <2>2 DEF Health
  <2> QED
    BY <2>1, <2>2
<1>5. FaultCode(Health(TwoByteField(first, second))) = second
  BY <1>4 DEF FaultCode, ErrorByte
<1> QED
  BY <1>2, <1>3, <1>5

-----------------------------------------------------------------------------

\* No operation travels under a control byte of the denied set, and none under
\* the two bytes that a valve answers an error or a refusal with, so an echo is
\* never taken for either.
THEOREM NoDeniedByteIsEncodable ==
  ASSUME NEW op \in AllOps
  PROVE  /\ OpcodeOf(op) \notin DENIED
         /\ ValveReading(OpcodeOf(op)) = "Echo"
<1>1. OpcodeOf(op) \in {135, 139, 153, 1, 2, 7, 11, 12, 15, 16, 17, 21, 22, 64, 84, 58}
  BY DEF OpcodeOf, AllOps, Ops, Writes, Reads, AddressOps
<1> QED
  BY <1>1 DEF DENIED, ValveReading

\* SaturnCodec compares names where the decoder compares bytes: two of the
\* operations it has look alike by name exactly when they do on the wire.
THEOREM ControlNamesAreControlBytes ==
  ASSUME NEW a \in Ops, NEW b \in Ops
  PROVE  ControlByte(a) = ControlByte(b) <=> OpcodeOf(a) = OpcodeOf(b)
BY DEF ControlByte, OpcodeOf, Ops, Writes, Reads, AddressOps

\* The lengths SaturnCodec checks replies against are those of the wire, and a
\* seven-byte error reply passes the length check of one read alone.
THEOREM ReplyLengthsAgree ==
  ASSUME NEW op \in Ops
  PROVE  /\ ReplyLength(op) = {ExpectedLength(op)}
         /\ ExpectedLength(op) = 7 <=> op = "ReadFirmwareType"
BY DEF ReplyLength, ExpectedLength, Ops, Writes, Reads

\* A frame's direction is told from its address alone, whichever of the two
\* addresses the master goes by: neither of them is a valve's or the broadcast.
THEOREM DirectionsAreTold ==
  ASSUME NEW master \in {"Dtv", "Prompt"}, NEW address \in Byte
  PROVE  /\ Direction(MasterByte(master), master) = "ValveToMaster"
         /\ address \in VALVE_ADDRESSES \cup {BROADCAST}
              => Direction(address, master) = "MasterToValve"
BY DEF Direction, MasterByte, VALVE_ADDRESSES, BROADCAST, Byte

\* Every operation fits in a frame, and only address management is broadcast:
\* whatever else is sent reaches the one valve it was meant for.
THEOREM EveryOperationFits ==
  ASSUME NEW op \in AllOps, NEW args, NEW target \in VALVE_ADDRESSES
  PROVE  /\ Len(Data(op, args)) <= MAX_DATA_LEN
         /\ Destination(op, target) = BROADCAST <=> op \in AddressOps
<1>1. Len(Data(op, args)) <= 2
  BY DEF Data
<1>2. Len(Data(op, args)) \in Nat
  BY DEF Data
<1> QED
  BY <1>1, <1>2 DEF MAX_DATA_LEN, Destination, VALVE_ADDRESSES, BROADCAST

\* The encoder's refusals, for what a zone machine asks of it: with the token
\* its own phase mints, an authority that is absent or its own, and slots the
\* valve has, they come to the two conditions of SaturnCodec's Encodable.
THEOREM EncodableIsWhatIsNotDenied ==
  ASSUME NEW zone, zone # "Steam", NEW op \in Ops, NEW phase,
         NEW authority \in {{}, {zone}}, NEW mappings,
         NEW slots \in SUBSET ConfiguredSlots(mappings)
  PROVE  ~ EncodeDenied(zone, op, phase, Minted(zone, phase), authority, slots, {}, mappings)
           <=> Encodable(op, phase, authority = {zone})
<1>1. ~ TokenRefused(zone, op, phase, Minted(zone, phase))
  BY DEF TokenRefused, AddressOps, Ops, Writes, Reads
<1>2. ZoneOf(zone) = {zone}
  BY DEF ZoneOf
<1>3. ~ OutletsRefused(op, slots, {}, mappings)
  BY DEF OutletsRefused, UNDEFINED_FLAGS
<1>4. AuthorityRefused(zone, op, authority) <=> op = "SetOutlets" /\ authority # {zone}
  BY <1>2 DEF AuthorityRefused
<1>5. PhaseRefused(op, phase)
        <=> op \in Writes \ {"AllOff"} /\ phase \in {"Booting", "Discovery"}
  BY DEF PhaseRefused
<1> QED
  BY <1>1, <1>3, <1>4, <1>5 DEF EncodeDenied, Encodable

-----------------------------------------------------------------------------

\* A retry train at the documented deadlines cannot finish inside its tick on
\* either link: a transaction always runs into the poll behind it.
THEOREM DocumentedTrainsOutrunTheirTick == Overruns(SATURN) /\ Overruns(DTV)
BY DEF Overruns, WorstCase, SATURN, DTV

\* The budget an engine plans with covers every train whose deadline is at most
\* a tick, for any number of retries that the byte can count.
THEOREM TheBudgetCoversTheTrain ==
  ASSUME NEW timings, timings.response \in Nat, timings.tick \in Nat,
         timings.retries \in 0 .. 254, timings.response <= timings.tick
  PROVE  WorstCase(timings) <= Ceiling(timings)
<1>1. Attempts(timings) = timings.retries + 1
  BY DEF Attempts
<1> DEFINE n == timings.retries + 1
<1>2. n \in Nat /\ WorstCase(timings) = timings.response * n /\ Ceiling(timings) = timings.tick * n
  BY <1>1 DEF WorstCase, Ceiling
<1>3. ASSUME NEW k \in Nat, NEW x \in Nat, NEW y \in Nat, x <= y
      PROVE  x * k <= y * k
  BY <1>3, SMTT(30)
<1> QED
  BY <1>2, <1>3

\* The documented sets are inside that: no ceiling is shorter than its train.
THEOREM DocumentedBudgetsCover ==
  WorstCase(SATURN) <= Ceiling(SATURN) /\ WorstCase(DTV) <= Ceiling(DTV)
BY DEF WorstCase, Ceiling, Attempts, SATURN, DTV

\* What a file may change of the steam link's timing stays where the deadline
\* and the retries it allows still fit the range the adapter tolerates.
THEOREM TunedTimingsStayInRange ==
  ASSUME NEW tick \in Nat, NEW retries \in Nat
  PROVE  /\ \A t \in WithTick(DTV, tick) : t.tick >= DTV_TICK_FLOOR /\ t.retries = DTV.retries
         /\ \A t \in WithRetries(DTV, retries) :
              t.retries <= DTV_RETRIES_MAX /\ t.tick = DTV.tick
BY DEF WithTick, WithRetries, DTV

\* Not every set a file may ask for is: at the fastest tick it allows, the
\* documented reply and retries make a train of five sends whose ceiling comes
\* in the middle of the third, though budget.rs has them sent one a tick.
THEOREM AFastTickCutsTheTrain ==
  \A t \in WithTick(DTV, DTV_TICK_FLOOR) :
    /\ Attempts(t) = 5 /\ WorstCase(t) = 5 * t.response
    /\ 2 * t.response < Ceiling(t) /\ Ceiling(t) < 3 * t.response
<1> SUFFICES ASSUME NEW t \in WithTick(DTV, DTV_TICK_FLOOR)
             PROVE  /\ Attempts(t) = 5 /\ WorstCase(t) = 5 * t.response
                    /\ 2 * t.response < Ceiling(t) /\ Ceiling(t) < 3 * t.response
  OBVIOUS
<1>1. t = [DTV EXCEPT !.tick = 150]
  BY DEF WithTick, DTV_TICK_FLOOR
<1>2. t.tick = 150 /\ t.response = 300 /\ t.retries = 4
  BY <1>1 DEF DTV
<1> QED
  BY <1>2 DEF Attempts, Ceiling, WorstCase

-----------------------------------------------------------------------------
(* The steam link's encoder and status reader.                              *)

\* What the encoder is given: its types admit nothing else.
Arguments ==
  [temp : STEAM_FLOOR .. STEAM_CEILING, state : OpStates,
   minutes : MIN_MINUTES .. MAX_MINUTES, address : DevAddrs]

\* The denial of a power clean, which is a value of an allowlisted command and
\* not a command: whatever is asked, the state position of a frame never holds
\* its byte, and the length that goes with it never switches the generator's
\* own shutoff off.  The temperature byte can be that value, and is harmless.
THEOREM NoFrameStartsAPowerClean ==
  ASSUME NEW op \in SteamOps, NEW args \in Arguments, NEW p \in StatePosition(op)
  PROVE  /\ SteamPayload(op, args)[p] \in {OFF, ON}
         /\ SteamPayload(op, args)[p] # POWER_CLEAN
         /\ SteamPayload(op, args)[SET_PARAM_PAYLOAD_LEN] \in 1 .. 20
         /\ op = "Stop" => SteamPayload(op, args)[p] = OFF
<1>1. p = STATE_POSITION /\ IsWrite(op)
  BY DEF StatePosition
<1>2. SteamPayload(op, args)
        = <<args.temp, WireState(StateOf(op, args.state)), args.minutes>>
  BY <1>1 DEF SteamPayload, IsWrite
<1>3. WireState(StateOf(op, args.state)) \in {OFF, ON}
  BY DEF WireState
<1>4. args.minutes \in 1 .. 20
  BY DEF Arguments, MIN_MINUTES, MAX_MINUTES
<1>5. op = "Stop" => WireState(StateOf(op, args.state)) = OFF
  BY DEF WireState, StateOf
<1> QED
  BY <1>1, <1>2, <1>3, <1>4, <1>5
     DEF STATE_POSITION, SET_PARAM_PAYLOAD_LEN, OFF, ON, POWER_CLEAN

\* Only the operations that ask for steam can produce it: what a generator that
\* obeys a write would report is producing exactly when the write says on.
THEOREM OnlyAnOnStateProduces ==
  ASSUME NEW state \in OpStates
  PROVE  /\ ReadState(WireState(state)) = state
         /\ Producing(ReadState(WireState(state))) <=> state = "On"
BY DEF ReadState, WireState, Producing, OpStates, OFF, ON, POWER_CLEAN

\* No operation has a denied opcode, all of them are the master's to send, and
\* DtvCodec's names tell two operations apart exactly when their bytes do.
THEOREM NoDeniedOpcodeIsEncodable ==
  ASSUME NEW a \in SteamOps, NEW b \in SteamOps
  PROVE  /\ CommandByte(a) \notin DeniedOpcodes
         /\ CommandByte(a) \in AllowlistedOpcodes \cup DiscoveryOpcodes
         /\ DirectionOf(CommandByte(a)) = "MasterToDevice"
         /\ Opcode(a) = Opcode(b) <=> CommandByte(a) = CommandByte(b)
<1>1. CommandByte(a) \in {52, 48, 58, 5, 7}
  BY DEF CommandByte, SteamOps, IsWrite
<1>2. /\ CommandByte(a) \notin DeniedOpcodes
      /\ CommandByte(a) \in AllowlistedOpcodes \cup DiscoveryOpcodes
      /\ DirectionOf(CommandByte(a)) = "MasterToDevice"
  BY <1>1 DEF DeniedOpcodes, AllowlistedOpcodes, DiscoveryOpcodes, DirectionOf,
              ANSWERS, DEV_REQUEST_ADDR, GET_DATA_BUFFER, SETTINGS_UPDATE
<1>3. Opcode(a) = Opcode(b) <=> CommandByte(a) = CommandByte(b)
  BY DEF Opcode, CommandByte, SteamOps, IsWrite
<1> QED
  BY <1>2, <1>3

\* Discovery routes on the opcode, because every address is zero: what a device
\* may say is never what the master may say.
THEOREM DirectionsNeverOverlap ==
  ASSUME NEW op \in SteamOps, NEW answer \in ANSWERS \cup {DEV_REQUEST_ADDR}
  PROVE  /\ CommandByte(op) # answer
         /\ DirectionOf(answer) = "DeviceToMaster"
<1>1. CommandByte(op) \in {52, 48, 58, 5, 7}
  BY DEF CommandByte, SteamOps, IsWrite
<1> QED
  BY <1>1 DEF ANSWERS, DEV_REQUEST_ADDR, DirectionOf, DeniedOpcodes, GET_DATA_BUFFER, SETTINGS_UPDATE

\* A broadcast is the address opportunity and nothing else, and the unassigned
\* address is where an assignment goes and nothing else.
THEOREM OnlyDiscoveryLeavesTheDevice ==
  ASSUME NEW op \in SteamOps, NEW dest \in DevAddrs
  PROVE  /\ SteamDestination(op, dest) = STEAM_BROADCAST <=> op = "AddressOpportunity"
         /\ SteamDestination(op, dest) = UNASSIGNED <=> op = "AssignAddress"
BY DEF SteamDestination, STEAM_BROADCAST, UNASSIGNED, DevAddrs

\* DtvCodec's condition and the encoder's refusals are the same, with the
\* token that the link's own phase mints.
THEOREM SteamEncodableIsWhatIsNotDenied ==
  ASSUME NEW op \in SteamOps, NEW phase \in LinkPhases
  PROVE  ~ SteamEncodeDenied(op, phase, IF phase = "Discovery" THEN {"Steam"} ELSE {})
           <=> SteamEncodable(op, phase)
BY DEF SteamEncodeDenied, SteamEncodable

-----------------------------------------------------------------------------

\* Any bit of the error byte is a fault, the four that no source documents
\* included, and the interface never shows a generator with one as off or on.
THEOREM EveryErrorBitIsAFault ==
  ASSUME NEW status, status.errors \in Byte, status.state \in Byte
  PROVE  /\ ReservedBitsSet(status.errors) # {} => IsFault(status.errors)
         /\ RequiresImmediateOff(status.errors) => IsFault(status.errors)
         /\ IsFault(status.errors) => UiStatus(status) \notin {"Off", "On"}
         /\ UiStatus(status) \in {"Off", "On", "PowerCleanActive", "Error", "Invalid"}
         /\ UiCode(UiStatus(status)) \in 0 .. 8
<1>1. ASSUME NEW w \in {1, 2, 4, 8, 16, 32, 64, 128}, Bit(status.errors, w)
      PROVE  IsFault(status.errors)
  BY <1>1 DEF Bit, IsFault, Byte
<1>2. /\ ReservedBitsSet(status.errors) # {} => IsFault(status.errors)
      /\ RequiresImmediateOff(status.errors) => IsFault(status.errors)
  BY <1>1 DEF ReservedBitsSet, RESERVED_BITS, RequiresImmediateOff, IMMEDIATE_OFF,
              OVERTEMPERATURE, SAFETY_CIRCUIT, THERMISTOR
<1>3. ReadState(status.state) \in StateBytes
  BY DEF ReadState, StateBytes
<1>4. /\ IsFault(status.errors) => UiStatus(status) \notin {"Off", "On"}
      /\ UiStatus(status) \in {"Off", "On", "PowerCleanActive", "Error", "Invalid"}
  BY <1>3 DEF UiStatus, StateBytes
<1>5. UiCode(UiStatus(status)) \in 0 .. 8
  BY <1>4 DEF UiCode
<1> QED
  BY <1>2, <1>4, <1>5

\* A status survives the wire, and a payload of any other length is read as
\* nothing: five bytes would put the error flags in the seconds.
THEOREM StatusSurvivesTheWire ==
  ASSUME NEW status \in [actual : Byte, desired : Byte, state : Byte,
                         minutes : Byte, seconds : Byte, errors : Byte],
         NEW payload \in Seq(Byte)
  PROVE  /\ DecodeStatus(StatusPayload(status)) = {status}
         /\ DecodeStatus(payload) # {} <=> Len(payload) = STATUS_PAYLOAD_LEN
<1>1. Len(StatusPayload(status)) = STATUS_PAYLOAD_LEN
  BY DEF StatusPayload, STATUS_PAYLOAD_LEN
<1>2. DecodeStatus(StatusPayload(status)) = {status}
  BY <1>1 DEF DecodeStatus, StatusPayload
<1>3. DecodeStatus(payload) # {} <=> Len(payload) = STATUS_PAYLOAD_LEN
  BY DEF DecodeStatus
<1> QED
  BY <1>2, <1>3

=============================================================================
