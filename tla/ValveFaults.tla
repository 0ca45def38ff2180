----------------------------- MODULE ValveFaults -----------------------------
(***************************************************************************)
(* What the controller concludes from the error byte of a valve's error    *)
(* reply and from the two bytes of a fault read.  Two source tables give   *)
(* an error byte incompatible meanings, so every reading names its table.  *)
(* The names of single codes are left out: a code is documented, in a      *)
(* reserved block, or unknown.                                             *)
(***************************************************************************)
EXTENDS Integers

ErrorByte == 0 .. 255

ErrorTables == {"SaturnProtocol", "ValveControl"}

\* saturn_protocol_reason
ProtocolReason(code) ==
  CASE code \in 2 .. 9        -> "Protocol"
    [] code \in 10 .. 11      -> "Eeprom"
    [] code \in 12 .. 13      -> "TemperatureSensor"
    [] code \in {14, 72, 73}  -> "OverTemperature"
    [] code \in {15, 71}      -> "UnderTemperature"
    [] code \in 16 .. 18      -> "FlowSensor"
    [] code \in 19 .. 30      -> "Motor"
    [] code \in 31 .. 50      -> "Calibration"
    [] code \in 51 .. 60      -> "Communication"
    [] code \in 61 .. 70      -> "Firmware"
    [] code \in 74 .. 100     -> "Application"
    [] code \in 101 .. 113    -> "Internal"
    [] OTHER                  -> "Unclassified"

\* valve_control_reason
ControlReason(code) ==
  CASE code \in {3, 7}    -> "OverTemperature"
    [] code = 36          -> "Relay"
    [] code \in {60, 71}  -> "Motor"
    [] OTHER              -> "Unclassified"

WELDED == 35

NoReason == "none"

Severity(table, raw) ==
  CASE raw \in {0, 1}                            -> "UnknownHealth"
    [] raw = WELDED /\ table = "ValveControl"    -> "Unrecoverable"
    [] OTHER                                     -> "AllOffLatch"

\* Disposition::of
Disposition(table, raw) ==
  [is |-> Severity(table, raw), raw |-> raw,
   reason |-> IF Severity(table, raw) # "AllOffLatch" THEN NoReason
              ELSE IF table = "SaturnProtocol" THEN ProtocolReason(raw)
              ELSE ControlReason(raw)]

RequiresAllOff(disposition) == disposition.is \in {"AllOffLatch", "Unrecoverable"}

Retryable(disposition) == disposition.is # "Unrecoverable"

-----------------------------------------------------------------------------

\* SaturnProtocolCode::of, for logs: the codes with a name of their own.
DocumentedCodes ==
  (0 .. 20) \cup (31 .. 33) \cup (51 .. 53) \cup (61 .. 63) \cup (71 .. 74) \cup (101 .. 104)
    \cup {114}

\* SaturnProtocolCode::of: the block of a code that is only reserved.
ReservedBlock(code) ==
  CASE code \in 21 .. 30    -> "MotorActuator"
    [] code \in 34 .. 50    -> "Calibration"
    [] code \in 54 .. 60    -> "Communication"
    [] code \in 64 .. 70    -> "Firmware"
    [] code \in 75 .. 100   -> "Application"
    [] code \in 105 .. 113  -> "Internal"
    [] OTHER                -> "none"

UnknownCode(code) == code \notin DocumentedCodes /\ ReservedBlock(code) = "none"

\* ValveControlCode::of.
ValveControlCodes == {0, 1, 3, 7, WELDED, 36, 60, 71}

-----------------------------------------------------------------------------

\* TwoByteField: no source gives a byte order, so both readings are carried.
TwoByteField(first, second) ==
  [be |-> 256 * first + second, le |-> first + 256 * second]

Ambiguous(field) == field.be = field.le

\* FaultBitmap::is_clear
IsClear(bitmap) == bitmap = 0

\* absorb_faults in zone.rs: what a fault read leaves as the health of the
\* zone, and the byte the safety kernel is told when it is not clear.
Health(field) ==
  IF IsClear(field.be) /\ IsClear(field.le)
  THEN [is |-> "Clear", bits |-> 0]
  ELSE [is |-> "Faulted", bits |-> IF IsClear(field.be) THEN field.le ELSE field.be]

FaultCode(health) == health.bits % 256

=============================================================================
