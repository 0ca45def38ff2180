------------------------------- MODULE MCZone -------------------------------
(***************************************************************************)
(* Values of ZoneMachine's constants for TLC, and the conditions on a step *)
(* that stand for a bus or an operator that behaves.                       *)
(***************************************************************************)
EXTENDS ZoneMachine

\* What may be wired to the bus.
OneValve == {{3}}
TwoValves == {{3, 4}}
UpToTwoValves == {{}, {3}, {4}, {3, 4}}

\* zone.rs IDENTIFY and POLL in full, and shorter forms that keep the read that
\* establishes health.
AllReads ==
  <<"ReadFirmwareType", "ReadFirmwareVersion", "ReadSerialNumber",
    "ReadCalibration", "ReadConfiguration", "ReadOutlets", "ReadTemperature",
    "ReadFaults">>
TypeAndFaults == <<"ReadFirmwareType", "ReadFaults">>

FullRotation == <<"ReadTemperature", "ReadFaults", "ReadOutlets">>
OutletsOnly == <<"ReadOutlets">>
FaultsOnly == <<"ReadFaults">>

\* The valve answers within the response window.
AnswersInTime == replies # <<>> /\ Outstanding => inflight.sent < RESPONSE

\* No transaction is given up for another one.
NothingAbandoned ==
  /\ Stop \/ Pause \/ Resume \/ SetTemperature \/ ExpireSession => ~Outstanding
  /\ phase = "ReadyOff" /\ phase' = "Running" => ~Outstanding

\* No stop cuts the boot short.
StopsAfterBoot == Stop => phase \notin {"Cold", "Discovery", "Identify"}

=============================================================================
