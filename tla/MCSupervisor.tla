---------------------------- MODULE MCSupervisor ----------------------------
(***************************************************************************)
(* Values of Supervisor's constants for TLC.                               *)
(***************************************************************************)
EXTENDS Supervisor

OneOfEach == {"zone", "steam"}
OneZone == {"zone"}
Steam == {"steam"}
NoSteam == {}

=============================================================================
