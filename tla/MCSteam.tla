------------------------------ MODULE MCSteam -------------------------------
(***************************************************************************)
(* Values of SteamMachine's constants for TLC.                             *)
(***************************************************************************)
EXTENDS SteamMachine

\* One kind of trouble at a time: noise, loss, delay, false answers, and a port
\* or a service that fails.
Wires ==
  {{"garbled"}, {"lost"}, {"late"}, {"nak", "error", "stray"}, {"port", "service"}}

NoisyWire == {{"garbled"}}

=============================================================================
