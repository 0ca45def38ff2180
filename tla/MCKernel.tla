------------------------------- MODULE MCKernel -------------------------------
(***************************************************************************)
(* Values of SafetyKernel's constants for TLC.  The commands are alike; the *)
(* zones are not, their outlets differ.                                    *)
(***************************************************************************)
EXTENDS SafetyKernel, TLC

CONSTANTS c1, c2

CommandSymmetry == Permutations({c1, c2})

\* Two bathrooms with different outlets: slot 2 is configured in zone 1 only.
Wiring == [z \in Zones |-> IF z = "zone1" THEN {1, 2} ELSE {1}]

\* One fault of each scope.
OneOfEach ==
  \A l \in Links :
    IsLatched(links[l]) =>
      links[l].reason \in {"MalformedResponse", "PortLost", "SteamLinkDegraded", "ServiceFailure"}

=============================================================================
