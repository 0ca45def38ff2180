----------------------------- MODULE TransmitGate ----------------------------
(***************************************************************************)
(* The two halves of the transmit gate: what shape a claim may have        *)
(* (kdtv-config) and whether the evidence supports it (kdtv-proto).        *)
(*                                                                         *)
(* A claim is [scope, capture, pin, polarity]: capture and pin are sets of *)
(* at most one value, a capture being "named" or "blank" and a pin the     *)
(* digest of a fixture set or "malformed"; polarity maps the links that    *)
(* have a note to "noted" or "blank".  A fixture set is [digest, captured, *)
(* documented]: the transmit operations with a captured, and those with an *)
(* only documented fixture.                                                *)
(***************************************************************************)
EXTENDS Integers

CONSTANT TransmitOps        \* required_transmit_ids: every allowlisted operation

ALL == {"zone1", "zone2", "steam"}      \* LinkKind::ALL

EmulatorOnly == [scope |-> "emulator-only", capture |-> {}, pin |-> {}, polarity |-> <<>>]

\* TransmitGateConfig::validate.  A half-filled attestation under a closed
\* gate is refused rather than ignored.
ShapeHolds(claim, links) ==
  CASE claim.scope = "emulator-only" ->
         claim.capture = {} /\ claim.pin = {} /\ DOMAIN claim.polarity = {}
    [] claim.scope = "real-bus-attested" ->
         /\ claim.capture = {"named"}
         /\ claim.pin # {} /\ "malformed" \notin claim.pin
         /\ DOMAIN claim.polarity = links
         /\ \A link \in links : claim.polarity[link] = "noted"

Attests(claim, link) ==
  link \in DOMAIN claim.polarity /\ claim.polarity[link] = "noted"

Unattested(claim) == {link \in ALL : ~ Attests(claim, link)}

\* Every allowlisted operation whose fixture is not captured, or is missing.
UnattestedFixtures(fixtures) == TransmitOps \ fixtures.captured

\* A plausible bug: the claim is taken at its word.
Grant_TrustsTheClaim(claim, fixtures) ==
  {authority \in {[real |-> claim.scope = "real-bus-attested", polarity |-> claim.polarity]} :
     /\ claim.pin \subseteq {fixtures.digest}
     /\ authority.real => /\ claim.pin # {}
                          /\ claim.capture = {"named"}
                          /\ Unattested(claim) = {}}

\* TransmitAuthority::resolve: {} for a refusal, else the one authority.  The
\* pin is looked at under both scopes, the evidence only under a real bus.
Grant(claim, fixtures) ==
  {authority \in {[real |-> claim.scope = "real-bus-attested", polarity |-> claim.polarity]} :
     /\ claim.pin \subseteq {fixtures.digest}
     /\ authority.real => /\ claim.pin # {}
                          /\ claim.capture = {"named"}
                          /\ UnattestedFixtures(fixtures) = {}
                          /\ Unattested(claim) = {}}

PermitsRealBusOn(authority, link) == authority.real /\ Attests(authority, link)

=============================================================================
