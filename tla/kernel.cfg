SPECIFICATION Spec
CONSTANTS
  Zones = {"zone1", "zone2"}
  Steam = "steam"
  c1 = c1
  c2 = c2
  CommandIds = {c1, c2}
  Slots = {1, 2}
  Configured <- Wiring
  MAX_BOOT = 2
SYMMETRY
  CommandSymmetry
CONSTRAINT
  OneOfEach
INVARIANTS
  TypeOK
  RunsOnAFreshGrant
PROPERTIES
  LatchedUntilRestart
  AllOffComesFirst
  BlastRadius
