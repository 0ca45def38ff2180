SPECIFICATION FairSpec
CONSTANTS
  DEVICES = {"steam", "other", "none"}
  FOUND = {"Off", "PowerClean"}
  ADDRESSED = {FALSE, TRUE}
  CARRIER = "DEV_ACK"
  ASSIGN_ACK = TRUE
  WRITE_ACK = TRUE
  MINUTES = {1, 3}
  WIRE_CAP = 2
  TROUBLES <- Wires
  TICK = 2
  REPLY = 1
  ENQUIRY = 1
  RETRIES = 2
  SESSION_CAP = 2
  STALE_MAX = 1
  DEFAULT_MINUTES = 3
  COMMANDS = {"Start", "Stop", "SetTemperature", "SetDuration", "Acknowledge"}
INVARIANTS
  KernelLatchedFirst
  EncoderNeverRefuses
  OffBeforeReadyOrLatched
PROPERTIES
  SteamOnlyInSession
  StopIsGivenUp
  DiscoverySettles
  ExpiredSessionStops
