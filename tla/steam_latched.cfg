SPECIFICATION Spec
CONSTANTS
  DEVICES = {"steam"}
  FOUND = {"Off"}
  ADDRESSED = {FALSE}
  CARRIER = "DEV_ACK"
  ASSIGN_ACK = TRUE
  WRITE_ACK = TRUE
  MINUTES = {3}
  WIRE_CAP = 2
  TROUBLES <- NoisyWire
  TICK = 2
  REPLY = 1
  ENQUIRY = 1
  RETRIES = 2
  SESSION_CAP = 3
  STALE_MAX = 1
  DEFAULT_MINUTES = 3
  COMMANDS = {"Start", "Stop"}
INVARIANT
  LatchedLinkStaysDown
