SPECIFICATION Spec
CONSTANTS
  Buses <- OneValve
  MAX_OUTLETS = 2
  STAGGER = 2
  BUS_CAP = 2
  LOSSY = TRUE
  FAULTY = FALSE
  DUPLICATES = FALSE
  VALVE_ADDR_MIN = 3
  VALVE_ADDR_MAX = 3
  IDENTIFY <- TypeAndFaults
  POLL <- OutletsOnly
  TICK = 2
  RESPONSE = 1
  ATTEMPTS = 2
  PURGE = 0
  SESSION_CAP = 5
  DURATIONS = {5}
  STALE_MAX = 1
  COMMANDS = {"Start", "Stop"}
  PORT_FAILS = FALSE
  SHARED_FAULTS = FALSE
INVARIANTS
  ConfirmedOffMeansClosed
