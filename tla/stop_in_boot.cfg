SPECIFICATION Spec
CONSTANTS
  Buses <- TwoValves
  MAX_OUTLETS = 1
  STAGGER = 2
  BUS_CAP = 2
  LOSSY = FALSE
  FAULTY = FALSE
  DUPLICATES = FALSE
  VALVE_ADDR_MIN = 3
  VALVE_ADDR_MAX = 4
  IDENTIFY <- TypeAndFaults
  POLL <- FaultsOnly
  TICK = 3
  RESPONSE = 2
  ATTEMPTS = 2
  PURGE = 0
  SESSION_CAP = 8
  DURATIONS = {8}
  STALE_MAX = 1
  COMMANDS = {"Start", "Stop"}
  PORT_FAILS = FALSE
  SHARED_FAULTS = FALSE
INVARIANT
  WaterOnlyFromTheOneValve
