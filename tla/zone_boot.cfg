SPECIFICATION FairSpec
CONSTANTS
  Buses <- UpToTwoValves
  MAX_OUTLETS = 1
  STAGGER = 1
  BUS_CAP = 2
  LOSSY = TRUE
  FAULTY = TRUE
  DUPLICATES = TRUE
  VALVE_ADDR_MIN = 3
  VALVE_ADDR_MAX = 5
  IDENTIFY <- AllReads
  POLL <- OutletsOnly
  TICK = 2
  RESPONSE = 1
  ATTEMPTS = 2
  PURGE = 0
  SESSION_CAP = 5
  DURATIONS = {5}
  STALE_MAX = 1
  COMMANDS = {"Acknowledge"}
  PORT_FAILS = TRUE
  SHARED_FAULTS = TRUE
INVARIANTS
  KernelAgrees
  ConfirmedOffMeansClosed
PROPERTIES
  BootSettles
