SPECIFICATION OrderlySpec
CONSTANTS
  Buses <- UpToTwoValves
  MAX_OUTLETS = 2
  STAGGER = 2
  BUS_CAP = 2
  LOSSY = FALSE
  FAULTY = FALSE
  DUPLICATES = FALSE
  VALVE_ADDR_MIN = 3
  VALVE_ADDR_MAX = 4
  IDENTIFY <- TypeAndFaults
  POLL <- FullRotation
  TICK = 3
  RESPONSE = 2
  ATTEMPTS = 2
  PURGE = 2
  SESSION_CAP = 8
  DURATIONS = {3, 8}
  STALE_MAX = 1
  COMMANDS = {"Start", "Stop", "Pause", "Resume", "SetTemperature"}
  PORT_FAILS = FALSE
  SHARED_FAULTS = FALSE
INVARIANTS
  PurgeBeforeReady
  ConfirmedOffMeansClosed
  WaterAfterAWholeBoot
  OrderlyNeverLatches
  OrderlyCacheMatches
PROPERTIES
  SetpointBeforeFlow
  OneSolenoidAtATime
