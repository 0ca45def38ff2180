SPECIFICATION Spec
CONSTANTS
  TransmitOps <- OPS
  Pty <- PTY
  Sites <- AllSites
  Machines <- Plugs
  Requests <- Asked
  Clients = {c1, c2}
  MAX_SESSIONS = 1
  SESSION_TTL = 1
  COMMAND_CAPACITY = 1
  RESERVATION_BLOCK = 2
  MAX_ID = 4
  MAX_STARTS = 2
  MAX_TIME = 1
  MAX_DRAWS = 2
INVARIANTS
  WaterTakesTwoRequests
  RealPortsAreAttested
PROPERTIES
  NeverReissued
  EveryFailureEndsOff
SYMMETRY Anyone
CHECK_DEADLOCK FALSE
