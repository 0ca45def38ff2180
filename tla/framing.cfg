SPECIFICATION Spec
CONSTANTS
  MAX_DATA_LEN = 2
  MAX_PAYLOAD = 2
  SATURN_RX_CAPACITY = 14
  DTV_RX_CAPACITY = 20
  CHUNK = 16
  MAX_FRAMES_PER_CHUNK = 3
  MASTER = 0
  AWAITINGS <- MCAwaitings
  Scripts <- MCScripts
CHECK_DEADLOCK FALSE
INVARIANTS
  ChunkingDoesNotMatter
  NothingWholeIsLeft
  NoiseCostsOneFrame
PROPERTIES
  DropsNeedABurst
