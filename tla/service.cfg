SPECIFICATION FairSpec
CONSTANTS
  LINKS <- OneZone
  STEAM <- NoSteam
  MAX_FAILURES = 2
  TERMINAL_GRACE = 1
  REPORT_CAPACITY = 1
  LINE_CAP = 1
  FRAGILE <- OneZone
  BREAKS = {"silent", "noisy", "deaf", "mute", "gone", "panic"}
  TICK = 1
  RESPONSE = 1
  ATTEMPTS = 1
  GRACE = 2
  CLOSE_GRACE = 1
  BACKLOG = 2
  COMMANDS = {"Start", "Stop", "StopAll"}
CHECK_DEADLOCK FALSE
INVARIANTS
  EscalationReachesTheValve
PROPERTIES
  DeadlinesAreServed
  DrainEnds
  GonePumpsAreNoticed
