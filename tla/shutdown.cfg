SPECIFICATION Spec
CONSTANTS
  LINKS <- OneOfEach
  STEAM <- Steam
  MAX_FAILURES = 1
  TERMINAL_GRACE = 1
  REPORT_CAPACITY = 1
  LINE_CAP = 1
  FRAGILE <- OneZone
  BREAKS = {"silent"}
  TICK = 1
  RESPONSE = 1
  ATTEMPTS = 1
  GRACE = 1
  CLOSE_GRACE = 1
  BACKLOG = 1
  COMMANDS = {"Start", "StopAll"}
CHECK_DEADLOCK FALSE
INVARIANTS
  OutcomeIsTrue
PROPERTIES
  EveryLinkIsToldToStop
