SPECIFICATION Spec
CONSTANTS
  Matches = {m1}
  None = None
  Window = 2
  MaxReconnect = 1
  MaxSequence = 4
  MaxSessions = 1
PROPERTIES StaleIgnored
CHECK_DEADLOCK FALSE
