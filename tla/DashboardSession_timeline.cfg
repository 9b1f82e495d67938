SPECIFICATION Spec
CONSTANTS
  Matches = {m1}
  None = None
  Window = 2
  MaxReconnect = 1
  MaxSequence = 5
  MaxSessions = 1
INVARIANTS TypeOK TimelineContiguous TimelineComplete
PROPERTIES OnlyAuthorityRegresses
CHECK_DEADLOCK FALSE
