SPECIFICATION FairSpec
CONSTANTS
  Matches = {m1, m2}
  None = None
  Window = 2
  MaxReconnect = 1
  MaxSequence = 2
  MaxSessions = 2
INVARIANTS OwnMatch StatusHonest
PROPERTIES Reconnects
CHECK_DEADLOCK FALSE
