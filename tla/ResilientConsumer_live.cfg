CONSTANTS
  None = None
  Garbage = Garbage
  m1 = m1
  m2 = m2
  home = home
  Matches = {m1, m2}
  Teams = {home}
  EventIds = {"a1", "a2", "b8"}
  EventTypes = {"Starting XI", "Shot", "Pass"}
  Events <- WithOversized
  Unstorable <- MCUnstorable
  Consumers = {c1, c2}
  MaxAttempts = 2
  MaxLog = 3
  MaxFaults = 2
SPECIFICATION FairSpec
PROPERTIES EveryRecordSettles
