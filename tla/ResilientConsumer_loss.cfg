CONSTANTS
  None = None
  Garbage = Garbage
  m1 = m1
  m2 = m2
  home = home
  Matches = {m1}
  Teams = {home}
  EventIds = {"a1", "a2", "a3", "b2"}
  EventTypes = {"Starting XI", "Shot", "Pass"}
  Events <- OneMatch
  Unstorable <- RefusedRival
  Consumers = {c1, c2}
  MaxAttempts = 2
  MaxLog = 3
  MaxFaults = 3
SPECIFICATION Spec
SYMMETRY ConsumerSymmetry
INVARIANTS TypeOK NoLoss NothingSkipped InOrderNeverQuarantined
