CONSTANTS
  None = None
  m1 = m1
  m2 = m2
  m3 = m3
  home = home
  away = away
  Matches = {m1, m2, m3}
  Teams = {home, away}
  Backends = {s1, s2}
  Sessions = {s1, s2}
  EventIds = {"a1", "b1"}
  EventTypes = {"Starting XI", "Shot", "Pass"}
  Events <- IdentityEvents
  hashtext <- TwoLockKeys
SPECIFICATION FairSpec
INVARIANTS TypeOK IdentityExactlyOnce
PROPERTIES Linearizable CallsReturn
