CONSTANTS
  None = None
  BadLetter = BadLetter
  m1 = m1
  home = home
  Matches = {m1}
  Teams = {home}
  EventIds = {1, 2, 3, 4}
  EventTypes = {"Starting XI", "Shot"}
  Publications <- MCPublications
  Groups = {"operator", "fresh"}
  Fresh = "fresh"
  MaxPolls = 4
  MaxLog = 8
  MaxFaults = 2
SPECIFICATION FairSpec
INVARIANTS TypeOK PassedWasPrinted LagCoversBacklog
PROPERTIES Recovery
