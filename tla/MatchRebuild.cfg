CONSTANTS
  None = None
  m1 = m1
  home = home
  away = away
  Matches = {m1}
  Teams = {home, away}
  Backends = {s1, s2, r1}
  Sessions = {s1, s2}
  Rebuilders = {r1}
  EventIds = {"a1", "a2", "x2", "a3", "x3"}
  EventTypes = {"Starting XI", "Shot"}
  Events <- RebuildEvents
  hashtext <- OneLockKey
SPECIFICATION RSpec
SYMMETRY SessionSymmetry
INVARIANTS SnapshotIsRebuild HistoryGapFree ChangesAnnounced SnapshotTallies
PROPERTIES OnlyForward RebuildChangesNothing
