CONSTANTS
  None = None
  Invalid = Invalid
  Missing = Missing
  Malformed = Malformed
  m1 = m1
  home = home
  away = away
  Matches = {m1}
  Teams = {home, away}
  Words = {"e1", "e2", "e3", "Starting XI", "Shot", "Pass"}
  EventIds <- MCEventIds
  EventTypes = {"e1", "e2", "e3", "Starting XI", "Shot", "Pass"}
  Files <- MCFiles
  Strange <- MCStrange
  Commands = {"consume", "project", "durable-project"}
  Producers = {p1, p2}
  Members = {c1, c2}
  PageLimit = 2
  MaxLog = 4
  MaxFaults = 2
SPECIFICATION Spec
SYMMETRY ProcessSymmetry
INVARIANTS TypeOK TopicInOrder CommittedWasHandled MemoryIsWindow StoreIsReplayPrefix SoundReplayNeverRefused
PROPERTIES OrderIndependent LoadedFileApplies PagesAreHistory
