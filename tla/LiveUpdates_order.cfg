SPECIFICATION Spec
CONSTANTS
  Matches = {m1, m2}
  w1 = w1
  w2 = w2
  Sockets <- MCSockets
  None = None
  MaxSequence = 2
  MaxRebuilds = 1
  MaxFaults = 2
SYMMETRY SafetySymmetry
INVARIANTS TypeOK StreamOrder NoMissedUpdate GaugeIsRegistered
