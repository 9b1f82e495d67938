SPECIFICATION FairSpec
CONSTANTS
  Matches = {m1}
  w1 = w1
  w2 = w2
  Sockets <- MCSockets
  None = None
  MaxSequence = 2
  MaxRebuilds = 1
  MaxFaults = 1
PROPERTIES EventuallyCurrent
