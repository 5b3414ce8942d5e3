SPECIFICATION FairSpec
CONSTANTS
  s1 = s1
  s2 = s2
  Nobody = Nobody
  Foreign = Foreign
  Sessions <- MCSessions
  Privileged <- MCPrivileged
  MaxDisplay = 2
  Faults = {"slow_xvfb", "crash"}
  Requests = {"rejected", "marionette", "android"}
INVARIANT NothingInvisible
PROPERTY DisplaysChangeHandsInOrder
PROPERTY KeepsPromise
PROPERTY StartEnds
CHECK_DEADLOCK FALSE
