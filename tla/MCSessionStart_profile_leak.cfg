SPECIFICATION Spec
CONSTANTS
  s1 = s1
  s2 = s2
  Nobody = Nobody
  Foreign = Foreign
  Sessions <- MCSessions
  Privileged <- MCPrivileged
  MaxDisplay = 1
  Faults = {"slow_xvfb", "crash"}
  Requests = {"marionette"}
INVARIANT NoProfileLeak
CHECK_DEADLOCK FALSE
