SPECIFICATION Spec
CONSTANTS
  s1 = s1
  s2 = s2
  Nobody = Nobody
  Foreign = Foreign
  Sessions <- MCSessions
  Privileged <- MCPrivileged
  MaxDisplay = 2
  Faults = {}
  Requests = {"plain"}
INVARIANT OwnScreen
CHECK_DEADLOCK FALSE
