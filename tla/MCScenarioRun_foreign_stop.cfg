SPECIFICATION Spec
CONSTANTS
  r1 = r1
  r2 = r2
  Runs = {r1}
  Sessions = {s1, s2}
  Ids <- MCIds
  Scenarios <- MCScenarios
  Other = Other
  None = None
  Serial = TRUE
INVARIANT StopsOnlyItsOwn
CHECK_DEADLOCK FALSE
