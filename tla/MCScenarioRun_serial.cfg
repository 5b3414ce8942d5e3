SPECIFICATION Spec
CONSTANTS
  r1 = r1
  r2 = r2
  Runs = {r1, r2}
  Sessions = {s1, s2, s3}
  Ids <- MCIds
  Scenarios <- MCScenarios
  Other = Other
  None = None
  Serial = TRUE
SYMMETRY MCSymmetry
INVARIANT RunsAsDeclared
INVARIANT LeakIsReported
INVARIANT OwnSession
INVARIANT ActsOnWhatItFound
CHECK_DEADLOCK FALSE
