SPECIFICATION Spec
CONSTANTS
  Screens <- MCScreens
  Target = "t"
  Interval = 2
  Transient = 1
  Asked = 1
  Timeout = 10
  Grace = 2
  MaxRead = 1
  Consecutive = 2
  Tolerance = 1
  MaxChanges = 2
INVARIANT AnswerIsTrue
INVARIANT TimeoutIsTrue
INVARIANT DeadlineKept
INVARIANT StableIsQuiet
PROPERTY WaitsEnd
CHECK_DEADLOCK FALSE
