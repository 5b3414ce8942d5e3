SPECIFICATION FairSpec
CONSTANTS
  Calls = {c1, c2, c3, c4}
  Sessions = {s1, s2}
  Global = Global
  NoId = NoId
  Nobody = Nobody
  Workers = 2
  Faults = {}
  Hung <- MCHung
INVARIANT SessionSerial
INVARIANT AnswerIsTrue
PROPERTY KeepsOrder
PROPERTY OthersAreAnswered
CHECK_DEADLOCK FALSE
