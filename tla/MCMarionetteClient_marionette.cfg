SPECIFICATION Spec
CONSTANTS
  c1 = c1
  c2 = c2
  c3 = c3
  Calls = {c1, c2, c3}
  Shots = {c3}
  MaxStarts = 2
INVARIANT AnswerIsOwn
INVARIANT TwiceOnlyWhenReused
INVARIANT SelfHeals
CHECK_DEADLOCK FALSE
