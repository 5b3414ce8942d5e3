SPECIFICATION Spec
CONSTANTS
  c1 = c1
  c2 = c2
  c3 = c3
  Calls = {c1, c2, c3}
  Windows = {c1}
  None = None
INVARIANT AnswerIsOwn
INVARIANT TwiceOnlyAfterLoss
PROPERTY CallsReturn
CHECK_DEADLOCK FALSE
