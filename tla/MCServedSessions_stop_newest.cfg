SPECIFICATION ServedSpec
CONSTANTS
  Calls = {c1, c2, c3}
  Sessions = {s1, s2}
  Global = Global
  NoId = NoId
  Nobody = Nobody
  Workers = 2
  Faults = {}
  Hung = {}
  Displays = {1, 2}
  MaxLost = 1
SYMMETRY MCSymmetry
INVARIANT StopNeedsSole
CHECK_DEADLOCK FALSE
