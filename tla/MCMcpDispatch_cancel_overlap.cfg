SPECIFICATION Spec
CONSTANTS
  Calls = {c1, c2}
  Sessions = {s1}
  Global = Global
  NoId = NoId
  Nobody = Nobody
  Workers = 2
  Faults = {"cancel"}
  Hung = {}
INVARIANT SessionSerial
CHECK_DEADLOCK FALSE
