SPECIFICATION Spec
CONSTANTS
  Writers = {w1, w2}
  Readers = {}
  o1 = o1
  o2 = o2
  Old <- MCOld
  Junk = Junk
  MaxEntries = 2
  Faults = {}
SYMMETRY MCSymmetry
INVARIANT NewestIsKept
CHECK_DEADLOCK FALSE
