SPECIFICATION Spec
CONSTANTS
  Writers = {w1, w2, w3}
  Readers = {r}
  o1 = o1
  o2 = o2
  Old <- MCOld
  Junk = Junk
  MaxEntries = 2
  Faults = {"kill", "error"}
SYMMETRY MCSymmetry
INVARIANT OnlyOldestDropped
INVARIANT BoundedWhenQuiet
INVARIANT ReadersSeeNoGap
CHECK_DEADLOCK FALSE
