SPECIFICATION RefsSpec
CONSTANTS
  c1 = c1
  c2 = c2
  Callers <- MCCallers
  Screens <- MCScreens
  Plain <- MCPlain
  Inert <- MCInert
  Wanted <- MCWanted
  MenuPaths <- MCMenuPaths
  Faults <- MCFaults
  MaxChanges = 1
  MaxCalls = 3
  MaxRereads = 2
SYMMETRY Sym
INVARIANT DumpIsFresh
PROPERTY SeenIsHit
PROPERTY NamedIsHit
CHECK_DEADLOCK FALSE
