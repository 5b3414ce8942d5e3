SPECIFICATION Spec
CONSTANTS
  NumSessions = 2
  Android = {}
  Existing = {1, 2}
  Killable = {}
  Procs <- MCProcs
  Command <- MCCommand
  Together <- MCTogether
  Starts = {}
  Resizes = {resize}
  Stops = {stop}
  Resolves = {}
  Prunes = {}
INVARIANT StopsOnlySole
CHECK_DEADLOCK FALSE
