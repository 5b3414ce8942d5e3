SPECIFICATION Spec
CONSTANTS
  NumSessions = 1
  Android = {1}
  Existing = {1}
  Killable = {}
  Procs <- MCProcs
  Command <- MCCommand
  Together <- MCTogether
  Starts = {}
  Resizes = {}
  Stops = {}
  Resolves = {}
  Prunes = {prune}
INVARIANT NothingActiveIsLost
CHECK_DEADLOCK FALSE
