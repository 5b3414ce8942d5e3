SPECIFICATION Spec
CONSTANTS
  NumSessions = 2
  Android = {}
  Existing = {1}
  Killable = {}
  Procs <- MCProcs
  Command <- MCCommand
  Together <- MCTogether
  Starts = {start}
  Resizes = {}
  Stops = {}
  Resolves = {}
  Prunes = {prune}
INVARIANT PruneRemovesStale
CHECK_DEADLOCK FALSE
