SPECIFICATION Spec
CONSTANTS
  NumSessions = 2
  Android = {}
  Existing = {1}
  Killable = {start, resize}
  Procs <- MCProcs
  Command <- MCCommand
  Together <- MCTogether
  Starts = {start}
  Resizes = {resize}
  Stops = {stop}
  Resolves = {resolve}
  Prunes = {prune}
INVARIANT NothingActiveIsLost
INVARIANT PruneIsThorough
INVARIANT ResolvesNewest
INVARIANT StopsOnlySole
CHECK_DEADLOCK FALSE
