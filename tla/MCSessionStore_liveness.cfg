SPECIFICATION FairSpec
CONSTANTS
  NumSessions = 2
  Android = {2}
  Existing = {1, 2}
  Killable = {}
  Procs <- MCProcs
  Command <- MCCommand
  Together <- MCTogether
  Starts = {}
  Resizes = {}
  Stops = {}
  Resolves = {resolve}
  Prunes = {prune}
PROPERTY CommandsEnd
CHECK_DEADLOCK FALSE
