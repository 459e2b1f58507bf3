SPECIFICATION FairSpec
CONSTANTS
  c1 = c1
  c2 = c2
  c3 = c3
  NoCommit = NoCommit
  Callers = {e1}
  Commits <- MCCommits
  FastForward <- MCFastForward
  Configs <- AllConfigs
  MaxMoves = 0
  MaxFaults = 0
PROPERTIES
  DestroyReturns
CHECK_DEADLOCK FALSE
