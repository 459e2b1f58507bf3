SPECIFICATION FairSpec
CONSTANTS
  c1 = c1
  c2 = c2
  c3 = c3
  NoCommit = NoCommit
  Callers = {e1}
  Commits <- MCLine
  FastForward <- MCLineForward
  Configs <- MCConfigs
  MaxMoves = 2
  MaxFaults = 2
PROPERTIES
  Converges
  InitialisesUnlessLeftover
  ExecuteReturns
  DestroyReturnsUnlessTrapped
CHECK_DEADLOCK FALSE
