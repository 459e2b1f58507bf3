SPECIFICATION Spec
CONSTANTS
  c1 = c1
  c2 = c2
  c3 = c3
  NoCommit = NoCommit
  Callers = {e1, e2}
  Commits <- MCCommits
  FastForward <- MCFastForward
  Configs <- AllConfigs
  MaxMoves = 2
  MaxFaults = 2
SYMMETRY Symmetric
INVARIANTS
  TypeOK
  AtomicRender
  RenderedIsPublished
  IInv
PROPERTIES
  NoWorkAfterDestroy
  LeftoverIsFinal
  ImplementsSnapshots
CHECK_DEADLOCK FALSE
