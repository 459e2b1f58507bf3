SPECIFICATION FairSpec
CONSTANTS
  Modules = {m1, m2}
  Hashes = {h1, h2}
  NoHash = NoHash
  Callers = {e1}
  Capacity = 1
  MaxChanges = 1
  MaxFaults = 1
  MaxRestarts = 1
PROPERTIES
  ModulesAreServed
  HandlerReturns
  CallsReturn
CHECK_DEADLOCK FALSE
