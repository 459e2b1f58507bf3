SPECIFICATION Spec
CONSTANTS
  Modules = {m1, m2}
  Hashes = {h1, h2}
  NoHash = NoHash
  Callers = {e1}
  Capacity = 2
  MaxChanges = 3
  MaxFaults = 1
  MaxRestarts = 1
SYMMETRY Symmetric
INVARIANTS
  TypeOK
  Accounting
  ServedWhenQuiet
  OneRepoPerDirectory
  EvaluatesTheCurrentRepo
PROPERTIES
  ImplementsRegistry
CHECK_DEADLOCK FALSE
