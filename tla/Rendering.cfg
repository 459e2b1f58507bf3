SPECIFICATION Spec
CONSTANTS
  Ids = {"a", "b", "p"}
  Fields = {"f", "g"}
  Versions <- MCVersions
  ProviderConfigs = {"p"}
  MaxPushes = 2
  MaxChanges = 3
INVARIANTS
  ManifestsAreClean
  ReadyIsObserved
PROPERTIES
  FieldsStay
