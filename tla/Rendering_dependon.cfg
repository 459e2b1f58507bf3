SPECIFICATION Spec
CONSTANTS
  Ids = {"a", "b", "p"}
  Fields = {"f", "g"}
  Versions <- MCVersions
  ProviderConfigs = {"p"}
  MaxPushes = 0
  MaxChanges = 0
PROPERTIES
  DependOnTakesResources
