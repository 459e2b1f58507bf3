SPECIFICATION Spec
CONSTANTS
  Fields <- MCFields
  Versions <- MCVersions
  CueVersions <- MCCueVersions
  MaxRounds = 3
  MaxPushes = 1
  MaxLosses = 1
INVARIANTS
  TypeOK
  IncompleteIsNotApplied
  KeepsDeclared
  BrokenChangesNothing
  OutputsStay
  HealthyIsComplete
  ReportHidesNothing
  DuplicatesAreFatal
