SPECIFICATION Spec
CONSTANTS
  Definitions = {"d1", "d2"}
  InitialStations <- TwoRuns
  MaxStations = 2
  MaxRevision <- ThreeThenTwo
  MaxAttempts = 2
  MaxSends = 2
INVARIANTS
  NoBlindWrite
  AppliedOnce
  ConflictShown
PROPERTIES
  SnapshotAdvances
CHECK_DEADLOCK FALSE
