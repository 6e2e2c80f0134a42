SPECIFICATION FairSpec
CONSTANTS
  Definitions = {"d1", "d2"}
  InitialStations <- TwoRuns
  MaxStations = 2
  MaxRevision <- ThreeThenTwo
  MaxAttempts = 1
  MaxSends = 1
PROPERTIES
  Converges
CHECK_DEADLOCK FALSE
