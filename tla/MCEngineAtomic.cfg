SPECIFICATION Spec
CONSTANTS
  TickInterval = 2
  MaxAdvance = 8
  MaxElapsed = 6
  MaxInt = 100
  MaxRevision = 5
  MaxSequence = 7
  MaxMMSI = 3
  MaxVessels = 2
  MaxStations = 2
  MessageLimit = 2
  ReceptionHistoryLimit = 1
  TargetLimit = 1
  ExpiryAge = 2
  RateBuckets = 1
  SpeedScale = 2
  Speeds = {0, 1, 3}
  Definitions <- AllDefinitions
  LinkOutcomes = {"received"}
  InitialVesselCount = 1
  InitialStations <- OneStation
  InitialSpeed = 1
  VirtualDeltas = {0, 1, 5}
  RealDeltas = {1, 3}
INVARIANTS
  HistoryContiguous
  ClockExact
  FleetExact
  TypeOK
  StationsCoherent
PROPERTIES
  Atomic
  EditsAdvance
CHECK_DEADLOCK FALSE
