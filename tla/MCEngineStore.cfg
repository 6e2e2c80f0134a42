SPECIFICATION Spec
CONSTANTS
  TickInterval = 2
  MaxAdvance = 8
  MaxElapsed = 8
  MaxInt = 100
  MaxRevision = 5
  MaxSequence = 5
  MaxMMSI = 3
  MaxVessels = 2
  MaxStations = 2
  MessageLimit = 3
  ReceptionHistoryLimit = 2
  TargetLimit = 2
  ExpiryAge = 4
  RateBuckets = 2
  SpeedScale = 2
  Speeds = {1}
  Definitions <- MCDefinitions
  LinkOutcomes = {"received", "probabilistic_loss"}
  InitialVesselCount = 1
  InitialStations <- TwoStations
  InitialSpeed = 1
  VirtualDeltas = {1, 4}
  RealDeltas = {}
  RecentReceptionLimit = 2
  FreshAge = 1
  StaleAge = 2
  Millisecond = 2
  TextRank <- ReverseRank
INVARIANTS
  StoreExact
  AnswersAccepted
  PagingComplete
CHECK_DEADLOCK FALSE
