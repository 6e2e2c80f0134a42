SPECIFICATION ShadowSpec
CONSTANTS
  TickInterval = 2
  MaxAdvance = 8
  MaxElapsed = 8
  MaxInt = 100
  MaxRevision = 6
  MaxSequence = 8
  MaxMMSI = 3
  MaxVessels = 2
  MaxStations = 1
  MessageLimit = 3
  ReceptionHistoryLimit = 2
  TargetLimit = 1
  ExpiryAge = 4
  RateBuckets = 2
  SpeedScale = 2
  Speeds = {1}
  Definitions <- OpenOrOnlyA
  LinkOutcomes = {"received", "probabilistic_loss"}
  InitialVesselCount = 1
  InitialStations <- OneStation
  InitialSpeed = 1
  VirtualDeltas = {1, 3, 6}
  RealDeltas = {}
  RecentReceptionLimit = 2
  FreshAge = 1
  StaleAge = 2
  Millisecond = 2
  TextRank <- ReverseRank
INVARIANTS
  SplitIndependent
  RatesExact
  SnapshotsAccepted
CHECK_DEADLOCK FALSE
