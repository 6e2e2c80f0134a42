SPECIFICATION Spec
CONSTANTS
  c1 = c1
  c2 = c2
  TickInterval = 2
  MaxAdvance = 3
  MaxElapsed = 8
  MaxRevision = 3
  MaxSequence = 8
  MaxVessels = 2
  MaxStations = 1
  SpeedScale = 2
  Speeds = {1}
  Definitions = {"open"}
  InitialVesselCount = 1
  InitialStations <- OneStation
  InitialSpeed = 1
  Clients = {c1, c2}
  SimulationIDs = {"this", "earlier"}
  SimulationID = "this"
  Chunk = 2
  MaxCatchUp = 5
  CountRequests = {0, 3}
  SpeedRequests = {}
  DefinitionRequests = {"open", "bent"}
  MaxNow = 1
  ClockSteps = {1}
INVARIANTS
  ChecksHold
SYMMETRY Interchangeable
CHECK_DEADLOCK FALSE
