SPECIFICATION FairSpec
CONSTANTS
  c1 = c1
  TickInterval = 2
  MaxAdvance = 3
  MaxElapsed = 8
  MaxRevision = 3
  MaxSequence = 8
  MaxVessels = 2
  MaxStations = 2
  SpeedScale = 2
  Speeds = {0, 3}
  Definitions = {"open"}
  InitialVesselCount = 1
  InitialStations <- NoStations
  InitialSpeed = 3
  Clients = {c1}
  SimulationIDs = {"this"}
  SimulationID = "this"
  Chunk = 2
  MaxCatchUp = 5
  CountRequests = {}
  SpeedRequests = {0, 3}
  DefinitionRequests = {}
  MaxNow = 3
  ClockSteps = {1}
PROPERTIES
  CatchesUp
  CancelStops
  CommandsReturn
CHECK_DEADLOCK FALSE
