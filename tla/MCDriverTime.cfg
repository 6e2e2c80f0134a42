SPECIFICATION Spec
CONSTANTS
  c1 = c1
  c2 = c2
  TickInterval = 2
  MaxAdvance = 3
  MaxElapsed = 8
  MaxRevision = 4
  MaxSequence = 8
  MaxVessels = 2
  MaxStations = 2
  SpeedScale = 2
  Speeds = {0, 3}
  Definitions = {"open"}
  InitialVesselCount = 1
  InitialStations <- NoStations
  InitialSpeed = 3
  Clients = {c1, c2}
  SimulationIDs = {"this"}
  SimulationID = "this"
  Chunk = 2
  MaxCatchUp = 5
  CountRequests = {}
  SpeedRequests = {0, 3}
  DefinitionRequests = {}
  MaxNow = 4
  ClockSteps <- Steps
INVARIANTS
  TimeExact
PROPERTIES
  CommandsSettled
  StoppedFrozen
SYMMETRY Interchangeable
CHECK_DEADLOCK FALSE
