SPECIFICATION FairViewSpec
CONSTANTS
  Stations = {"s1"}
  HistoryLimit = 1
  PageLimit = 1
  RowLimit = 1
  MaxReceptions <- TwoRuns
  MaxClicks = 1
  MaxRF <- TwoThenOne
INVARIANTS
  PageOfSnapshot
  Framed
PROPERTIES
  Converges
CHECK_DEADLOCK FALSE
