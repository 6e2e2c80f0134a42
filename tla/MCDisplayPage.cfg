SPECIFICATION Spec
CONSTANTS
  Stations = {"s1", "s2"}
  HistoryLimit = 1
  PageLimit = 1
  RowLimit = 2
  MaxReceptions <- TwoRuns
  MaxClicks = 2
INVARIANTS
  SelectionShown
  RowsContinue
  OneLoop
CHECK_DEADLOCK FALSE
