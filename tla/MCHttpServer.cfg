SPECIFICATION FairSpec
CONSTANTS
  r1 = r1
  r2 = r2
  r3 = r3
  Requests = {r1, r2, r3}
  HasWork = TRUE
INVARIANTS
  WorkOutlivesRequests
  ResultComplete
PROPERTIES
  RunReturns
CHECK_DEADLOCK FALSE
