SPECIFICATION FairSpec
CONSTANTS
  Roles = {"fleet", "stations"}
  MaxMounts = 2
  Values <- NewValues
  Initial <- OldValues
  Bounds <- SmallBounds
  Starts = {"return", "throw"}
INVARIANTS
  MountsExclusive
  OneRun
  AnswerFollowsCommand
PROPERTIES
  PollsAdvance
  DestroyedQuiet
  Converges
CHECK_DEADLOCK FALSE
