SPECIFICATION FairSpec
CONSTANTS
  MaxCalls = 2
  MaxSteps = 1
  MaxAsks = 2
  MaxLives = 3
  Digest = {"d"}
  KeepRecent = 2
  CompactAt = 6
  HardCap = 8
  MaxRounds = 2
  Base = 2
  ToolWeight = 2
  Gists <- MCGists
  Flags = {"breaker", "interrupt", "drop_noise", "situational"}
INVARIANTS
  SentPaired
  SentFits
  Accounted
  DeliveredOnce
PROPERTIES
  TurnReturns
CHECK_DEADLOCK FALSE
