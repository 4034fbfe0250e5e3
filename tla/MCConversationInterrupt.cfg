SPECIFICATION Spec
CONSTANTS
  MaxCalls = 2
  MaxSteps = 2
  MaxAsks = 2
  MaxLives = 1
  Digest = {}
  KeepRecent = 2
  CompactAt = 6
  HardCap = 8
  MaxRounds = 2
  Base = 2
  ToolWeight = 2
  Gists <- MCGists
  Flags = {"interrupt"}
INVARIANT
  NeverDangling
CHECK_DEADLOCK FALSE
