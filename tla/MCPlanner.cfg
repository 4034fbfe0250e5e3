SPECIFICATION FairSpec
CONSTANTS
  Retries = 2
  WarmupBudget = 20
  ProbeTime = {0, 20}
  EmptyLimit = 4
  Messages <- MCMessages
  Configs <- MCConfigs
  Threshold = 2
  MaxSteps = 4
  MaxTurns = 3
  MaxReasks = 1
INVARIANTS
  RetriedToTheEnd
  ThinksNoLess
PROPERTIES
  CallReturns
CHECK_DEADLOCK FALSE
