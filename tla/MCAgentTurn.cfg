SPECIFICATION FairSpec
CONSTANTS
  File <- MCFile
  Named <- MCFile
  Verifiable <- MCFile
  Runnable <- MCFile
  Item <- MCItem
  Flags <- AllFlags
  MaxSteps = 4
  MaxCalls = 1
  Retries <- Once
  MaxIterations = 2
  Headroom = 1
  MaxDenials = 2
  NarrationMax = 2
  StallMax = 1
INVARIANTS
  FinalIsBacked
  KeptIsDelivered
  VerifiedByACheck
PROPERTIES
  TurnEnds
