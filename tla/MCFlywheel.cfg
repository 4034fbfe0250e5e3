SPECIFICATION FlySpec
CONSTANT
  Scenarios <- MCScenarios
INVARIANTS
  TrainedUnlessResumed
  GoodTurnsKept
  ToldIsGranted
  HeldOut
CHECK_DEADLOCK FALSE
