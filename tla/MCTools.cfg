CONSTANTS
  Scenarios <- MCScenarios
  Near <- MCNear
  Threshold = 2
  Tie = 1
  WalkCap = 2
  LeastFit = 1
SPECIFICATION ToolsSpec
INVARIANTS
  StrongestEvidence
  Contained
PROPERTIES
  JudgedByTheTurn
  EditsLandOnce
  CallEnds
CHECK_DEADLOCK FALSE
