SPECIFICATION FairSpec
CONSTANTS
  Dirs <- MCDirs
  RootFiles <- MCFiles
  Top <- MCTop
  Plans <- MCPlans
  Workflows <- MCWorkflows
  Concerns <- MCConcerns
  MaxReviewAreas = 2
  MaxSubagentFanout = 3
  MaxWorkflowPhases = 2
  MaxListed = 1
  MaxSubagentDepth = 2
  Configs <- MCConfigs
  NoPropose = TRUE
  MaxSteps = 2
  SubagentMaxSteps = 1
  MaxTurns = 2
  MaxInterrupts = 2
INVARIANTS
  OneWriter
  NothingSkipped
PROPERTIES
  ImplementsOrderedMap
  FanOutReturns
CHECK_DEADLOCK FALSE
