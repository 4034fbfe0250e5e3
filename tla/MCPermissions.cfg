SPECIFICATION Spec
CONSTANTS
  Path <- MCPath
  Command <- MCCommand
  Segment <- MCSegment
  Segments <- MCSegments
  Line <- MCLine
  ClassOf <- MCClassOf
  Removes = {"tidy"}
  Planted = {"shim"}
  Home <- MCHome
  Workspace = "here"
  Reserved = {".env"}
  Secret = {".env"}
  SelfKills = {"killall"}
  HookDeny <- MCHookDeny
  HookAsk <- MCHookAsk
  RuleSets <- MCRuleSets
  Launched = {{}}
  Plans <- MCPlans
  FlagSets <- MCFlagSets
  Cap = 1
  Calls <- MCCalls
  MaxReviews = 1
INVARIANTS
  HardRulesHold
  ReadOnlyUntilApproved
  OnlyTheListUnasked
  PlanExecutable
  HumanBackstop
CHECK_DEADLOCK FALSE
