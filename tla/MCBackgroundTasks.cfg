SPECIFICATION TasksSpec
CONSTANTS
  t1 = t1
  t2 = t2
  t3 = t3
  Task <- MCTask
  Cap = 2
  Grace = 3
SYMMETRY MCSymmetry
INVARIANTS
  DoneIsGenuine
  PromptTold
  NoOrphans
PROPERTIES
  ImplementsLifecycle
CHECK_DEADLOCK FALSE
