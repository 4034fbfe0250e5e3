SPECIFICATION Spec
CONSTANTS
  a = a
  b = b
  c = c
  x = x
  y = y
  z = z
  Gone = Gone
  File <- MCFile
  Token <- MCToken
  Binary = {}
  Patches <- MCMoves
  Disks <- MCDisks
  Denials = {{}}
INVARIANT
  FailureChangesNothing
CHECK_DEADLOCK FALSE
