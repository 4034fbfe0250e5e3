SPECIFICATION Spec
CONSTANTS
  a = a
  b = b
  c = c
  x = x
  y = y
  z = z
  Gone = Gone
  File <- MCFile
  Token <- MCToken
  Binary = {z}
  Patches <- MCPatches
  Disks <- MCDisks
  Denials <- MCDenials
INVARIANTS
  RollbackExact
  AllOpsLand
  LedgerAccountsForDisk
CHECK_DEADLOCK FALSE
