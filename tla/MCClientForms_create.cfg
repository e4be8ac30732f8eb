SPECIFICATION Spec
CONSTANTS
  Kinds <- MCCreateDialog
  MaxCalls = 2
  MaxFillings = 2
  MaxOpenings = 2
  MaxPieces = 1
INVARIANT MadeOnce
CHECK_DEADLOCK FALSE
