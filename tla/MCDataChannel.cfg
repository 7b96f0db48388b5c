SPECIFICATION Spec
CONSTANTS
  MAX_COMMANDS = 3
  MAX_SELECTS = 2
  HANDLES = 2
INVARIANTS
  TransferHasOneOwner
  Released
PROPERTIES
  TransferEnds
  KilledCloses
\* a closed connection does nothing more, and there are two deadlocks
CHECK_DEADLOCK FALSE
