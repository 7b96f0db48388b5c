SPECIFICATION PoolFairSpec
CONSTANTS
  a = a  c = c
  Jobs = {a, c}
  Priority <- MCPriority
  Threads = {w1, w2, w3}
  Callers = {k}
  SPARE_ALERTS = 2
  MAX_COUNTED = 4
  NoThread = NoThread
  NoJob = NoJob
  InitialSizes = {1, 2}
  Awaits <- MCAwaits
  Blocking <- MCBlocking
  MAX_NESTING = 2
  CreateFails = {"resources", "thread"}
CHECK_DEADLOCK FALSE
INVARIANTS
  PoolInv
PROPERTIES
  PoolServes
  ServesJobQueue
