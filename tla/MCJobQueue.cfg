SPECIFICATION MCSpec
CONSTANTS
  Jobs <- MCJobs
  Priority <- MCPriority
  Threads = {w1, w2}
  Callers = {c1}
  SPARE_ALERTS = 2
  MAX_COUNTED = 2
  ACCEPTS = 1
  News = {1, 2}
  Admins = {admin1}
  Nobody = Nobody
  MAX_STARTS = 2
  MAX_CONNECTS = 1
  MAX_FAILS = 1
CHECK_DEADLOCK FALSE
INVARIANTS
  AlertInv
  BoundedBypass
  AcceptsInv
PROPERTIES
  QueuedJobPopped
  ConnectionsTaken
