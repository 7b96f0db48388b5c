SPECIFICATION MCSpec
CONSTANTS
  \* two administrators and one name beside that of the first user
  Names = {root, anna}
  Root = root
  Ids <- MCIds
  Items <- MCItems
  SUBTABLE = 2
  NoName = NoName
  Threads = {s, t}
  NoThread = NoThread
  Edits = {e1, e2}
  Template = TRUE
  MAX_REQUESTS = 3
  t1 = t1
  t2 = t2
  t3 = t3
  P = P
  Q = Q
  D = D
  E = E
  fa = fa
  DirThreads = {t1, t2, t3}
  Dirs = {P, Q, D, E}
  NoDir = NoDir
  ParentDir <- MCParent
  Files = {fa}
  Self = Self
  Existing = {P, Q, D}
  Plans <- MCPlans
  dwCacheBucketSize = 2
  MAX_JOBS <- MCJobs
SYMMETRY EditorSymmetry
CHECK_DEADLOCK FALSE
INVARIANTS
  UsersKept
  Durable
  DirectoryInv
  OwnersKept
PROPERTIES
  EditsKept
