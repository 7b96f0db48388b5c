SPECIFICATION MCSpec
CONSTANTS
  c1 = c1
  c2 = c2
  c3 = c3
  a = a
  b = b
  ua = ua
  A = A
  B = B
  Clients = {c1, c2, c3}
  Addresses = {a, b}
  AddressOf <- MCAddressOf
  Infos = {i, j}
  NoInfo = NoInfo
  Resolvers = {r}
  Classes = {A}
  NoClass = NoClass
  Rules <- MCRules
  dwHostArraySize = 1
  dwMaxTicks = 1
  Immune = {}
  dwMaxResolverThreads = 1
  bReverseResolveIPs = TRUE
  Slots <- MCSlots
  Killers = {k}
  Users = {ua}
  UserOf <- MCUserOf
  MayFill = {}
  LimitPerIP <- MCLimitPerIP
  Limits <- MCLimits
  lMaxClients = 2
  ClassLimit <- MCClassLimit
  MAX_KILLS = 1
  MAX_LOGINS = 1
  NoOne = NoOne
  starter = starter
  socket = socket
  printer = printer
  disabler = disabler
  Starters = {starter}
  Sockets = {socket}
  Printers = {printer}
  Disablers = {disabler}
  Names <- MCNames
  Structs = {1, 2, 3}
  Plans <- MCPlans
  Turns <- MCTurns
  OutPorts = {TRUE, FALSE}
  MAX_RETRIES = 1
SYMMETRY Twins
INVARIANTS
  PrintedIsLive
CHECK_DEADLOCK FALSE
