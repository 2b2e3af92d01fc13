CONSTANTS
  dev = dev
  qa = qa
  ready = ready
  passing = passing
  failing = failing
  requested = requested
  planned = planned
  kickoff = kickoff
  c1 = c1
  t1 = t1
  t2 = t2
  noTerm = noTerm
  Role <- MCRole
  Topic <- MCTopic
  Publishes <- MCPublishes
  Subscribes <- NoSubscribes
  Served = {}
  Blocker <- MCBlocker
  FeatureRequested = requested
  PlanReady = planned
  KickoffReady = kickoff
  PmServed = FALSE
  Client = {c1}
  Reports <- MCReports
  ChatRoles = {}
  MaxClock = 3
  MaxEvents = 3
  MaxHandoffs = 1
  Term = {t1}
  RoleOf <- QaTerminal
  NoTerm = noTerm
  EndsWith <- MCEndsWith
  ExclusivePairs <- MCPairs
  Line <- QaLines
  HasFiles = TRUE
  Git = TRUE
  Poll = 1
  StrongIdle = 1
  WeakIdle = 2
  Dedupe = 1
  TailLines = 2
  EventWindow = 2
  MaxLines = 2
SPECIFICATION Spec
INVARIANTS TypeOK OncePerOutput ScanRemembers
CHECK_DEADLOCK FALSE
