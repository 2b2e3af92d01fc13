CONSTANTS
  dev = dev
  qa = qa
  ready = ready
  passing = passing
  failing = failing
  requested = requested
  planned = planned
  kickoff = kickoff
  c1 = c1
  t1 = t1
  t2 = t2
  noTerm = noTerm
  Role <- LiveRole
  Topic <- LiveTopic
  Publishes <- LivePublishes
  Subscribes <- LiveSubscribes
  Served = {}
  Blocker = {}
  FeatureRequested = requested
  PlanReady = planned
  KickoffReady = planned
  PmServed = FALSE
  Client = {}
  Reports = {}
  ChatRoles = {}
  MaxClock = 4
  MaxEvents = 3
  MaxHandoffs = 1
  Term = {t1}
  RoleOf <- DevTerminal
  NoTerm = noTerm
  EndsWith <- LiveEndsWith
  ExclusivePairs = {}
  Line <- LiveLines
  HasFiles = FALSE
  Git = FALSE
  Poll = 1
  StrongIdle = 1
  WeakIdle = 2
  Dedupe = 2
  TailLines = 2
  EventWindow = 3
  MaxLines = 2
SPECIFICATION FairSpec
PROPERTY ClaimsReachBus
CHECK_DEADLOCK FALSE
