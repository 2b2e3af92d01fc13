CONSTANTS
  dev = dev
  qa = qa
  built = built
  failing = failing
  requested = requested
  planned = planned
  kickoff = kickoff
  c1 = c1
  Role <- MCRole
  Topic <- MCTopic
  Publishes <- MCPublishes
  Subscribes <- MCSubscribes
  Served <- MCRole
  Blocker <- MCBlocker
  FeatureRequested = requested
  PlanReady = planned
  KickoffReady = kickoff
  PmServed = TRUE
  Client = {c1}
  Reports <- MCReports
  ChatRoles <- MCRole
  MaxClock = 2
  MaxEvents = 3
  MaxHandoffs = 2
SPECIFICATION BusSpec
INVARIANTS BusTypeOK DispatchDepthOne PlansAnswerBlockers
PROPERTY ImplementsLedger
CHECK_DEADLOCK FALSE
