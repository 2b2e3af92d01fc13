CONSTANTS
  dev = dev
  qa = qa
  built = built
  tested = tested
  Agent = {dev, qa}
  Topic = {built, tested}
  Wants <- MCWants
  Makes <- MCMakes
  Outside = {built}
  Timeout = 2
  Nap = 1
  Limit = 2
  MaxClock = 4
  MaxEvents = 3
SPECIFICATION FairSpec
INVARIANT FirstNewMatch
PROPERTIES NoEventTwice EveryWaitEnds
CHECK_DEADLOCK FALSE
