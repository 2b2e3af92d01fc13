CONSTANTS
  pm = pm
  dev = dev
  tests = tests
  passing = passing
  qa = qa
  ci = ci
  ui = ui
  feature = feature
  requested = requested
  NoTopic = NoTopic
  Name = {pm, dev}
  Word = {tests, passing, qa, ci, ui, feature, requested}
  Topic <- MCTopic
  Rank <- MCRank
  External <- MCExternal
  RawTeam <- MCRawTeam
  NextTeam <- MCNextTeam
SPECIFICATION GraphSpec
INVARIANTS EverySubscriptionProduced NothingWantedIsDropped WokenAsAsked
