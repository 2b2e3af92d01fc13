CONSTANTS
  c1 = c1
  Client = {c1}
  Capacity = 2
  Keep = 2
  PriorLen = 1
  MaxChunks = 4
SPECIFICATION FairPtySpec
INVARIANTS ViewFaithful LogFaithful
PROPERTIES EveryChunkLogged ImplementsTranscript
CHECK_DEADLOCK FALSE
