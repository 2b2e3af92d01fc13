CONSTANTS
  chat = chat
  chat2 = chat2
  bare = bare
  auto = auto
  manual = manual
  read = read
  write = write
  shell = shell
  Run = {chat, chat2, manual}
  Headless = {manual}
  Autonomous = {}
  Tool <- MCTool
  ReadOnly <- MCReadOnly
  MayHang = {shell}
  Perm <- MCPerm
  MaxTurns = 1
  Batches <- MCBatches
SPECIFICATION FairToolSpec
INVARIANTS CardsAnswerable EffectsLicensed
PROPERTIES RunsHeldByPeopleOrCommands ImplementsConsent
CHECK_DEADLOCK FALSE
