CONSTANTS
  chat = chat
  chat2 = chat2
  bare = bare
  auto = auto
  manual = manual
  read = read
  write = write
  shell = shell
  Run = {chat, bare}
  Headless = {}
  Autonomous = {}
  Tool <- MCTool
  ReadOnly <- MCReadOnly
  MayHang = {shell}
  Perm <- MCPerm
  MaxTurns = 1
  Batches <- UnsetBatches
SPECIFICATION ToolSpec
INVARIANT ApprovedCallsAct
CHECK_DEADLOCK FALSE
