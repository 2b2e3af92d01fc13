CONSTANTS
  qa = qa
  pm = pm
  v0 = v0
  v1 = v1
  v2 = v2
  k0 = k0
  k1 = k1
  qaFile = qaFile
  pmFile = pmFile
  libFile = libFile
  c1 = c1
  c2 = c2
  Absent = Absent
  Empty = Empty
  Mixed = Mixed
  NoWrite = NoWrite
  Name = {qa, pm}
  Body = {v0, v1, v2}
  Kick = {k0, k1}
  File = {qaFile, pmFile, libFile}
  WsFile = {qaFile, pmFile}
  UserFile = {}
  FileOf <- MCFileOf
  OwnFiles <- MCOwnFiles
  Team <- MCTeam
  Plan <- MCPlan
  FirstDisk <- MCFirstDisk
  Call = {c1, c2}
  MaxCalls = 3
SPECIFICATION FilesSpec
INVARIANTS FilesTypeOK OverridesWin UndisturbedTeam PlansChangeKickoffsOnly LibraryKeepsDefinitions
SYMMETRY MCSymmetry
CHECK_DEADLOCK FALSE
