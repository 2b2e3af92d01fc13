CONSTANTS
  qa = qa
  uiDev = uiDev
  uiDash = uiDash
  l1 = l1
  l2 = l2
  l3 = l3
  l4 = l4
  ws = ws
  tree = tree
  Here = Here
  Nobody = Nobody
  NoTime = NoTime
  Nowhere = Nowhere
  Latest = Latest
  Role = {qa, uiDev, uiDash}
  Launch = {l1, l2, l3, l4}
  PlanOf <- MCPlan
  Escape <- MCEscape
  PlainPath = TRUE
  Cap = 1
  Elsewhere = 1
  Slack = 2
  Earlier = {l3, l4}
  MaxLag = 1
  MaxTime = 4
  MaxLines <- MCLines
  Worktree = {uiDev, uiDash}
SPECIFICATION CostSpec
INVARIANTS TokensConserved SpacedSessionsRight
PROPERTY PastStays
CHECK_DEADLOCK FALSE
