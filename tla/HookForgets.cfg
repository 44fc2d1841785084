CONSTANTS
  Procs = {p1, p2}
  Projects = {a}
  PERSONAL_LONG = PERSONAL_LONG
  PERSONAL_SHORT = PERSONAL_SHORT
  PERSONAL_PROPOSALS = PERSONAL_PROPOSALS
  Cands = {mine}
  Store <- MCStore
  Suggested <- MCSuggested
  Body <- MCBody
  Contents = {x, y}
  Sensitive = {}
  Proposed = {mine}
  Noise = {}
  Discardable = {}
  Agents = {codex}
  Calls <- ForgetCalls
  FreshProjects = {a}
  NONE = NONE
  Free = Free
  Stale = Stale
  QUARANTINE = QUARANTINE
  MaxCopies = 2
  MaxCrashes = 0
  MaxWriteFailures = 0
  p1 = p1
  p2 = p2
  a = a
  b = b
  own = own
  mine = mine
  twin = twin
  x = x
  y = y
  codex = codex
  claude = claude
SPECIFICATION Spec
PROPERTIES
  DecisionFinal
