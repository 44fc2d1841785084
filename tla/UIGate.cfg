CONSTANTS
  p1 = p1
  p2 = p2
  t1 = t1
  d1 = d1
  d2 = d2
  d3 = d3
  f1 = f1
  f2 = f2
  k5 = k5
  k6 = k6
  Procs = {p1, p2}
  Tasks = {t1}
  Baseline = t1
  Digests = {d1, d2, d3}
  Files = {f1, f2}
  Scope <- ScopeOf
  Keys <- GateKeys
  Calls <- GateCalls
  UNRESOLVED = UNRESOLVED
  MISSING = MISSING
  BROKEN = BROKEN
  NONE = NONE
  Free = Free
  Stale = Stale
  Retried <- RetriedKeys
  MaxCrashes = 1
SPECIFICATION Spec
VIEW View
SYMMETRY Symmetry
INVARIANTS
  TypeOK
  AllowedIsApproved
  ContextCurrent
PROPERTIES
  EffectOnce
  RecordsKept
CHECK_DEADLOCK FALSE
