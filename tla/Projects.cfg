SPECIFICATION Spec
CONSTANTS
    p1 = p1
    p2 = p2
    codex = codex
    claude = claude
    Roots = {r1, r2}
    Legacy = {r1}
    Agents = {codex, claude}
    Procs = {p1, p2}
    NoProc = NoProc
    NoRoot = NoRoot
    MaxCalls = 2
    MaxIncidents = 2
VIEW View
SYMMETRY Symmetry
CHECK_DEADLOCK FALSE
INVARIANTS
  TypeOK
  ReleasedClean
  EntriesHaveScript
PROPERTIES
  RegistrationsKept
  FailureRestores
