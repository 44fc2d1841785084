SPECIFICATION Spec
CONSTANTS
    Codex = Codex
    Claude = Claude
    Drafts = {d1, d2}
    Procs = {p1, p2}
    Free = Free
    Dead = Dead
    Gone = Gone
    Nothing = Nothing
    NoDraft = NoDraft
    MaxCalls = 3
    MaxEdits = 1
    MaxIncidents = 2
SYMMETRY Symmetry
CHECK_DEADLOCK FALSE
INVARIANTS
  TypeOK
  NothingLost
  Settled
  PublishingHeld
PROPERTIES
  EditsKept
