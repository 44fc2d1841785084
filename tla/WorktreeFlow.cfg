SPECIFICATION Spec
CONSTANTS
    Tasks = {t1, t2}
    Free = Free
    Dead = Dead
    Absent = Absent
    MaxCalls = 6
    MaxCommits = 2
    MaxIncidents = 1
SYMMETRY Symmetry
CHECK_DEADLOCK FALSE
INVARIANTS
  TypeOK
  AcceptedOnly
  RegistryTrue
