SPECIFICATION Spec
VIEW View
CONSTANTS
    Versions = {1, 2}
    MaxCommands = 2
    MaxIncidents = 3
CHECK_DEADLOCK FALSE
INVARIANTS
  TypeOK
  CurrentInstalled
  FailureRestores
  SuccessAgrees
PROPERTIES
  EditsKept
  BootoutAsked
