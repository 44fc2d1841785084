CONSTANTS
  Handlers = {h1, h2, h3}
  Events = {k1}
  Contexts = {x1, x2}
  NONE = NONE
  Free = Free
  TTL = 2
  RESERVATION = 1
  LateFailures = TRUE
  MaxClock = 2
  MaxCrashes = 1
  MaxFailures = 1
SPECIFICATION FairSpec
INVARIANTS
  TypeOK
  HandledAlone
  ReservationReleased
  PacketsAgree
PROPERTIES
  CompletedOnce
  HandlersFinish
CHECK_DEADLOCK FALSE
