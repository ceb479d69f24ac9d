\* Two timers of two intervals, one of them no multiple of a round.
SPECIFICATION Spec
CONSTANTS
  Timer = {a, b}
  Interval = {100, 250}
  TIMER_INTERVAL_MIN_MS = 100
  MaxUUID = 2
  MaxCalls = 4
SYMMETRY Symmetric
INVARIANTS
  TypeOK
PROPERTIES
  ExpiresOnTime
  StoppedIsSilent
CHECK_DEADLOCK FALSE
