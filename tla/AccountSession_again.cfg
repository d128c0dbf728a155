SPECIFICATION Spec
CONSTANTS
  Task = {t1}
  Password = {w1}
  Unknown = Unknown
  Least = 2
  MaxTime = 4
  MaxCaptcha = 2
  MaxToken = 1
  Faults = FALSE
INVARIANTS RefusedOnlyWhenRecent
CHECK_DEADLOCK FALSE
