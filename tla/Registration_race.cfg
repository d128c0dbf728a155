SPECIFICATION Spec
CONSTANTS
  Task = {t1, t2, t3}
  Least = 2
  MaxTime = 2
  MaxCaptcha = 3
  Faults = TRUE
SYMMETRY Interchangeable
INVARIANTS EntryKept TakenWasMailed SafeInv
PROPERTIES AccountKept ImplementsSignup
CHECK_DEADLOCK FALSE
