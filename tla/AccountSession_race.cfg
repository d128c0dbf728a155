SPECIFICATION Spec
CONSTANTS
  Task = {t1, t2}
  Password = {w1, w2}
  Unknown = Unknown
  Least = 1
  MaxTime = 2
  MaxCaptcha = 3
  MaxToken = 2
  Faults = TRUE
SYMMETRY Interchangeable
INVARIANTS ResetRevokes CaptchaSpent SafeInv
PROPERTIES MailIsCurrent ImplementsCredentials
CHECK_DEADLOCK FALSE
