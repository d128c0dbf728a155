SPECIFICATION FairSpec
CONSTANTS
  a1 = a1
  a2 = a2
  a3 = a3
  Account = {a1, a2, a3}
  Task = {t1, t2}
  Setter = set
  Permission = {set, other}
  Granted <- Ladder
  NoAccount = NoAccount
  Faults = TRUE
INVARIANTS SetterRemains SafeInv NeverStuck
PROPERTIES NoEscalation EveryRequestEnds
CHECK_DEADLOCK FALSE
