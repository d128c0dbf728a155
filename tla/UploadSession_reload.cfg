SPECIFICATION Spec
CONSTANTS
  Account = {a1}
  Session = {s1}
  Upload = {u1, u2}
  MaxLen = 2
  Nobody = Nobody
  NoFile = NoFile
  Hole = Hole
  Nowhere = Nowhere
  Faults = TRUE
INVARIANTS ReadsDecode
CHECK_DEADLOCK FALSE
