SPECIFICATION Spec
CONSTANTS
  Account = {a1, a2}
  Session = {s1, s2}
  Upload = {u1, u2}
  MaxLen = 2
  Nobody = Nobody
  NoFile = NoFile
  Hole = Hole
  Nowhere = Nowhere
  Faults = TRUE
SYMMETRY Interchangeable
INVARIANTS RecordHasPayload PayloadsApart SoleUploadIntact OneResourcePerSession AcceptedFindsBuffer SafeInv
PROPERTIES NoLateAccept ImplementsDeposits
CHECK_DEADLOCK FALSE
