SPECIFICATION Spec
CONSTANTS
  Account = {a1, a2}
  Viewer = a1
  Unset = Unset
  Day <- Days
  NewYear <- Years
  Week = 2
  NoteTime <- Moments
  PerDay = 2
  YearSpan = 5
INVARIANTS FilterExact ReadableIsListed NoteListedIffShown SeenAloneIffInBulk ShownIsPlayable
CHECK_DEADLOCK FALSE
