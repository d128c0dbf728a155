SPECIFICATION Spec
CONSTANTS
  Account = {a1}
  Post = {p1, p2}
  Resource = {r1, r2}
  Task = {t1, t2}
  Poster = {a1}
  Reviewer = {a1}
  Remover = {a1}
  Maintainer = {a1}
  NoAccount = NoAccount
  NoPost = NoPost
  Faults = TRUE
  Requests = {"new", "modify", "review", "remove", "bulk"}
SYMMETRY Interchangeable
INVARIANTS OneHome SafeInv
PROPERTIES OrphanedByHolder ImplementsLife DestroyedByHolder HeldPostFrozen ChangeIsReviewed AnswerGetsNearer
CHECK_DEADLOCK FALSE
