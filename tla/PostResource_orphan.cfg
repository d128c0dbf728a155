SPECIFICATION FairSpec
CONSTANTS
  Account = {a1}
  Post = {p1}
  Resource = {r1, r2}
  Task = {t1, t2}
  Poster = {a1}
  Reviewer = {a1}
  Remover = {a1}
  Maintainer = {a1}
  NoAccount = NoAccount
  NoPost = NoPost
  Faults = FALSE
  Requests = {"new", "modify", "review", "remove", "bulk", "unused"}
INVARIANTS NoOrphanClaim
CHECK_DEADLOCK FALSE
