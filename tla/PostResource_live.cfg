SPECIFICATION FairSpec
CONSTANTS
  Account = {a1, a2}
  Post = {p1, p2}
  Resource = {r1}
  Task = {t1, t2}
  Poster = {a1, a2}
  Reviewer = {a1}
  Remover = {a2}
  Maintainer = {a1}
  NoAccount = NoAccount
  NoPost = NoPost
  Faults = FALSE
  Requests = {"new", "modify", "review", "remove", "bulk", "unused"}
INVARIANTS NeverStuck
PROPERTIES OrphanedByHolder BornSound EveryRequestEnds
CHECK_DEADLOCK FALSE
