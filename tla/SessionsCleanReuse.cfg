SPECIFICATION Spec
CONSTANTS
  p = p
  q = q
  Nil = Nil
  Conn = {c1, c2}
  ClientId = {p}
  Topic = {t1}
  Redial = "afterCleanup"
  CleanChoices <- FreeChoices
  ClusterStarted = TRUE
INVARIANT CleanStart
