SPECIFICATION Spec
CONSTANTS
  p = p
  q = q
  Nil = Nil
  Conn = {c1, c2}
  ClientId = {p, q}
  Topic = {t1}
  Redial = "afterClose"
  CleanChoices <- FixedChoices
  ClusterStarted = TRUE
INVARIANT FoundSessionIsKept
