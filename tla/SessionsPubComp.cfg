SPECIFICATION Spec
CONSTANTS
  p = p
  q = q
  Nil = Nil
  Conn = {c1, c2}
  ClientId = {q}
  Topic = {t1}
  Redial = "takeover"
  CleanChoices <- FixedChoices
  ClusterStarted = TRUE
INVARIANT RequestFindsSession
