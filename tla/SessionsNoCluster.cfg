SPECIFICATION Spec
CONSTANTS
  p = p
  q = q
  Nil = Nil
  Conn = {c1, c2, c3}
  ClientId = {p, q}
  Topic = {t1}
  Redial = "takeover"
  CleanChoices <- FixedChoices
  ClusterStarted = FALSE
SYMMETRY Symmetry
CHECK_DEADLOCK FALSE
PROPERTY NoServiceWithoutCluster
