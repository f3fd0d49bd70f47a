SPECIFICATION Spec
CONSTANTS
  p = p
  q = q
  Nil = Nil
  Conn = {c1, c2, c3}
  ClientId = {p}
  Topic = {}
  Redial = "takeover"
  CleanChoices <- FreeChoices
  ClusterStarted = TRUE
SYMMETRY Symmetry
INVARIANTS TypeOK LoginExcludesProcess NoGhostLogin
