SPECIFICATION Spec
CONSTANTS
  p = p
  q = q
  Nil = Nil
  Conn = {c1, c2, c3}
  ClientId = {p, q}
  Topic = {t1, t2}
  Redial = "afterClose"
  CleanChoices <- FixedChoices
  ClusterStarted = TRUE
SYMMETRY Symmetry
INVARIANTS LiveClientRegistered GrantedIsStored RequestFindsSession
