SPECIFICATION Spec
CONSTANTS
  p = p
  q = q
  Nil = Nil
  Conn = {c1, c2, c3}
  ClientId = {p, q}
  Topic = {t1}
  Redial = "afterCleanup"
  CleanChoices <- FreeChoices
  ClusterStarted = TRUE
SYMMETRY Symmetry
INVARIANT CleanInheritsKept
PROPERTY ImplementsRegistry
