SPECIFICATION FairSpec
CONSTANTS
  p = p
  q = q
  Nil = Nil
  Conn = {c1, c2}
  ClientId = {p}
  Topic = {}
  Redial = "takeover"
  CleanChoices <- FreeChoices
  ClusterStarted = TRUE
\* Two connections only: the system comes to rest, or the process dies.
CHECK_DEADLOCK FALSE
INVARIANTS TypeOK LoginExcludesProcess NoGhostLogin
PROPERTIES Served LoginRegisters GoneIsCleanedUp
