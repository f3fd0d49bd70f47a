SPECIFICATION Spec
CONSTANTS
  a = a
  b = b
  Client = {a, b}
  Clean = {a}
  Request = {r, s}
  Reading <- AllRead
  Window = 1
  ClusterStarted = TRUE
  MaxLogins = 2
  MaxPackets = 1
  MaxRequests = 2
INVARIANTS AnswerIsCounted

CHECK_DEADLOCK FALSE
