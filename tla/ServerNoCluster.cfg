SPECIFICATION FairSpec
CONSTANTS
  a = a
  b = b
  Client = {a, b}
  Clean = {a}
  Request = {r}
  Reading <- AllRead
  Window = 1
  ClusterStarted = FALSE
  MaxLogins = 2
  MaxPackets = 1
  MaxRequests = 1

PROPERTIES EveryoneReturns
CHECK_DEADLOCK FALSE
