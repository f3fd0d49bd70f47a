SPECIFICATION FairSpec
CONSTANTS
  a = a
  b = b
  Client = {a}
  Clean = {a}
  Request = {r}
  Reading <- AllBetween
  Window = 1
  ClusterStarted = TRUE
  MaxLogins = 2
  MaxPackets = 3
  MaxRequests = 0

PROPERTIES EveryoneReturns
CHECK_DEADLOCK FALSE
