SPECIFICATION FairSpec
CONSTANTS
  a = a
  b = b
  Client = {a, b}
  Clean = {a}
  Request = {r}
  Reading <- BStalls
  Window = 1
  ClusterStarted = TRUE
  MaxLogins = 2
  MaxPackets = 1
  MaxRequests = 1

PROPERTIES EveryoneReturns
CHECK_DEADLOCK FALSE
