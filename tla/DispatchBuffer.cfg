SPECIFICATION Spec
CONSTANTS
  a = a
  b = b
  c = c
  ClientId = {a, b, c}
  NumMsg = 1
  Publisher <- AllFromA
  NoClient = NoClient
  Qos <- AllQos1
  Subscribers <- AllToBAndC
  ServerPid = {i1, i2}
  ClientPid = {i1, i2}
  NoPid = NoPid
  OnlineAtStart = {a, b, c}
  MaxDrops = 0
  MaxRead = 2
INVARIANT IdIsOfThisClient
