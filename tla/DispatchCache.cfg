SPECIFICATION Spec
CONSTANTS
  a = a
  b = b
  c = c
  ClientId = {a, b}
  NumMsg = 1
  Publisher <- AllFromA
  NoClient = NoClient
  Qos <- AllQos2
  Subscribers <- AllToB
  ServerPid = {i1, i2}
  ClientPid = {i1, i2}
  NoPid = NoPid
  OnlineAtStart = {a, b}
  MaxDrops = 0
  MaxRead = 2
INVARIANT CacheIsUnfinished
