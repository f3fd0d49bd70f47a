SPECIFICATION FairSpec
CONSTANTS
  a = a
  b = b
  c = c
  ClientId = {a, b}
  NumMsg = 2
  Publisher <- AllFromA
  NoClient = NoClient
  Qos <- AllQos1
  Subscribers <- AllToB
  ServerPid = {i1}
  ClientPid = {i1, i2}
  NoPid = NoPid
  OnlineAtStart = {a, b}
  MaxDrops = 0
  MaxRead = 2
PROPERTY DispatcherReturns
