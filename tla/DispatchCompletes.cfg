SPECIFICATION FairSpec
CONSTANTS
  a = a
  b = b
  c = c
  ClientId = {a, b}
  NumMsg = 3
  Publisher <- LastFromPeer
  NoClient = NoClient
  Qos <- OneQos2
  Subscribers <- AllToB
  ServerPid = {i1, i2, i3}
  ClientPid = {i1}
  NoPid = NoPid
  OnlineAtStart = {a}
  MaxDrops = 0
  MaxRead = 2
PROPERTIES DispatcherReturns FlowsComplete Delivered
