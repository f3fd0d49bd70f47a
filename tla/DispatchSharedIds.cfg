SPECIFICATION Spec
CONSTANTS
  a = a
  b = b
  c = c
  ClientId = {a}
  NumMsg = 2
  Publisher <- AllFromA
  NoClient = NoClient
  Qos <- OneQos2
  Subscribers <- AllToA
  ServerPid = {i1, i2}
  ClientPid = {i1, i2}
  NoPid = NoPid
  OnlineAtStart = {a}
  MaxDrops = 0
  MaxRead = 2
PROPERTY OutgoingFlowKept
