SPECIFICATION Spec
CONSTANTS
  a = a
  b = b
  c = c
  ClientId = {a, b, c}
  NumMsg = 4
  Publisher <- AllFromA
  NoClient = NoClient
  Qos <- EachQos
  Subscribers <- Qos1ToC
  ServerPid = {i1, i2}
  ClientPid = {j1}
  NoPid = NoPid
  OnlineAtStart = {a, b}
  MaxDrops = 0
  MaxRead = 2
SYMMETRY Symmetry
INVARIANTS AcknowledgedIsNotLost QuietIsClean InOrder
