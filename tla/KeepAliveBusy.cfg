SPECIFICATION Spec
CONSTANTS
  a = a
  b = b
  c = c
  Server = {a, b}
  Nodes <- Pair
  KeepAlive = 60
  HeartPeriod = 50
  MaxTraffic = 9
  MaxLosses = 0
  MaxCrashes = 0
INVARIANT RunningNodeIsAlive
