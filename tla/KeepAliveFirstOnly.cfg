SPECIFICATION Spec
CONSTANTS
  a = a
  b = b
  c = c
  Server = {a, b, c}
  Nodes <- Triple
  KeepAlive = 60
  HeartPeriod = 50
  MaxTraffic = 0
  MaxLosses = 0
  MaxCrashes = 0
INVARIANT RunningNodeIsAlive
