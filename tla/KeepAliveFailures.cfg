SPECIFICATION Spec
CONSTANTS
  a = a
  b = b
  c = c
  Server = {a, b, c}
  Nodes <- Triple
  KeepAlive = 4
  HeartPeriod = 3
  MaxTraffic = 1
  MaxLosses = 1
  MaxCrashes = 1
INVARIANTS TypeOK SilenceIsDetected GivenUpForAReason
