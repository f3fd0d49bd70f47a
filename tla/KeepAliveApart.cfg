SPECIFICATION FairSpec
CONSTANTS
  a = a
  b = b
  c = c
  Server = {a, b}
  Nodes <- Pair
  KeepAlive = 6
  HeartPeriod = 5
  MaxTraffic = 0
  MaxLosses = 0
  MaxCrashes = 1
PROPERTY RunningNodesMeet
