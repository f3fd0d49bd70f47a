SPECIFICATION Spec
CONSTANTS
  Intervals = {1, 2, 5}
  Width = 65536
  MaxSilence = 8
INVARIANT PingIsKept
CHECK_DEADLOCK FALSE
