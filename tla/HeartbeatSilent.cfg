SPECIFICATION Spec
CONSTANTS
  Intervals = {1, 2, 5}
  Width = 65536
  MaxSilence = 8
INVARIANT SilentIsClosed
CHECK_DEADLOCK FALSE
