SPECIFICATION Spec
CONSTANTS
  Node = {m, n}
  Peer = {p}
  ClientId = {i, j}
  Moved = {i, j}
  Parts = 2
  NoId = NoId
  MaxLogins = 2
  MaxFaults = 0
SYMMETRY Symmetry
INVARIANT MovedIsWhole
