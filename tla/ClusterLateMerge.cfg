SPECIFICATION Spec
CONSTANTS
  Node = {m, n}
  Peer = {p}
  ClientId = {i, j}
  Moved = {i, j}
  Parts = 2
  NoId = NoId
  MaxLogins = 3
  MaxFaults = 1
SYMMETRY Symmetry
INVARIANT MovedIsGiven
