CONSTANTS
  k1 = k1
  k2 = k2
  k3 = k3
  k4 = k4
  p1 = p1
  p2 = p2
  None = None
  Key = {k1, k2, k3, k4}
  Payload = {p1, p2}
  Hash <- Hashes
  PrimeTable = {3, 7, 17}
SPECIFICATION LSpec
SYMMETRY Symmetry
INVARIANTS
  NoNodeLost
  FindsExactly
  ClearEmpties
  VisitsEachOnce
PROPERTIES
  ImplementsMap
