SPECIFICATION Spec
CONSTANTS
  Nodes = {n1, n2, n3}
  Addresses = {a1, a2, a3, a4}
  All = All
  NoAddress = NoAddress
  NoNode = NoNode
  MaxPings = 2
SYMMETRY Symmetry
INVARIANTS
  NeighbourIsReal
  NeverItself
  NeighboursAreFound
CHECK_DEADLOCK FALSE
