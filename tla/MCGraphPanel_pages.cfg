SPECIFICATION Spec
CONSTANTS
  g1 = g1 g2 = g2 v1 = v1 v2 = v2 k1 = k1 None = None Undefined = Undefined
  Graph = {g1, g2}
  First = g1
  Sail = {g2}
  Key = {k1}
  Count <- Counts
  Vertex = {v1, v2}
  Near <- TwoNear
  Opened <- Addresses
  MaxActs = 3
INVARIANTS AddressTellsAll ProfileOfSelectedGraph DialogsHoldOne
CHECK_DEADLOCK FALSE
