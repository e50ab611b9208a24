SPECIFICATION Spec
CONSTANTS
  Worker = {w1, w2}
  Key = {k1}
  Request = {r1, r2, r3}
  Shape <- AllShapes
  None = None
  NoKey = NoKey
  StaleKey = StaleKey
SYMMETRY Symmetry
INVARIANTS
  
  NoLeakedExecutor
  
PROPERTIES
  KilledSessionRefuses
