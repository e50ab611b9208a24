SPECIFICATION Spec
CONSTANTS
  Element = {a, b}
  Worlds <- MCWorlds
INVARIANTS   PromiseKept
CHECK_DEADLOCK FALSE
