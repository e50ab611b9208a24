SPECIFICATION FairSpec
CONSTANTS
  Request = {r1, r2}
  Options <- MCOptions
  Hooks <- MCHooks
  MaxCalls = 3
INVARIANTS CalledInOrder OneEnd
PROPERTIES TimeoutEnds
CHECK_DEADLOCK FALSE
