SPECIFICATION Spec
CONSTANTS
  Key = {k1, k2}
  Setting <- BothSides
  MinIdle = 2
  Delay = 1
  Horizon = 8
INVARIANT ExpiryIsPrompt
PROPERTY NeverTooEarly
