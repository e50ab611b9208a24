SPECIFICATION Spec
CONSTANTS
  Request = {r1, r2, r3}
  Options <- MCOptions
  Answers <- MCAnswers
  Cors = FALSE
SYMMETRY Symmetry
INVARIANTS OwnAnswer LeavesNothing Combines
CHECK_DEADLOCK FALSE
