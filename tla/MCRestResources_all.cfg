SPECIFICATION Spec
CONSTANTS
  t1 = t1  t2 = t2  r1 = r1  r2 = r2  r3 = r3  i1 = i1
  None = None
  Thread = {t1, t2}
  Request = {r1, r2}
  Id = {i1}
  Shape <- AllShapes
SYMMETRY Symmetry
INVARIANT AnswersAreTrue
PROPERTY ExtensionTransactions
