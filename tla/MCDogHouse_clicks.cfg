SPECIFICATION Spec
CONSTANTS
  c1 = c1 g1 = g1 g2 = g2 None = None Blank = Blank Undefined = Undefined
  Command = {c1}
  Graph = {g1, g2}
  First = g1
  Opened <- Somewhere
  LoadPop = TRUE
  MaxActs = 3
INVARIANTS PanelsInStep ConsoleAnswers CommandOnMarkedGraph
CHECK_DEADLOCK FALSE
