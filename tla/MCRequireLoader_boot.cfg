SPECIFICATION Spec
CONSTANTS
  jquery = jquery order = order domReady = domReady ui = ui
  history = history menu = menu has = has features = features
  Module = {jquery, order, domReady, ui, history, menu, has, features}
  DepsOptions <- Graphs
  Named = {jquery}
  Plain = {ui, has, features}
  Loaders = {"async", "interactive", "cache"}
  MaxRunning = 2
INVARIANTS RunsInTurn OrderKept ReadyInTime NamesResolve
CHECK_DEADLOCK FALSE
