SPECIFICATION Spec
CONSTANTS
  n0 = n0
  n1 = n1
  n2 = n2
  n3 = n3
  n4 = n4
  n5 = n5
  Node = {n0, n1, n2, n3, n4, n5}
  Root = n0
  None = None
  Pages <- PageSet
  Lookups <- LookupSet
  Targets <- TargetSet
  Selectors <- SelectorSet
  Class = {"y"}
  EventType = {"click", "focus", "mouseenter"}
  Fresh <- FreshAttr
INVARIANTS
  RecordsTrue
  OncePerEvent
  QueriesExact
CHECK_DEADLOCK FALSE
