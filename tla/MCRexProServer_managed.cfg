SPECIFICATION FairSpec
CONSTANTS
  Worker = {w1, w2}
  Key = {k1}
  Request = {r1, r2, r3}
  Shape <- ManagedShapes
  None = None
  NoKey = NoKey
  StaleKey = StaleKey
INVARIANTS
  ResultMeansCommitted
  FailureMeansRolledBack
PROPERTIES
  CommitsOwnWritesOnly
  ImplementsAtomicScripts
  EveryRequestAnswered
  MonitorDestroysIdleSessions
