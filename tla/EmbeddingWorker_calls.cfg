CONSTANTS
  Callers = {k1, k2}
  Children = {c1, c2, c3}
  NoChild = NoChild
  NoVectors = NoVectors
SPECIFICATION FairSpec
INVARIANTS
  TypeOK
  ResolvedWithOwnVectors
  PendingIffWaiting
  NoWaitOnReapedChild
PROPERTIES
  ImplementsFairService
CHECK_DEADLOCK FALSE
