CONSTANTS
  Callers = {k1, k2}
  Children = {c1, c2}
  NoChild = NoChild
  NoVectors = NoVectors
SPECIFICATION Spec
PROPERTY EndRejectsOwnRequests
CHECK_DEADLOCK FALSE
