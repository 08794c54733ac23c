CONSTANTS
  Runs = {r1, r2}
  Ids = {x1, x2}
  Texts = {t1, t2}
  Payloads = {p1}
  Absent = Absent
  BatchSize = 2
  MaxAttempts = 2
  MaxChanges = 1
SPECIFICATION Spec
SYMMETRY Symmetry
INVARIANTS
  TypeOK
  EveryRowAccounted
  CompletedRunIndexes
  EmbedsOnlyChanges
PROPERTIES
  StepsRunOut
CHECK_DEADLOCK FALSE
