CONSTANTS
  Runs = {r1, r2}
  Programs = {p1, p2}
  Keys = {k1}
  KnownKeys = {k1}
  Avails = {day, evening}
  Absent = Absent
  Invalid = Invalid
  Unread = Unread
  Failed = Failed
  Pending = Pending
  MaxChanges = 1
SPECIFICATION FairSpec
INVARIANTS
  TypeOK
  AbortsOnlyOnOverlap
PROPERTIES
  ConvergesToPdfs
  DeletesOnlyUnlisted
  RunsEnd
CHECK_DEADLOCK FALSE
