CONSTANTS
  Runs = {r1, r2}
  Programs = {g1}
  Courses = {c1, c2}
  Types = {t1, t2}
  Details = {d1, d2}
  Pages = {w1, w2}
  BatchSize = 2
  Scheduled = {c1}
  Others = {c2, c3}
  MaxChanges = 1
SPECIFICATION Spec
SYMMETRY Symmetry
INVARIANTS
  TypeOK
  ListedAreDescribed
  SyncedShowPages
  
  MatchedRunApplies
  CompletedRunMatches
  NotAllRefused
PROPERTIES
  PageLostOnlyInRace
  StepsRunOut
CHECK_DEADLOCK FALSE
