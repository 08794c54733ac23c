CONSTANTS
  Codes = {c1, c2}
  Groups = {n1, n2}
  Days = {monday}
  Times = {noon}
  Words = {w1}
  MaxTexts = 7
  Sessions = {h25, e25}
  Availabilities = {day, evening}
  MaxRowTexts = 4
  Programs = {g1, g2, g3}
  Details = {d1, d2}
  Listed = Listed
  Requirements = {q1}
  MaxLines = 5
  Scores = {1, 2}
  Limit = 1
  Oversample = 2
  Requests = {r1, r2, r3, r4}
  Models = {m1, m2}
  None = None
SPECIFICATION Spec
SYMMETRY Symmetry
INVARIANTS
  HoraireAsPrinted
  RowsAsPrinted
  CheminotAsPrinted
  BestCoursesFound
  LoadsAreShared
CHECK_DEADLOCK FALSE
