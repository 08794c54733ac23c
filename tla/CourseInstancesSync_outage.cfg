CONSTANTS
  Runs = {r1}
  Programs = {p1}
  Keys = {k1}
  KnownKeys = {k1}
  Avails = {day}
  Absent = Absent
  Invalid = Invalid
  Unread = Unread
  Failed = Failed
  Pending = Pending
  MaxChanges = 0
SPECIFICATION Spec
PROPERTY PublishedRowsStay
CHECK_DEADLOCK FALSE
