SPECIFICATION Spec
CONSTANTS
  Tables = {t1, t2}
  Requests = {r1, r2}
  Checks = {c1, c2}
  MaxLoads = 1
  NoTable = NoTable
  NoRequest = NoRequest
  NoCheck = NoCheck
  NoAnswer = NoAnswer
SYMMETRY Symmetry
CHECK_DEADLOCK FALSE
INVARIANT ForeignBillOnlyLate
PROPERTIES
  TakenAsRead
  RequestOfItsTable
