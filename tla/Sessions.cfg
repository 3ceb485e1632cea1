SPECIFICATION Spec
CONSTANTS
  Tables = {t1}
  Counters = {}
  Lines = {l1}
  Checks = {}
  Desks = {d1, d2}
  Requests = {r1}
  Sessions = {s1, s2}
  CoverCharge = TRUE
  MaxReceipts = 2
  MaxPrebills = 1
  Invoices = {TRUE, FALSE}
  MaxShares = 0
  NoTable = NoTable
  NoCheck = NoCheck
  NoRequest = NoRequest
  NoSession = NoSession
SYMMETRY Symmetry
CHECK_DEADLOCK FALSE
INVARIANTS
  ReceiptsAccounted
  LateDocumentsBounded
