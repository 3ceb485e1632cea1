SPECIFICATION Spec
CONSTANTS
  Tables = {t1}
  Counters = {t1}
  Lines = {l1, l2}
  Checks = {c1, c2}
  Desks = {d1, d2}
  Requests = {}
  Sessions = {s1}
  CoverCharge = FALSE
  MaxReceipts = 2
  Invoices = {FALSE}
  MaxPrebills = 0
  MaxShares = 2
  NoTable = NoTable
  NoCheck = NoCheck
  NoRequest = NoRequest
  NoSession = NoSession
SYMMETRY Symmetry
CHECK_DEADLOCK FALSE
INVARIANTS
  SplitStateConsistent
PROPERTIES
  CollectedSharesKept
