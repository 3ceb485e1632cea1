SPECIFICATION Spec
CONSTANTS
  Tables = {t1, t2}
  Counters = {}
  Lines = {l1, l2}
  Checks = {}
  Desks = {d1}
  Requests = {r1, r2}
  Sessions = {s1}
  CoverCharge = FALSE
  MaxReceipts = 1
  Invoices = {FALSE}
  MaxPrebills = 0
  MaxShares = 2
  NoTable = NoTable
  NoCheck = NoCheck
  NoRequest = NoRequest
  NoSession = NoSession
SYMMETRY Symmetry
CHECK_DEADLOCK FALSE
INVARIANTS
  
  OnePendingPerTable
