SPECIFICATION Spec
CONSTANTS
  Tables = {t1}
  Counters = {t1}
  Lines = {l1, l2}
  Checks = {c1, c2}
  Desks = {d1}
  Requests = {}
  Sessions = {s1}
  CoverCharge = FALSE
  MaxReceipts = 2
  MaxPrebills = 0
  Invoices = {FALSE}
  MaxShares = 0
  NoTable = NoTable
  NoCheck = NoCheck
  NoRequest = NoRequest
  NoSession = NoSession
CHECK_DEADLOCK FALSE
PROPERTY NoLineBilledTwice
