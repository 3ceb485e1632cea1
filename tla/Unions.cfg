SPECIFICATION Spec
CONSTANTS
  Tables = {t1, t2, t3}
  Operators = {o1, o2}
  Lines = {l1, l2}
  MaxOpen = 1
  MaxMerges = 1
  MaxGone = 1
  Nobody = Nobody
  NoTable = NoTable
SYMMETRY Symmetry
INVARIANTS
  
  LockedHasHolder
  DeletedTablesHadNoOrders
PROPERTIES
  HiddenOnlyByHost
  ClosureWipesOnlyStrays
  
