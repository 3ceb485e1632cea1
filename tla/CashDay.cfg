SPECIFICATION Spec
CONSTANTS
  Services = {dinner}
  Tables = {t1}
  Desks = {d1}
  Closers = {c1, c2}
  FirstTick = 3
  MaxTick = 4
  MaxReceipts = 2
  MaxZ = 1
  MaxClosures = 2
  MaxCrashes = 1
  NoKey = NoKey
SYMMETRY Symmetry
INVARIANTS
  TakingsLostOnlyWhileClosing
  ClosureCountsItsSessions
  CountedTwiceOnlyByOverlap
  ZClosesOneDay
  DocumentNumbersDense
PROPERTIES
  BusinessDateNeverGoesBack
CHECK_DEADLOCK FALSE
