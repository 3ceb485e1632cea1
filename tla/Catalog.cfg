SPECIFICATION FairSpec
CONSTANTS
  Requests = {r1}
  Ticks = {t1, t2}
  Staff = {anna}
  Gap = 1
  MaxEdits = 3
  MaxVersion = 2
INVARIANTS
  VersionTellsContent
PROPERTIES
  CatchesUp
CHECK_DEADLOCK FALSE
