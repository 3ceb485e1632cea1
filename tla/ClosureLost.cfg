SPECIFICATION FairSpec
CONSTANTS
  Keys = {day}
  Prompt = {}
  Direct = {day}
  Refused = {}
  Senders = {s1}
  MaxRecords = 1
  MaxRestarts = 1
  MaxStrays = 0
  NoKey = NoKey
CHECK_DEADLOCK FALSE
PROPERTY EveryClosureDelivered
