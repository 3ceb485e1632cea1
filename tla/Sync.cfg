SPECIFICATION FairSpec
CONSTANTS
  Keys = {staff, client, day}
  Prompt = {staff}
  Direct = {day}
  Refused = {client}
  Senders = {s1, s2}
  MaxRecords = 2
  MaxRestarts = 1
  MaxStrays = 1
  NoKey = NoKey
CHECK_DEADLOCK FALSE
PROPERTIES
  ImplementsOutbox
  
  EveryRecordDelivered
