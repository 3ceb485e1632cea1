SPECIFICATION Spec
CONSTANTS
  Dishes <- MCDishes
  Covers <- MCCovers
  Discounts = {0, 15}
  ShareCounts = {3}
  Portions = {1}
  MaxLines = 2
INVARIANTS
  TypeOK
  
  
  ReceiptsNearAmounts
  SalesBelowAmounts
  PartsAddUp
  DrawerNearBooks
PROPERTIES
  ShortOnlyIfStale
CHECK_DEADLOCK FALSE
