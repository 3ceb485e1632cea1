SPECIFICATION Spec
CONSTANTS
  Devices = {d1, d2}
  Lines = {l1, l2}
  Orders = {o1, o2}
  Held = {l2}
  Discounted = {l1}
  MaxVoids = 1
  Nobody = Nobody
  NoOrder = NoOrder
SYMMETRY Symmetry
INVARIANTS
  TypeOK
  KdsMatchesOrders
  SentWasPrinted
  DiscountPrintedOnce
  HolderWorksOnLastDraft
PROPERTIES
  CalledStaysCalled
