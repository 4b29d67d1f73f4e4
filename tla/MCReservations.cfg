\* A retail and a business order of one and two lines, whose offers overlap.
SPECIFICATION Spec
CONSTANTS
  Orders = {1, 2}
  Retail = {1}
  Lines = {1, 2, 3}
  OrderOf <- SharedOrderOf
  Batches = {1, 2}
  Pool <- SharedPool
  MaxQuantity = 2
  MaxShelfLife = 1
  HoldsOutliveConfirmation = TRUE
INVARIANTS
  NoOversell
  ClosedBatchesBackNothing
  PlacedOrdersCanBePacked
PROPERTIES
  LapsedHoldsStayLapsed
  KeepsStockLedger
CHECK_DEADLOCK FALSE
