SPECIFICATION Spec
CONSTANTS
  Orders = {1, 2}
  Retail = {1}
  Lines = {1, 2, 3}
  OrderOf <- SharedOrderOf
  Batches = {1, 2}
  Pool <- SharedPool
  MaxQuantity = 1
  MaxShelfLife = 1
  HoldsOutliveConfirmation = FALSE
PROPERTIES
  LapsedHoldsStayLapsed
CHECK_DEADLOCK FALSE
