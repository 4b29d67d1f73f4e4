\* One line per order over two batches whose expiry order changes with every
\* delivery and stock correction.
SPECIFICATION Spec
CONSTANTS
  Orders = {1, 2}
  Retail = {1}
  Lines = {1, 3}
  OrderOf <- SharedOrderOf
  Batches = {1, 2}
  Pool <- SharedPool
  MaxQuantity = 2
  MaxShelfLife = 2
  HoldsOutliveConfirmation = FALSE
INVARIANTS
  TypeOK
  PlacedOrdersAreCovered
  PayingOrdersAreHeld
  IdleOrdersHoldNothing
PROPERTIES
  FirstExpiredFirstOut
  OnlyLateConfirmationsOverbook
CHECK_DEADLOCK FALSE
