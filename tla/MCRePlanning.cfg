\* One line over two batches, one manager and one clerk, to look for a mark
\* whose allocation has another quantity than the clerk checked.
SPECIFICATION ChecklistSpec
CONSTANTS
  Orders = {1}
  Retail = {}
  Lines = {1}
  OrderOf <- OneOrder
  Batches = {1, 2}
  Pool <- SplitPool
  MaxQuantity = 2
  MaxShelfLife = 1
  HoldsOutliveConfirmation = TRUE
  Clerks = {c1}
  Managers = {m1}
INVARIANT MarkedQuantitiesWereVerified
CHECK_DEADLOCK FALSE
