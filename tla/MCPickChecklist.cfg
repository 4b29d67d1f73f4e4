\* One business order with one line, two edits of it at a time and two clerks.
SPECIFICATION ChecklistSpec
CONSTANTS
  Orders = {1}
  Retail = {}
  Lines = {1}
  OrderOf <- OneOrder
  Batches = {2}
  Pool <- SplitPool
  MaxQuantity = 2
  MaxShelfLife = 1
  HoldsOutliveConfirmation = TRUE
  Clerks = {c1, c2}
  Managers = {m1, m2}
SYMMETRY RequestSymmetry
INVARIANT MarkedLinesWereVerified
PROPERTY PackedOrdersStayUnmarked
CHECK_DEADLOCK FALSE
