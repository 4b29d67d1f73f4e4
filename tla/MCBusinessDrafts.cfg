SPECIFICATION Spec
CONSTANTS
  Sessions = {s1, s2}
  Clerks = {c1}
  Orders = {1, 2}
  Offers = {standard, batch}
  Standard = standard
  Limit = 2
  MaxUnits = 2
SYMMETRY SessionSymmetry
INVARIANTS
  TypeOK
  DraftsKeepTheLimit
  LosersJoinTheWinner
PROPERTIES
  NoAddIsLost
  ClosedOrdersAreFinal
CHECK_DEADLOCK FALSE
