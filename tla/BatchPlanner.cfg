SPECIFICATION Spec
CONSTANTS
  Batches = {1, 2, 3}
  MaxPhysical = 2
  MaxReserved = 1
  MaxRequest = 4
  LastDate = 2
INVARIANTS
  PlanIsTheFefoPlan
  RefusalsAreJustified
  LoopInvariant
CHECK_DEADLOCK FALSE
