\* One product with two batches, of which one may have offers of its own.
SPECIFICATION Spec
CONSTANTS
  Batches = {1, 2}
  Special = {1}
  MaxUnits = 2
INVARIANTS
  TypeOK
  BusinessCatalogueIsTakeable
  EveryBatchHasOneOffer
  EditFormIsExact
  RetailCatalogueMatchesCheckout
CHECK_DEADLOCK FALSE
