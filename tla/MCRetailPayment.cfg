\* Two attempts, three hosted payments, two session requests, a webhook
\* and the command; holds may lapse and staff may cancel at any time.
SPECIFICATION Spec
CONSTANTS
  Attempts = {1, 2}
  Payments = {p1, p2, p3}
  NoPayment = NoPayment
  Openers = {1, 2}
  Listeners = {1}
  Cron = {2}
INVARIANTS
  PlacedMeansPaid
  MoneyIsAccountedFor
  ChargedAtMostOnce
  FailedMeansUnpaid
  NoReconciliationConflict
PROPERTIES
  SettledStaysSettled
CHECK_DEADLOCK FALSE
