\* A webhook and the command reconcile one attempt at the same time.
SPECIFICATION Spec
CONSTANTS
  Attempts = {1}
  Payments = {p1}
  NoPayment = NoPayment
  Openers = {1}
  Listeners = {1}
  Cron = {2}
INVARIANTS
  AgreeingNotificationsAreIdempotent
CHECK_DEADLOCK FALSE
