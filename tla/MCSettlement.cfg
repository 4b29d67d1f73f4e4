\* One attempt may start once the other has failed; the only listener may always die.
SPECIFICATION FairSpec
CONSTANTS
  Attempts = {1, 2}
  Payments = {p1, p2}
  NoPayment = NoPayment
  Openers = {1}
  Listeners = {1}
  Cron = {2}
PROPERTIES
  DecidedPaymentsAreSettled
CHECK_DEADLOCK FALSE
