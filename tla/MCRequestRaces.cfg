\* Two requests of one browser, two of the managers, three that create
\* batches, three transactions that lock rows.
SPECIFICATION RacesSpec
CONSTANTS
  Tabs = {t1, t2}
  Carts = {1, 2}
  RetailOffers = {f1}
  MaxLine = 2
  Accounts = {a1, a2, a3}
  Desks = {d1, d2}
  Emails = {e1, e2}
  NoEmail = none
  Makers = {m1, m2, m3}
  LastPadded = 4
  Workers = {w1, w2, w3}
  Business = {"B1", "B2"}
  Retail = {"R1"}
  PoolsOf <- MCPoolsOf
  Fefo <- MCFefo
  ProductOf <- MCProductOf
INVARIANTS
  TypeOK
  CookieNamesAStoredCart
  DeadlocksAreOverStock
PROPERTIES
  CartBecomesOneOrder
  LiveCartIsKept
  LastManagerIsLostOnlyToARace
  GeneratedNumbersAreFree
CHECK_DEADLOCK FALSE
