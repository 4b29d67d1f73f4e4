----------------------------- MODULE RetailCart -----------------------------
(***************************************************************************)
(* The anonymous retail cart: the rows of retail/services.py, the cookie   *)
(* that names the browser's cart (storefront/middleware.py) and the views  *)
(* between them.  One browser has several requests under way; their        *)
(* answers reach it in any order, and the last one sets the cookie.        *)
(*                                                                         *)
(* A request finds its cart without a lock and locks the row before it     *)
(* uses it.  The price and sale status of an offer are staff's business:   *)
(* here an offer is on sale or not, and that changes at any time.          *)
(***************************************************************************)
EXTENDS Integers, FiniteSets

CONSTANTS
  Tabs,        \* requests the browser may have under way
  Carts,       \* cart rows, numbered in creation order
  RetailOffers,
  MaxLine      \* MAX_RETAIL_LINE_QUANTITY

ASSUME CartAssumption ==
  /\ Carts \subseteq Nat \ {0} /\ IsFiniteSet(Carts) /\ MaxLine \in Nat \ {0}
  /\ IsFiniteSet(Tabs) /\ RetailOffers # {}

VARIABLES
  cartRow,    \* "none", "live" or "deleted"
  cartLines,  \* RetailCartLine.quantity (0: no such line)
  checkouts,  \* how many checkouts a cart has become
  ordered,    \* the lines of the order of its last checkout
  cookie,     \* the cart the browser's cookie names
  onSale,     \* offers that are enabled, priced, of an active product
  tab         \* what each request is doing

cartVars == <<cartRow, cartLines, checkouts, ordered, cookie, onSale, tab>>
storedVars == <<cartRow, cartLines, checkouts, ordered>>

NoCart == 0
Empty == [f \in RetailOffers |-> 0]

TabState ==
  [at : {"idle", "sent", "found", "locked", "answered"},
   does : {"add", "set", "remove", "checkout"},
   sent : Carts \cup {NoCart}, cart : Carts \cup {NoCart},
   offer : RetailOffers, units : 0 .. MaxLine, read : [RetailOffers -> 0 .. MaxLine]]
IdleTab ==
  [at |-> "idle", does |-> "add", sent |-> NoCart, cart |-> NoCart,
   offer |-> CHOOSE f \in RetailOffers : TRUE, units |-> 0, read |-> Empty]

CartTypeOK ==
  /\ cartRow \in [Carts -> {"none", "live", "deleted"}]
  /\ cartLines \in [Carts -> [RetailOffers -> 0 .. MaxLine]]
  /\ checkouts \in [Carts -> 0 .. Cardinality(Tabs)]
  /\ ordered \in [Carts -> [RetailOffers -> 0 .. MaxLine]]
  /\ cookie \in Carts \cup {NoCart}
  /\ onSale \subseteq RetailOffers
  /\ tab \in [Tabs -> TabState]

CartInit ==
  /\ cartRow = [c \in Carts |-> "none"]
  /\ cartLines = [c \in Carts |-> Empty]
  /\ checkouts = [c \in Carts |-> 0]
  /\ ordered = [c \in Carts |-> Empty]
  /\ cookie = NoCart
  /\ onSale \in SUBSET RetailOffers
  /\ tab = [t \in Tabs |-> IdleTab]

Live(c) == c \in Carts /\ cartRow[c] = "live"
NextCart(c) == cartRow[c] = "none" /\ \A d \in Carts : d < c => cartRow[d] # "none"

\* select_for_update on the cart: one request at a time.
CartUnlocked(c) == \A t \in Tabs : tab[t].at = "locked" => tab[t].cart # c

-----------------------------------------------------------------------------
(* One request. *)

\* The browser sends its cookie along with the form.
Send(t) ==
  /\ tab[t].at = "idle"
  /\ \E what \in {"add", "set", "remove", "checkout"}, f \in RetailOffers, n \in 1 .. MaxLine :
       /\ what # "add" => cookie # NoCart
       /\ what \in {"remove", "checkout"} => n = 1
       /\ tab' = [tab EXCEPT ![t] = [IdleTab EXCEPT !.at = "sent", !.does = what,
                                       !.sent = cookie, !.cart = cookie,
                                       !.offer = f, !.units = n]]
  /\ UNCHANGED <<storedVars, cookie, onSale>>

\* The middleware's cookie action: mark_retail_cart_active, ..._created or
\* clear_retail_cart (a cart no longer named).
Answer(t, c) ==
  tab' = [tab EXCEPT ![t] = [IdleTab EXCEPT !.at = "answered", !.sent = tab[t].sent,
                                                   !.cart = c]]

\* An error page leaves the cookie alone.
Fail(t) ==
  /\ tab' = [tab EXCEPT ![t] = IdleTab]
  /\ UNCHANGED storedVars

\* Fault: the new cart is marked before the line is known to be accepted.
MarkAndCreateCart(t) ==
  /\ tab[t].at = "sent" /\ tab[t].does = "add" /\ ~Live(tab[t].cart)
  /\ \E c \in Carts :
       /\ NextCart(c)
       /\ IF tab[t].offer \in onSale
          THEN /\ cartRow' = [cartRow EXCEPT ![c] = "live"]
               /\ cartLines' = [cartLines EXCEPT ![c][tab[t].offer] = tab[t].units]
               /\ UNCHANGED <<checkouts, ordered>>
          ELSE UNCHANGED storedVars
       /\ Answer(t, c)
  /\ UNCHANGED <<cookie, onSale>>

\* add_to_cart for a browser without a cart, or whose cart is gone: cart and
\* line are created in one transaction, or neither is.
CreateCart(t) ==
  /\ tab[t].at = "sent" /\ tab[t].does = "add" /\ ~Live(tab[t].cart)
  /\ \/ /\ tab[t].offer \in onSale
        /\ \E c \in Carts :
             /\ NextCart(c)
             /\ cartRow' = [cartRow EXCEPT ![c] = "live"]
             /\ cartLines' = [cartLines EXCEPT ![c][tab[t].offer] = tab[t].units]
             /\ Answer(t, c)
        /\ UNCHANGED <<checkouts, ordered>>
     \/ tab[t].offer \notin onSale /\ Fail(t)
  /\ UNCHANGED <<cookie, onSale>>

\* Fault: the cart is looked up among those nobody has locked.
FindUnlockedCart(t) ==
  /\ tab[t].at = "sent" /\ Live(tab[t].cart)
  /\ IF CartUnlocked(tab[t].cart)
     THEN /\ tab' = [tab EXCEPT ![t].at = "found"]
          /\ UNCHANGED storedVars
     ELSE /\ tab[t].does = "add"
          /\ \E c \in Carts :
               /\ NextCart(c)
               /\ cartRow' = [cartRow EXCEPT ![c] = "live"]
               /\ cartLines' = [cartLines EXCEPT ![c][tab[t].offer] = tab[t].units]
               /\ Answer(t, c)
          /\ UNCHANGED <<checkouts, ordered>>
  /\ UNCHANGED <<cookie, onSale>>

\* _resolve_cart and get_retail_cart, without a lock.
FindCart(t) ==
  /\ tab[t].at = "sent" /\ Live(tab[t].cart)
  /\ tab' = [tab EXCEPT ![t].at = "found"]
  /\ UNCHANGED <<storedVars, cookie, onSale>>

\* 404: no such cart.
NoCartFound(t) ==
  /\ tab[t].at = "sent" /\ tab[t].does # "add" /\ ~Live(tab[t].cart)
  /\ Fail(t)
  /\ UNCHANGED <<cookie, onSale>>

\* Fault: the row is read without select_for_update.
ReadCart(t) ==
  /\ tab[t].at = "found"
  /\ IF Live(tab[t].cart)
     THEN /\ tab' = [tab EXCEPT ![t].at = "locked", ![t].read = cartLines[tab[t].cart]]
          /\ UNCHANGED storedVars
     ELSE Fail(t)
  /\ UNCHANGED <<cookie, onSale>>

\* _lock_retail_cart, and what the request reads under the lock; the cart may
\* have been checked out in between.
LockCart(t) ==
  /\ tab[t].at = "found" /\ CartUnlocked(tab[t].cart)
  /\ IF Live(tab[t].cart)
     THEN /\ tab' = [tab EXCEPT ![t].at = "locked", ![t].read = cartLines[tab[t].cart]]
          /\ UNCHANGED storedVars
     ELSE Fail(t)
  /\ UNCHANGED <<cookie, onSale>>

Stored(t, n) ==
  /\ cartLines' = [cartLines EXCEPT ![tab[t].cart][tab[t].offer] = n]
  /\ UNCHANGED <<cartRow, checkouts, ordered>>
  /\ Answer(t, tab[t].cart)

\* Fault: only the number added is checked, not the line's new quantity.
FinishAddBeyondLimit(t) ==
  /\ tab[t].at = "locked" /\ tab[t].does = "add"
  /\ IF tab[t].offer \in onSale THEN Stored(t, tab[t].read[tab[t].offer] + tab[t].units)
     ELSE Fail(t)
  /\ UNCHANGED <<cookie, onSale>>

\* add_retail_cart_line: merges with the line of the same offer.
FinishAddToCart(t) ==
  LET n == tab[t].read[tab[t].offer] + tab[t].units
  IN  /\ tab[t].at = "locked" /\ tab[t].does = "add"
      /\ IF tab[t].offer \in onSale /\ n <= MaxLine THEN Stored(t, n) ELSE Fail(t)
      /\ UNCHANGED <<cookie, onSale>>

\* update_retail_cart_line_quantity and remove_retail_cart_line.
FinishEdit(t) ==
  /\ tab[t].at = "locked" /\ tab[t].does \in {"set", "remove"}
  /\ IF tab[t].read[tab[t].offer] = 0 THEN Fail(t)
     ELSE Stored(t, IF tab[t].does = "set" THEN tab[t].units ELSE 0)
  /\ UNCHANGED <<cookie, onSale>>

\* create_pending_retail_order accepts the lines: at least one, all on sale.
Accepted(lines) ==
  /\ \E f \in RetailOffers : lines[f] > 0
  /\ \A f \in RetailOffers : lines[f] > 0 => f \in onSale

\* create_retail_checkout_from_cart: the order is made of the lines read and
\* the cart is deleted with whatever lines it has.
FinishCheckout(t) ==
  LET c == tab[t].cart
  IN  /\ tab[t].at = "locked" /\ tab[t].does = "checkout"
      /\ IF Accepted(tab[t].read)
         THEN /\ cartRow' = [cartRow EXCEPT ![c] = "deleted"]
              /\ cartLines' = [cartLines EXCEPT ![c] = Empty]
              /\ checkouts' = [checkouts EXCEPT ![c] = @ + 1]
              /\ ordered' = [ordered EXCEPT ![c] = tab[t].read]
              /\ Answer(t, NoCart)
         ELSE Fail(t)
      /\ UNCHANGED <<cookie, onSale>>

\* The answer reaches the browser.
ReceiveAnswer(t) ==
  /\ tab[t].at = "answered"
  /\ cookie' = tab[t].cart
  /\ tab' = [tab EXCEPT ![t] = IdleTab]
  /\ UNCHANGED <<storedVars, onSale>>

\* The answer is lost: the browser keeps its cookie.
LoseAnswer(t) ==
  /\ tab[t].at = "answered"
  /\ Fail(t)
  /\ UNCHANGED <<cookie, onSale>>

\* Staff change prices, or the product.
SaleChanges(f) ==
  /\ onSale' = IF f \in onSale THEN onSale \ {f} ELSE onSale \cup {f}
  /\ UNCHANGED <<storedVars, cookie, tab>>

-----------------------------------------------------------------------------
TabStep(t) ==
  \/ Send(t) \/ CreateCart(t) \/ FindCart(t) \/ NoCartFound(t) \/ LockCart(t)
  \/ FinishAddToCart(t) \/ FinishEdit(t) \/ FinishCheckout(t)
  \/ ReceiveAnswer(t) \/ LoseAnswer(t)

CartNext ==
  \/ \E t \in Tabs : TabStep(t)
  \/ \E f \in RetailOffers : SaleChanges(f)

CartSpec == CartInit /\ [][CartNext]_cartVars

-----------------------------------------------------------------------------
(* Correctness. *)

\* storefront/catalog/views.py: "a rollback above must never leave a cookie
\* pointing at a cart that no longer exists": the browser only ever learns of
\* carts that were committed.
CookieNamesAStoredCart == cookie # NoCart => cartRow[cookie] # "none"

\* A cart becomes one order at most, though its button is pressed in two tabs,
\* and that order has exactly the lines the cart holds when it is deleted,
\* whatever other tabs added or removed until then.
CartBecomesOneOrder ==
  [][\A c \in Carts : checkouts'[c] # checkouts[c] =>
       checkouts[c] = 0 /\ ordered'[c] = cartLines[c]]_cartVars

\* A browser does not lose its cart: while the cart its cookie names exists,
\* only the answer to a request sent before it had that cookie can replace it.
LiveCartIsKept ==
  [][Live(cookie) /\ cookie' # cookie =>
       \E t \in Tabs : tab[t].at = "answered" /\ tab'[t].at = "idle"
                      /\ tab[t].cart = cookie' /\ tab[t].sent # cookie]_cartVars
=============================================================================
