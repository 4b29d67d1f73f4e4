-------------------------- MODULE RequestRaces_proofs --------------------------
(***************************************************************************)
(* What the four races of module MCRequestRaces can and cannot end in, for *)
(* any number of requests, carts, accounts, batches and orders: carts that *)
(* the browser knows exist and become one order, the last manager is only  *)
(* lost to a race, generated batch ids are free, and transactions that     *)
(* wait for each other wait for stock.                                     *)
(***************************************************************************)
EXTENDS MCRequestRaces, FefoPlan_proofs, SequenceTheorems

-----------------------------------------------------------------------------
(* The retail cart.                                                        *)

\* A cart that has become an order is deleted.
RowsInv ==
  \A c \in Carts : checkouts[c] \in {0, 1} /\ (checkouts[c] = 1 => cartRow[c] = "deleted")

\* The browser and its requests only know carts that were stored.
KnownCart(c) == c # NoCart => cartRow[c] # "none"

\* A request that looks for its cart looks for the one it was sent with; its
\* answer names another cart only when that one is gone.
TabIsSound(t) ==
  /\ KnownCart(tab[t].sent) /\ KnownCart(tab[t].cart)
  /\ tab[t].at \in {"sent", "found", "locked"} => tab[t].cart = tab[t].sent
  /\ tab[t].at \in {"found", "locked"} => tab[t].cart # NoCart
  /\ tab[t].at = "locked" => Live(tab[t].cart) /\ tab[t].read = cartLines[tab[t].cart]
  /\ tab[t].at = "answered" => tab[t].cart = tab[t].sent \/ ~Live(tab[t].sent)

\* select_for_update lets one request at a time have a cart.
OneLockPerCart ==
  \A t, u \in Tabs :
    tab[t].at = "locked" /\ tab[u].at = "locked" /\ tab[t].cart = tab[u].cart => t = u

CartInv ==
  /\ CartTypeOK
  /\ RowsInv
  /\ CookieNamesAStoredCart
  /\ \A t \in Tabs : TabIsSound(t)
  /\ OneLockPerCart

\* What a tab can be.
LEMMA IdleTabFields ==
  /\ IdleTab \in TabState /\ Empty \in [RetailOffers -> 0 .. MaxLine]
  /\ IdleTab.at = "idle" /\ IdleTab.sent = NoCart /\ IdleTab.cart = NoCart
<1>1. Empty \in [RetailOffers -> 0 .. MaxLine]
  BY CartAssumption DEF Empty
<1>2. (CHOOSE f \in RetailOffers : TRUE) \in RetailOffers
  BY CartAssumption
<1>3. 0 \in 0 .. MaxLine
  BY CartAssumption
<1> HIDE DEF Empty
<1> QED
  BY <1>1, <1>2, <1>3 DEF IdleTab, TabState

\* An answer that sets the cookie to c.
LEMMA AnswerFields ==
  ASSUME CartTypeOK, NEW t \in Tabs, NEW c \in Carts \cup {NoCart}, Answer(t, c)
  PROVE  /\ tab' \in [Tabs -> TabState]
         /\ \A u \in Tabs \ {t} : tab'[u] = tab[u]
         /\ tab'[t].at = "answered" /\ tab'[t].sent = tab[t].sent /\ tab'[t].cart = c
<1> DEFINE r == [IdleTab EXCEPT !.at = "answered", !.sent = tab[t].sent, !.cart = c]
<1>1. IdleTab \in TabState
  BY IdleTabFields
<1>2. tab[t].sent \in Carts \cup {NoCart}
  BY DEF CartTypeOK, TabState
<1>3. r \in TabState /\ r.at = "answered" /\ r.sent = tab[t].sent /\ r.cart = c
  BY <1>1, <1>2 DEF TabState
<1>4. tab' = [tab EXCEPT ![t] = r]
  BY DEF Answer
<1> HIDE DEF r
<1> QED
  BY <1>3, <1>4 DEF CartTypeOK

\* A request that ends.
LEMMA EndFields ==
  ASSUME CartTypeOK, NEW t \in Tabs, tab' = [tab EXCEPT ![t] = IdleTab]
  PROVE  /\ tab' \in [Tabs -> TabState]
         /\ \A u \in Tabs \ {t} : tab'[u] = tab[u]
         /\ tab'[t].at = "idle" /\ tab'[t].sent = NoCart /\ tab'[t].cart = NoCart
<1> QED
  BY IdleTabFields DEF CartTypeOK

\* Stored carts stay stored, carts that are gone stay gone, and a cart that
\* request u has locked stays as it is.
CartsMoveOn(u) ==
  /\ \A c \in Carts : cartRow[c] # "none" => cartRow'[c] # "none"
  /\ \A c \in Carts : cartRow[c] = "deleted" => cartRow'[c] = "deleted"
  /\ tab[u].at = "locked" =>
       /\ cartRow'[tab[u].cart] = cartRow[tab[u].cart]
       /\ cartLines'[tab[u].cart] = cartLines[tab[u].cart]

LEMMA OtherTabsStaySound ==
  ASSUME CartInv, NEW u \in Tabs, tab'[u] = tab[u], CartsMoveOn(u)
  PROVE  TabIsSound(u)'
<1>1. tab[u].sent \in Carts \cup {NoCart} /\ tab[u].cart \in Carts \cup {NoCart}
  BY DEF CartInv, CartTypeOK, TabState
<1>2. TabIsSound(u)
  BY DEF CartInv
<1>3. tab[u].at = "answered" => tab[u].cart = tab[u].sent \/ ~Live(tab[u].sent)'
  <2> SUFFICES ASSUME tab[u].at = "answered", tab[u].cart # tab[u].sent,
                      tab[u].sent \in Carts
               PROVE  cartRow'[tab[u].sent] # "live"
    BY DEF Live
  <2>1. cartRow[tab[u].sent] # "none" /\ cartRow[tab[u].sent] # "live"
    BY <1>2, CartAssumption DEF TabIsSound, KnownCart, Live, NoCart
  <2>2. cartRow[tab[u].sent] = "deleted"
    BY <2>1 DEF CartInv, CartTypeOK
  <2> QED
    BY <2>2 DEF CartsMoveOn
<1> QED
  BY <1>1, <1>2, <1>3 DEF TabIsSound, KnownCart, Live, CartsMoveOn

\* The lock of a cart is held by whoever got it first.
LEMMA LocksStay ==
  ASSUME OneLockPerCart, NEW t \in Tabs, \A u \in Tabs \ {t} : tab'[u] = tab[u],
         tab'[t].at = "locked" => CartUnlocked(tab'[t].cart)
  PROVE  OneLockPerCart'
<1> SUFFICES ASSUME NEW u \in Tabs, NEW v \in Tabs, u # v,
                    tab'[u].at = "locked", tab'[v].at = "locked", tab'[u].cart = tab'[v].cart
             PROVE  FALSE
  BY DEF OneLockPerCart
<1>1. CASE u = t
  BY <1>1 DEF CartUnlocked
<1>2. CASE v = t
  BY <1>2 DEF CartUnlocked
<1>3. CASE u # t /\ v # t
  BY <1>3 DEF OneLockPerCart
<1> QED
  BY <1>1, <1>2, <1>3

\* A step of one request that leaves the stored carts alone.
Quiet(t) ==
  /\ UNCHANGED storedVars
  /\ tab' \in [Tabs -> TabState]
  /\ \A u \in Tabs \ {t} : tab'[u] = tab[u]
  /\ cookie' \in Carts \cup {NoCart} /\ KnownCart(cookie')
  /\ onSale' \subseteq RetailOffers
  /\ tab'[t].at = "locked" => CartUnlocked(tab'[t].cart)

LEMMA QuietSteps ==
  ASSUME CartInv, NEW t \in Tabs, Quiet(t), TabIsSound(t)'
  PROVE  CartInv'
<1>1. CartTypeOK'
  BY DEF CartInv, CartTypeOK, Quiet, storedVars
<1>2. RowsInv' /\ CookieNamesAStoredCart'
  BY DEF CartInv, RowsInv, CookieNamesAStoredCart, KnownCart, Quiet, storedVars
<1>3. \A u \in Tabs \ {t} : CartsMoveOn(u) /\ tab'[u] = tab[u]
  BY DEF CartsMoveOn, Quiet, storedVars
<1>4. \A u \in Tabs : TabIsSound(u)'
  BY <1>3, OtherTabsStaySound
<1>5. OneLockPerCart'
  BY LocksStay DEF CartInv, Quiet
<1> QED
  BY <1>1, <1>2, <1>4, <1>5 DEF CartInv

\* A request that fails, or whose answer is lost.
LEMMA FailingIsQuiet ==
  ASSUME CartInv, NEW t \in Tabs, Fail(t), UNCHANGED cookie, onSale' \subseteq RetailOffers
  PROVE  CartInv'
<1>1. /\ tab' \in [Tabs -> TabState]
      /\ \A u \in Tabs \ {t} : tab'[u] = tab[u]
      /\ tab'[t].at = "idle" /\ tab'[t].sent = NoCart /\ tab'[t].cart = NoCart
  BY EndFields DEF CartInv, Fail
<1>2. Quiet(t)
  BY <1>1 DEF Quiet, Fail, CartInv, CartTypeOK, CookieNamesAStoredCart, KnownCart
<1>3. TabIsSound(t)'
  BY <1>1 DEF TabIsSound, KnownCart
<1> QED
  BY <1>2, <1>3, QuietSteps

LEMMA SendKeepsCarts ==
  ASSUME CartInv, NEW t \in Tabs, Send(t)
  PROVE  CartInv'
<1>1. PICK what \in {"add", "set", "remove", "checkout"}, f \in RetailOffers, n \in 1 .. MaxLine :
        tab' = [tab EXCEPT ![t] = [IdleTab EXCEPT !.at = "sent", !.does = what,
                                      !.sent = cookie, !.cart = cookie,
                                      !.offer = f, !.units = n]]
  BY DEF Send
<1> DEFINE r == [IdleTab EXCEPT !.at = "sent", !.does = what, !.sent = cookie,
                                !.cart = cookie, !.offer = f, !.units = n]
<1>2. cookie \in Carts \cup {NoCart} /\ n \in 0 .. MaxLine /\ IdleTab \in TabState
  BY IdleTabFields, CartAssumption DEF CartInv, CartTypeOK
<1>3. r \in TabState /\ r.at = "sent" /\ r.sent = cookie /\ r.cart = cookie
  BY <1>2 DEF TabState
<1>4. tab' = [tab EXCEPT ![t] = r]
  BY <1>1
<1> HIDE DEF r
<1>5. /\ tab' \in [Tabs -> TabState]
      /\ \A u \in Tabs \ {t} : tab'[u] = tab[u]
      /\ tab'[t] = r
  BY <1>3, <1>4 DEF CartInv, CartTypeOK
<1>6. UNCHANGED <<cartRow, cartLines, checkouts, ordered, cookie, onSale>>
  BY DEF Send, storedVars
<1>7. Quiet(t)
  BY <1>3, <1>5, <1>6 DEF Quiet, storedVars, CartInv, CartTypeOK, CookieNamesAStoredCart, KnownCart
<1>8. TabIsSound(t)'
  BY <1>3, <1>5, <1>6 DEF TabIsSound, KnownCart, CartInv, CookieNamesAStoredCart
<1> QED
  BY <1>7, <1>8, QuietSteps

LEMMA FindKeepsCarts ==
  ASSUME CartInv, NEW t \in Tabs, FindCart(t)
  PROVE  CartInv'
<1>1. tab' = [tab EXCEPT ![t].at = "found"]
  BY DEF FindCart
<1>2. /\ tab' \in [Tabs -> TabState]
      /\ \A u \in Tabs \ {t} : tab'[u] = tab[u]
      /\ tab'[t].at = "found" /\ tab'[t].sent = tab[t].sent /\ tab'[t].cart = tab[t].cart
  BY <1>1 DEF CartInv, CartTypeOK, TabState
<1>3. UNCHANGED <<cartRow, cartLines, checkouts, ordered, cookie, onSale>>
  BY DEF FindCart, storedVars
<1>4. Quiet(t)
  BY <1>2, <1>3 DEF Quiet, storedVars, CartInv, CartTypeOK, CookieNamesAStoredCart, KnownCart
<1>5. TabIsSound(t) /\ tab[t].at = "sent" /\ tab[t].cart # NoCart
  BY CartAssumption DEF CartInv, FindCart, Live, NoCart
<1>6. TabIsSound(t)'
  BY <1>2, <1>3, <1>5 DEF TabIsSound, KnownCart
<1> QED
  BY <1>4, <1>6, QuietSteps

LEMMA LockKeepsCarts ==
  ASSUME CartInv, NEW t \in Tabs, LockCart(t)
  PROVE  CartInv'
<1>1. CASE ~Live(tab[t].cart)
  BY <1>1, FailingIsQuiet DEF LockCart, CartInv, CartTypeOK
<1>2. CASE Live(tab[t].cart)
  <2>1. tab' = [tab EXCEPT ![t].at = "locked", ![t].read = cartLines[tab[t].cart]]
    BY <1>2 DEF LockCart
  <2>2. UNCHANGED <<cartRow, cartLines, checkouts, ordered, cookie, onSale>>
    BY <1>2 DEF LockCart, storedVars
  <2>3. cartLines[tab[t].cart] \in [RetailOffers -> 0 .. MaxLine]
    BY <1>2 DEF Live, CartInv, CartTypeOK
  <2>4. /\ tab' \in [Tabs -> TabState]
        /\ \A u \in Tabs \ {t} : tab'[u] = tab[u]
        /\ tab'[t].at = "locked" /\ tab'[t].sent = tab[t].sent /\ tab'[t].cart = tab[t].cart
        /\ tab'[t].read = cartLines[tab[t].cart]
    <3> DEFINE r == [tab[t] EXCEPT !.at = "locked", !.read = cartLines[tab[t].cart]]
    <3>1. tab[t] \in TabState
      BY DEF CartInv, CartTypeOK
    <3>2. /\ r \in TabState
          /\ r.at = "locked" /\ r.sent = tab[t].sent /\ r.cart = tab[t].cart
          /\ r.read = cartLines[tab[t].cart]
      BY <2>3, <3>1 DEF TabState
    <3>3. tab' = [tab EXCEPT ![t] = r]
      BY <2>1 DEF CartInv, CartTypeOK
    <3> HIDE DEF r
    <3> QED
      BY <3>2, <3>3 DEF CartInv, CartTypeOK
  <2>5. CartUnlocked(tab'[t].cart)
    BY <2>4 DEF LockCart
  <2>6. Quiet(t)
    BY <2>2, <2>4, <2>5
    DEF Quiet, storedVars, CartInv, CartTypeOK, CookieNamesAStoredCart, KnownCart
  <2>7. TabIsSound(t) /\ tab[t].at = "found"
    BY DEF CartInv, LockCart
  <2>8. TabIsSound(t)'
    BY <1>2, <2>2, <2>4, <2>7 DEF TabIsSound, KnownCart, Live
  <2> QED
    BY <2>6, <2>8, QuietSteps
<1> QED
  BY <1>1, <1>2

LEMMA ReceiveKeepsCarts ==
  ASSUME CartInv, NEW t \in Tabs, ReceiveAnswer(t)
  PROVE  CartInv'
<1>1. /\ tab' \in [Tabs -> TabState]
      /\ \A u \in Tabs \ {t} : tab'[u] = tab[u]
      /\ tab'[t].at = "idle" /\ tab'[t].sent = NoCart /\ tab'[t].cart = NoCart
  BY EndFields DEF CartInv, ReceiveAnswer
<1>2. cookie' \in Carts \cup {NoCart} /\ KnownCart(cookie')
  BY DEF ReceiveAnswer, CartInv, CartTypeOK, TabState, TabIsSound
<1>3. Quiet(t)
  BY <1>1, <1>2 DEF Quiet, ReceiveAnswer, CartInv, CartTypeOK
<1>4. TabIsSound(t)'
  BY <1>1 DEF TabIsSound, KnownCart
<1> QED
  BY <1>3, <1>4, QuietSteps

LEMMA CreateKeepsCarts ==
  ASSUME CartInv, NEW t \in Tabs, CreateCart(t)
  PROVE  CartInv'
<1>1. CASE tab[t].offer \notin onSale
  BY <1>1, FailingIsQuiet DEF CreateCart, CartInv, CartTypeOK
<1>2. CASE tab[t].offer \in onSale
  <2>1. PICK c \in Carts :
          /\ NextCart(c)
          /\ cartRow' = [cartRow EXCEPT ![c] = "live"]
          /\ cartLines' = [cartLines EXCEPT ![c][tab[t].offer] = tab[t].units]
          /\ Answer(t, c)
    BY <1>2 DEF CreateCart
  <2>2. UNCHANGED <<checkouts, ordered, cookie, onSale>>
    BY <1>2 DEF CreateCart
  <2>3. /\ tab' \in [Tabs -> TabState]
        /\ \A u \in Tabs \ {t} : tab'[u] = tab[u]
        /\ tab'[t].at = "answered" /\ tab'[t].sent = tab[t].sent /\ tab'[t].cart = c
    BY <2>1, AnswerFields DEF CartInv
  <2>4. cartRow[c] = "none"
    BY <2>1 DEF NextCart
  <2>5. tab[t].units \in 0 .. MaxLine /\ tab[t].offer \in RetailOffers
    BY DEF CartInv, CartTypeOK, TabState
  <2>6. cartLines' \in [Carts -> [RetailOffers -> 0 .. MaxLine]]
    BY <2>1, <2>5 DEF CartInv, CartTypeOK
  <2>7. CartTypeOK'
    BY <2>1, <2>2, <2>3, <2>6 DEF CartInv, CartTypeOK
  <2>8. RowsInv'
    BY <2>1, <2>2, <2>4 DEF CartInv, CartTypeOK, RowsInv
  <2>9. CookieNamesAStoredCart'
    BY <2>1, <2>2 DEF CartInv, CartTypeOK, CookieNamesAStoredCart
  <2>10. \A u \in Tabs : tab[u].at = "locked" => tab[u].cart # c
    BY <2>4 DEF CartInv, TabIsSound, Live
  <2>11. ASSUME NEW u \in Tabs \ {t}
         PROVE  CartsMoveOn(u)
    BY <2>1, <2>4, <2>10 DEF CartInv, CartTypeOK, CartsMoveOn, TabState
  <2>12. \A u \in Tabs \ {t} : TabIsSound(u)'
    BY <2>3, <2>11, OtherTabsStaySound
  <2>13. TabIsSound(t)'
    <3>1. TabIsSound(t) /\ tab[t].at = "sent" /\ ~Live(tab[t].cart)
      BY DEF CartInv, CreateCart
    <3>2. tab[t].sent \in Carts \cup {NoCart} /\ tab[t].cart = tab[t].sent
      BY <3>1 DEF CartInv, CartTypeOK, TabState, TabIsSound
    <3>3. tab[t].sent # c
      BY <2>4, <3>1, CartAssumption DEF TabIsSound, KnownCart, NoCart
    <3>4. tab[t].sent \in Carts => cartRow'[tab[t].sent] # "live"
      BY <2>1, <3>1, <3>2, <3>3 DEF Live, CartInv, CartTypeOK
    <3>5. cartRow'[c] # "none" /\ (tab[t].sent # NoCart => cartRow'[tab[t].sent] # "none")
      BY <2>1, <3>1, <3>2, <3>3 DEF CartInv, CartTypeOK, TabIsSound, KnownCart
    <3> QED
      BY <2>3, <3>4, <3>5 DEF TabIsSound, KnownCart, Live
  <2>14. OneLockPerCart'
    BY <2>3, LocksStay DEF CartInv
  <2> QED
    BY <2>7, <2>8, <2>9, <2>12, <2>13, <2>14 DEF CartInv
<1> QED
  BY <1>1, <1>2

\* The holder of a cart's lock writes a line and answers.
LEMMA StoreKeepsCarts ==
  ASSUME CartInv, NEW t \in Tabs, tab[t].at = "locked", NEW n \in 0 .. MaxLine, Stored(t, n),
         UNCHANGED <<cookie, onSale>>
  PROVE  CartInv'
<1> DEFINE c == tab[t].cart
<1>1. TabIsSound(t) /\ c \in Carts /\ tab[t].sent = c /\ cartRow[c] = "live"
  BY DEF CartInv, TabIsSound, Live
<1>2. /\ cartLines' = [cartLines EXCEPT ![c][tab[t].offer] = n]
      /\ UNCHANGED <<cartRow, checkouts, ordered>>
      /\ Answer(t, c)
  BY DEF Stored
<1> HIDE DEF c
<1>3. /\ tab' \in [Tabs -> TabState]
      /\ \A u \in Tabs \ {t} : tab'[u] = tab[u]
      /\ tab'[t].at = "answered" /\ tab'[t].sent = tab[t].sent /\ tab'[t].cart = c
  BY <1>1, <1>2, AnswerFields DEF CartInv
<1>4. cartLines' \in [Carts -> [RetailOffers -> 0 .. MaxLine]]
  <2>1. tab[t].offer \in RetailOffers
    BY DEF CartInv, CartTypeOK, TabState
  <2> QED
    BY <1>2, <2>1 DEF CartInv, CartTypeOK
<1>5. CartTypeOK'
  BY <1>2, <1>3, <1>4 DEF CartInv, CartTypeOK
<1>6. RowsInv' /\ CookieNamesAStoredCart'
  BY <1>2 DEF CartInv, RowsInv, CookieNamesAStoredCart
<1>7. ASSUME NEW u \in Tabs \ {t}
      PROVE  CartsMoveOn(u)
  <2>1. tab[u].at = "locked" => tab[u].cart # c
    BY DEF CartInv, OneLockPerCart, c
  <2> QED
    BY <1>2, <2>1 DEF CartsMoveOn, CartInv, CartTypeOK, TabState
<1>8. \A u \in Tabs \ {t} : TabIsSound(u)'
  BY <1>3, <1>7, OtherTabsStaySound
<1>9. TabIsSound(t)'
  BY <1>1, <1>2, <1>3 DEF TabIsSound, KnownCart
<1>10. OneLockPerCart'
  BY <1>3, LocksStay DEF CartInv
<1> QED
  BY <1>5, <1>6, <1>8, <1>9, <1>10 DEF CartInv

LEMMA FinishKeepsCarts ==
  ASSUME CartInv, NEW t \in Tabs, FinishAddToCart(t) \/ FinishEdit(t)
  PROVE  CartInv'
<1>1. /\ tab[t].read \in [RetailOffers -> 0 .. MaxLine] /\ tab[t].offer \in RetailOffers
      /\ tab[t].units \in 0 .. MaxLine /\ MaxLine \in Nat /\ onSale \subseteq RetailOffers
  BY CartAssumption DEF CartInv, CartTypeOK, TabState
<1>2. /\ tab[t].at = "locked" /\ UNCHANGED <<cookie, onSale>>
      /\ Fail(t) \/ \E n \in 0 .. MaxLine : Stored(t, n)
  <2>1. CASE FinishAddToCart(t)
    BY <1>1, <2>1 DEF FinishAddToCart
  <2>2. CASE FinishEdit(t)
    BY <1>1, <2>2 DEF FinishEdit
  <2> QED
    BY <2>1, <2>2
<1> QED
  BY <1>1, <1>2, FailingIsQuiet, StoreKeepsCarts

LEMMA CheckoutKeepsCarts ==
  ASSUME CartInv, NEW t \in Tabs, FinishCheckout(t)
  PROVE  CartInv'
<1> DEFINE c == tab[t].cart
<1>1. /\ TabIsSound(t) /\ c \in Carts /\ tab[t].sent = c /\ cartRow[c] = "live"
      /\ tab[t].at = "locked" /\ checkouts[c] = 0
  BY DEF CartInv, CartTypeOK, TabIsSound, Live, RowsInv, FinishCheckout
<1>2. CASE ~Accepted(tab[t].read)
  BY <1>2, FailingIsQuiet DEF FinishCheckout, CartInv, CartTypeOK
<1>3. CASE Accepted(tab[t].read)
  <2>1. /\ cartRow' = [cartRow EXCEPT ![c] = "deleted"]
        /\ cartLines' = [cartLines EXCEPT ![c] = Empty]
        /\ checkouts' = [checkouts EXCEPT ![c] = @ + 1]
        /\ ordered' = [ordered EXCEPT ![c] = tab[t].read]
        /\ Answer(t, NoCart)
        /\ UNCHANGED <<cookie, onSale>>
    BY <1>3 DEF FinishCheckout
  <2> HIDE DEF c
  <2>2. /\ tab' \in [Tabs -> TabState]
        /\ \A u \in Tabs \ {t} : tab'[u] = tab[u]
        /\ tab'[t].at = "answered" /\ tab'[t].sent = tab[t].sent /\ tab'[t].cart = NoCart
    BY <2>1, AnswerFields DEF CartInv
  <2>3. checkouts' = [checkouts EXCEPT ![c] = 1] /\ 1 \in 0 .. Cardinality(Tabs)
    <3>1. Cardinality(Tabs) \in Nat /\ Cardinality(Tabs) # 0
      <4>1. IsFiniteSet(Tabs) /\ Tabs # {}
        BY CartAssumption
      <4> QED
        BY <4>1, FS_CardinalityType, FS_EmptySet, Zenon
    <3>2. checkouts' = [checkouts EXCEPT ![c] = checkouts[c] + 1]
      BY <2>1
    <3> QED
      BY <1>1, <3>1, <3>2
  <2>4. tab[t].read \in [RetailOffers -> 0 .. MaxLine]
    BY DEF CartInv, CartTypeOK, TabState
  <2>5. CartTypeOK'
    <3>1. cartRow' \in [Carts -> {"none", "live", "deleted"}]
      BY <2>1 DEF CartInv, CartTypeOK
    <3>2. cartLines' \in [Carts -> [RetailOffers -> 0 .. MaxLine]]
      BY <2>1, IdleTabFields DEF CartInv, CartTypeOK
    <3>3. checkouts' \in [Carts -> 0 .. Cardinality(Tabs)]
      <4>1. checkouts \in [Carts -> 0 .. Cardinality(Tabs)]
        BY DEF CartInv, CartTypeOK
      <4> QED
        BY <2>3, <4>1, Zenon
    <3>4. ordered' \in [Carts -> [RetailOffers -> 0 .. MaxLine]]
      BY <2>1, <2>4 DEF CartInv, CartTypeOK
    <3>5. cookie' \in Carts \cup {NoCart} /\ onSale' \subseteq RetailOffers
      BY <2>1 DEF CartInv, CartTypeOK
    <3> QED
      BY <2>2, <3>1, <3>2, <3>3, <3>4, <3>5, Zenon DEF CartTypeOK
  <2>6. RowsInv'
    BY <2>1, <2>3 DEF CartInv, CartTypeOK, RowsInv
  <2>7. CookieNamesAStoredCart'
    BY <2>1 DEF CartInv, CartTypeOK, CookieNamesAStoredCart
  <2>8. ASSUME NEW u \in Tabs \ {t}
        PROVE  CartsMoveOn(u)
    <3>1. tab[u].at = "locked" => tab[u].cart # c
      BY <1>1 DEF CartInv, OneLockPerCart, c
    <3> QED
      BY <2>1, <3>1 DEF CartsMoveOn, CartInv, CartTypeOK, TabState
  <2>9. \A u \in Tabs \ {t} : TabIsSound(u)'
    BY <2>2, <2>8, OtherTabsStaySound
  <2>10. TabIsSound(t)'
    <3>1. cartRow'[c] = "deleted"
      BY <1>1, <2>1 DEF CartInv, CartTypeOK
    <3> QED
      BY <1>1, <2>2, <3>1 DEF TabIsSound, KnownCart, Live
  <2>11. OneLockPerCart'
    BY <2>2, LocksStay DEF CartInv
  <2> QED
    BY <2>5, <2>6, <2>7, <2>9, <2>10, <2>11 DEF CartInv
<1> QED
  BY <1>2, <1>3

LEMMA CartInit_Inv == CartInit => CartInv
<1> SUFFICES ASSUME CartInit PROVE CartInv
  OBVIOUS
<1>1. tab = [t \in Tabs |-> IdleTab] /\ tab \in [Tabs -> TabState]
  BY IdleTabFields DEF CartInit
<1>2. 0 \in 0 .. Cardinality(Tabs)
  <2>1. Cardinality(Tabs) \in Nat
    BY CartAssumption, FS_CardinalityType
  <2> QED
    BY <2>1
<1>3. CartTypeOK
  <2>1. checkouts \in [Carts -> 0 .. Cardinality(Tabs)]
    BY <1>2, Zenon DEF CartInit
  <2>2. cartLines \in [Carts -> [RetailOffers -> 0 .. MaxLine]]
        /\ ordered \in [Carts -> [RetailOffers -> 0 .. MaxLine]]
    BY IdleTabFields DEF CartInit
  <2>3. cartRow \in [Carts -> {"none", "live", "deleted"}]
        /\ cookie \in Carts \cup {NoCart} /\ onSale \subseteq RetailOffers
    BY DEF CartInit
  <2> QED
    BY <1>1, <2>1, <2>2, <2>3, Zenon DEF CartTypeOK
<1>4. RowsInv /\ CookieNamesAStoredCart
  BY DEF CartInit, RowsInv, CookieNamesAStoredCart
<1>5. (\A t \in Tabs : TabIsSound(t)) /\ OneLockPerCart
  BY <1>1, IdleTabFields DEF TabIsSound, KnownCart, OneLockPerCart
<1> QED
  BY <1>3, <1>4, <1>5 DEF CartInv

LEMMA CartStep == CartInv /\ [CartNext]_cartVars => CartInv'
<1> SUFFICES ASSUME CartInv, [CartNext]_cartVars PROVE CartInv'
  OBVIOUS
<1>1. ASSUME NEW t \in Tabs, Send(t) PROVE CartInv'
  BY <1>1, SendKeepsCarts
<1>2. ASSUME NEW t \in Tabs, CreateCart(t) PROVE CartInv'
  BY <1>2, CreateKeepsCarts
<1>3. ASSUME NEW t \in Tabs, FindCart(t) PROVE CartInv'
  BY <1>3, FindKeepsCarts
<1>4. ASSUME NEW t \in Tabs, NoCartFound(t) \/ LoseAnswer(t) PROVE CartInv'
  BY <1>4, FailingIsQuiet DEF NoCartFound, LoseAnswer, CartInv, CartTypeOK
<1>5. ASSUME NEW t \in Tabs, LockCart(t) PROVE CartInv'
  BY <1>5, LockKeepsCarts
<1>6. ASSUME NEW t \in Tabs, FinishAddToCart(t) \/ FinishEdit(t) PROVE CartInv'
  BY <1>6, FinishKeepsCarts
<1>7. ASSUME NEW t \in Tabs, FinishCheckout(t) PROVE CartInv'
  BY <1>7, CheckoutKeepsCarts
<1>8. ASSUME NEW t \in Tabs, ReceiveAnswer(t) PROVE CartInv'
  BY <1>8, ReceiveKeepsCarts
<1>9. ASSUME UNCHANGED <<cartRow, cartLines, checkouts, ordered, cookie, tab>>,
             onSale' \subseteq RetailOffers
      PROVE  CartInv'
  <2>1. CartTypeOK'
    BY <1>9 DEF CartInv, CartTypeOK
  <2>2. RowsInv' /\ CookieNamesAStoredCart' /\ OneLockPerCart'
    BY <1>9 DEF CartInv, RowsInv, CookieNamesAStoredCart, OneLockPerCart
  <2>3. \A t \in Tabs : TabIsSound(t)'
    BY <1>9 DEF CartInv, TabIsSound, KnownCart, Live
  <2> QED
    BY <2>1, <2>2, <2>3 DEF CartInv
<1>10. ASSUME NEW f \in RetailOffers, SaleChanges(f) PROVE CartInv'
  BY <1>9, <1>10 DEF SaleChanges, storedVars, CartInv, CartTypeOK
<1>11. CASE UNCHANGED cartVars
  BY <1>9, <1>11 DEF cartVars, CartInv, CartTypeOK
<1> QED
  BY <1>1, <1>2, <1>3, <1>4, <1>5, <1>6, <1>7, <1>8, <1>10, <1>11 DEF CartNext, TabStep

LEMMA CartSpec_Inv == CartSpec => []CartInv
<1> QED
  BY CartInit_Inv, CartStep, PTL DEF CartSpec

\* storefront/middleware.py: the browser's cookie never names a cart that was
\* rolled back, however the answers to its requests are ordered or lost.
THEOREM CookieIsNeverDangling == CartSpec => []CookieNamesAStoredCart
<1>1. CartInv => CookieNamesAStoredCart
  BY DEF CartInv
<1> QED
  BY <1>1, CartSpec_Inv, PTL

\* create_retail_checkout_from_cart: a cart becomes one order at most, made of
\* exactly the lines it holds under the lock.
THEOREM CheckoutIsAtomic == CartSpec => CartBecomesOneOrder
<1>1. CartInv /\ [CartNext]_cartVars =>
        [\A c \in Carts : checkouts'[c] # checkouts[c] =>
           checkouts[c] = 0 /\ ordered'[c] = cartLines[c]]_cartVars
  <2> SUFFICES ASSUME CartInv, CartNext, NEW c \in Carts, checkouts'[c] # checkouts[c]
               PROVE  checkouts[c] = 0 /\ ordered'[c] = cartLines[c]
    OBVIOUS
  <2>1. PICK t \in Tabs : FinishCheckout(t)
    BY DEF CartNext, TabStep, Send, CreateCart, FindCart, NoCartFound, LockCart, FinishAddToCart,
           FinishEdit, ReceiveAnswer, LoseAnswer, SaleChanges, Fail, Stored, storedVars
  <2>2. /\ checkouts' = [checkouts EXCEPT ![tab[t].cart] = @ + 1]
        /\ ordered' = [ordered EXCEPT ![tab[t].cart] = tab[t].read]
    BY <2>1 DEF FinishCheckout, Fail, storedVars
  <2>3. c = tab[t].cart
    BY <2>2 DEF CartInv, CartTypeOK
  <2>4. TabIsSound(t) /\ tab[t].at = "locked"
    BY <2>1 DEF CartInv, FinishCheckout
  <2>5. cartRow[c] = "live" /\ tab[t].read = cartLines[c]
    BY <2>3, <2>4 DEF TabIsSound, Live
  <2>6. checkouts[c] = 0
    BY <2>5 DEF CartInv, RowsInv
  <2> QED
    BY <2>2, <2>3, <2>5, <2>6 DEF CartInv, CartTypeOK
<1> QED
  BY <1>1, CartSpec_Inv, PTL DEF CartSpec, CartBecomesOneOrder

\* add_to_cart starts another cart only for a browser whose cart is gone: the
\* cookie of a live cart is replaced by answers to older requests alone.
THEOREM LiveCartsAreKept == CartSpec => LiveCartIsKept
<1>1. CartInv /\ [CartNext]_cartVars =>
        [Live(cookie) /\ cookie' # cookie =>
           \E t \in Tabs : tab[t].at = "answered" /\ tab'[t].at = "idle"
                          /\ tab[t].cart = cookie' /\ tab[t].sent # cookie]_cartVars
  <2> SUFFICES ASSUME CartInv, CartNext, Live(cookie), cookie' # cookie
               PROVE  \E t \in Tabs : tab[t].at = "answered" /\ tab'[t].at = "idle"
                                     /\ tab[t].cart = cookie' /\ tab[t].sent # cookie
    OBVIOUS
  <2>1. PICK t \in Tabs : ReceiveAnswer(t)
    BY DEF CartNext, TabStep, Send, CreateCart, FindCart, NoCartFound, LockCart, FinishAddToCart,
           FinishEdit, FinishCheckout, LoseAnswer, SaleChanges
  <2>2. TabIsSound(t) /\ tab[t].at = "answered" /\ cookie' = tab[t].cart
    BY <2>1 DEF CartInv, ReceiveAnswer
  <2>3. tab[t].sent # cookie
    BY <2>2 DEF TabIsSound
  <2>4. tab'[t].at = "idle"
    BY <2>1, EndFields DEF ReceiveAnswer, CartInv
  <2> QED
    BY <2>2, <2>3, <2>4
<1> QED
  BY <1>1, CartSpec_Inv, PTL DEF CartSpec, LiveCartIsKept

-----------------------------------------------------------------------------
(* Who may manage accounts.                                                *)

\* A request keeps the kind of account it was admitted for; whoever edits the
\* own account under its lock keeps the role and stays active.
DeskIsSound(d) ==
  desk[d] # Idle =>
    /\ desk[d].does = "edit" => Staff(desk[d].target)
    /\ desk[d].does = "status" => role[desk[d].target] = "customer"
    /\ desk[d].does = "edit" /\ desk[d].at = "checked" => HarmlessToOneself(desk[d])

\* The rows of an account are locked by one request at a time.
Edits(d, b) ==
  desk[d] # Idle /\ desk[d].at = "checked" /\ desk[d].does = "edit" /\ desk[d].target = b

OneEditPerAccount == \A d, e \in Desks, b \in Accounts : Edits(d, b) /\ Edits(e, b) => d = e

AccessInv == AccessTypeOK /\ (\A d \in Desks : DeskIsSound(d)) /\ OneEditPerAccount

\* What each kind of form has.
LEMMA FormFields ==
  ASSUME NEW form \in Forms
  PROVE  /\ form # Idle /\ form.by \in Accounts /\ form.at \in {"admitted", "checked"}
         /\ form.does \in {"create", "edit", "status"}
         /\ form.does = "create" => form.email \in Emails /\ form.role \in StaffLevels \cup {"customer"}
         /\ form.does = "edit" =>
              /\ form.target \in Accounts /\ form.email \in Emails
              /\ form.role \in StaffLevels /\ form.enabled \in BOOLEAN
         /\ form.does = "status" =>
              form.at = "admitted" /\ form.target \in Accounts /\ form.enabled \in BOOLEAN
<1> DEFINE New == [at : {"admitted", "checked"}, by : Accounts, does : {"create"}, email : Emails,
                   role : StaffLevels \cup {"customer"}]
           Edit == [at : {"admitted", "checked"}, by : Accounts, does : {"edit"}, target : Accounts,
                    email : Emails, role : StaffLevels, enabled : BOOLEAN]
           Status == [at : {"admitted"}, by : Accounts, does : {"status"}, target : Accounts,
                      enabled : BOOLEAN]
<1>1. form \in New \/ form \in Edit \/ form \in Status
  BY DEF Forms
<1>2. CASE form \in New
  BY <1>2 DEF Idle
<1>3. CASE form \in Edit
  BY <1>3 DEF Idle
<1>4. CASE form \in Status
  BY <1>4 DEF Idle
<1> QED
  BY <1>1, <1>2, <1>3, <1>4

\* A form that passes its check is the same form.
LEMMA CheckedForm ==
  ASSUME NEW form \in Forms, form.does \in {"create", "edit"},
         NEW r, r = [form EXCEPT !.at = "checked"]
  PROVE  /\ r \in Forms /\ r.at = "checked" /\ r.does = form.does /\ r.by = form.by
         /\ r.email = form.email /\ r.role = form.role
         /\ form.does = "edit" => r.target = form.target /\ r.enabled = form.enabled
<1> DEFINE New == [at : {"admitted", "checked"}, by : Accounts, does : {"create"}, email : Emails,
                   role : StaffLevels \cup {"customer"}]
           Edit == [at : {"admitted", "checked"}, by : Accounts, does : {"edit"}, target : Accounts,
                    email : Emails, role : StaffLevels, enabled : BOOLEAN]
<1>1. form \in New \/ form \in Edit
  BY DEF Forms
<1>2. CASE form \in New
  <2>1. r \in New
    BY <1>2
  <2> QED
    BY <1>2, <2>1 DEF Forms
<1>3. CASE form \in Edit
  <2>1. r \in Edit
    BY <1>3
  <2> QED
    BY <1>3, <2>1 DEF Forms
<1> QED
  BY <1>1, <1>2, <1>3

\* A request starts, ends or passes its check, and no account changes.
LEMMA DeskSteps ==
  ASSUME AccessInv, NEW d \in Desks, UNCHANGED <<role, enabled, email>>,
         NEW r \in Forms \cup {Idle}, desk' = [desk EXCEPT ![d] = r],
         r # Idle /\ r.does = "edit" => Staff(r.target),
         r # Idle /\ r.does = "status" => role[r.target] = "customer",
         r # Idle /\ r.does = "edit" /\ r.at = "checked" =>
           HarmlessToOneself(r) /\ ~Locked(r.target)
  PROVE  AccessInv'
<1>1. desk' \in [Desks -> Forms \cup {Idle}] /\ desk'[d] = r
      /\ \A e \in Desks \ {d} : desk'[e] = desk[e]
  BY DEF AccessInv, AccessTypeOK
<1>2. AccessTypeOK'
  BY <1>1 DEF AccessInv, AccessTypeOK
<1>3. \A e \in Desks : DeskIsSound(e)'
  BY <1>1 DEF AccessInv, DeskIsSound, Staff, HarmlessToOneself
<1>4. OneEditPerAccount'
  <2> SUFFICES ASSUME NEW e \in Desks, NEW f \in Desks, NEW b \in Accounts,
                      Edits(e, b)', Edits(f, b)', e # f
               PROVE  FALSE
    BY DEF OneEditPerAccount
  <2>1. CASE e = d
    BY <1>1, <2>1 DEF Edits, Locked
  <2>2. CASE f = d
    BY <1>1, <2>2 DEF Edits, Locked
  <2>3. CASE e # d /\ f # d
    BY <1>1, <2>3 DEF Edits, AccessInv, OneEditPerAccount
  <2> QED
    BY <2>1, <2>2, <2>3
<1> QED
  BY <1>2, <1>3, <1>4 DEF AccessInv

LEMMA RefusingKeepsAccess ==
  ASSUME AccessInv, NEW d \in Desks, Refused(d)
  PROVE  AccessInv'
<1> QED
  BY DeskSteps DEF Refused, Close

LEMMA AdmitKeepsAccess ==
  ASSUME AccessInv, NEW d \in Desks, Admit(d)
  PROVE  AccessInv'
<1>1. PICK form \in Forms :
        /\ form.at = "admitted"
        /\ form.does = "edit" => Staff(form.target)
        /\ form.does = "status" => role[form.target] = "customer"
        /\ desk' = [desk EXCEPT ![d] = form]
  BY DEF Admit
<1>2. UNCHANGED <<role, enabled, email>>
  BY DEF Admit
<1> QED
  BY <1>1, <1>2, DeskSteps

LEMMA CheckKeepsAccess ==
  ASSUME AccessInv, NEW d \in Desks, CheckNewAccount(d) \/ CheckEdit(d)
  PROVE  AccessInv'
<1>1. /\ desk[d] \in Forms /\ desk[d].does \in {"create", "edit"} /\ DeskIsSound(d)
      /\ Refused(d) \/ Checked(d)
  BY DEF AccessInv, AccessTypeOK, CheckNewAccount, CheckEdit
<1>2. CASE Refused(d)
  BY <1>2, RefusingKeepsAccess
<1>3. CASE Checked(d)
  <2> DEFINE r == [desk[d] EXCEPT !.at = "checked"]
  <2>1. r \in Forms /\ r.at = "checked" /\ r.does = desk[d].does /\ r.by = desk[d].by
        /\ r.role = desk[d].role
        /\ (desk[d].does = "edit" => r.target = desk[d].target /\ r.enabled = desk[d].enabled)
    BY <1>1, CheckedForm
  <2>2. UNCHANGED <<role, enabled, email>> /\ desk' = [desk EXCEPT ![d] = r]
    BY <1>3 DEF Checked
  <2>3. desk[d] # Idle
    BY <1>1, FormFields
  <2>4. desk[d].does = "edit" => Staff(desk[d].target)
    BY <1>1, <2>3 DEF DeskIsSound
  <2>5. desk[d].does = "edit" => HarmlessToOneself(desk[d]) \/ Refused(d)
    BY DEF CheckNewAccount, CheckEdit
  <2>6. desk[d].does = "edit" => ~Locked(desk[d].target)
    BY DEF CheckNewAccount, CheckEdit
  <2>7. CASE Refused(d)
    BY <2>7, RefusingKeepsAccess
  <2>8. CASE ~Refused(d)
    <3>1. r.does = "edit" => Staff(r.target) /\ ~Locked(r.target)
      BY <2>1, <2>4, <2>6
    <3>2. r.does = "edit" => HarmlessToOneself(r)
      BY <2>1, <2>5, <2>8 DEF HarmlessToOneself
    <3>3. r.does # "status" /\ r \in Forms \cup {Idle}
      BY <1>1, <2>1
    <3> HIDE DEF r
    <3> QED
      BY <2>2, <3>1, <3>2, <3>3, DeskSteps
  <2> QED
    BY <2>7, <2>8
<1> QED
  BY <1>1, <1>2, <1>3

LEMMA NewAccountKeepsAccess ==
  ASSUME AccessInv, NEW d \in Desks, CommitNewAccount(d)
  PROVE  AccessInv'
<1>1. CASE Refused(d)
  BY <1>1, RefusingKeepsAccess
<1>2. CASE ~Refused(d)
  <2>1. /\ ~Taken(desk[d].email, {}) /\ Close(d) /\ desk[d] \in Forms
        /\ desk[d].email \in Emails /\ desk[d].role \in StaffLevels \cup {"customer"}
    BY <1>2, FormFields DEF CommitNewAccount, AccessInv, AccessTypeOK
  <2>2. PICK b \in Accounts :
          /\ role[b] = "none"
          /\ role' = [role EXCEPT ![b] = desk[d].role]
          /\ enabled' = [enabled EXCEPT ![b] = TRUE]
          /\ email' = [email EXCEPT ![b] = desk[d].email]
    BY <1>2 DEF CommitNewAccount
  <2>3. /\ desk' \in [Desks -> Forms \cup {Idle}] /\ desk'[d] = Idle
        /\ \A e \in Desks \ {d} : desk'[e] = desk[e]
    BY <2>1 DEF Close, AccessInv, AccessTypeOK
  <2>4. \A a \in Accounts : email[a] # desk[d].email
    BY <2>1 DEF Taken
  <2>5. AccessTypeOK'
    <3>1. /\ role' \in [Accounts -> StaffLevels \cup {"customer", "none"}]
          /\ enabled' \in [Accounts -> BOOLEAN]
          /\ email' \in [Accounts -> Emails \cup {NoEmail}]
      BY <2>1, <2>2 DEF AccessInv, AccessTypeOK
    <3>2. \A a \in Accounts : (role'[a] = "none") = (email'[a] = NoEmail)
      BY <2>1, <2>2, AccessAssumption DEF AccessInv, AccessTypeOK, StaffLevels
    <3>3. \A a, c \in Accounts : email'[a] = email'[c] /\ email'[a] # NoEmail => a = c
      BY <2>2, <2>4 DEF AccessInv, AccessTypeOK
    <3> QED
      BY <2>3, <3>1, <3>2, <3>3 DEF AccessTypeOK
  <2>6. ASSUME NEW e \in Desks
        PROVE  DeskIsSound(e)'
    <3>1. DeskIsSound(e) /\ (desk[e] # Idle => desk[e].by \in Accounts
             /\ (desk[e].does \in {"edit", "status"} => desk[e].target \in Accounts))
      BY FormFields DEF AccessInv, AccessTypeOK
    <3> QED
      BY <2>2, <2>3, <3>1
      DEF DeskIsSound, Staff, StaffLevels, HarmlessToOneself, AccessInv, AccessTypeOK
  <2>7. OneEditPerAccount'
    BY <2>3 DEF AccessInv, OneEditPerAccount, Edits
  <2> QED
    BY <2>5, <2>6, <2>7 DEF AccessInv
<1> QED
  BY <1>1, <1>2

LEMMA EditKeepsAccess ==
  ASSUME AccessInv, NEW d \in Desks, CommitEdit(d)
  PROVE  AccessInv'
<1> DEFINE b == desk[d].target
<1>1. CASE Refused(d)
  BY <1>1, RefusingKeepsAccess
<1>2. CASE ~Refused(d)
  <2>1. /\ desk[d] # Idle /\ desk[d].does = "edit" /\ desk[d].at = "checked"
        /\ ~Taken(desk[d].email, {b})
        /\ role' = [role EXCEPT ![b] = desk[d].role]
        /\ enabled' = [enabled EXCEPT ![b] = desk[d].enabled]
        /\ email' = [email EXCEPT ![b] = desk[d].email]
        /\ Close(d)
    BY <1>2 DEF CommitEdit
  <2>2. /\ b \in Accounts /\ desk[d].email \in Emails /\ desk[d].role \in StaffLevels
        /\ desk[d].enabled \in BOOLEAN /\ role[b] \in StaffLevels
    BY <2>1, FormFields DEF AccessInv, AccessTypeOK, DeskIsSound, Staff
  <2>3. /\ desk' \in [Desks -> Forms \cup {Idle}] /\ desk'[d] = Idle
        /\ \A e \in Desks \ {d} : desk'[e] = desk[e]
    BY <2>1 DEF Close, AccessInv, AccessTypeOK
  <2>4. \A a \in Accounts \ {b} : email[a] # desk[d].email
    BY <2>1 DEF Taken
  <2>5. \A e \in Desks \ {d} : ~Edits(e, b)
    BY <2>1, <2>2 DEF AccessInv, OneEditPerAccount, Edits
  <2> HIDE DEF b
  <2>6. AccessTypeOK'
    <3>1. /\ role' \in [Accounts -> StaffLevels \cup {"customer", "none"}]
          /\ enabled' \in [Accounts -> BOOLEAN]
          /\ email' \in [Accounts -> Emails \cup {NoEmail}]
      BY <2>1, <2>2 DEF AccessInv, AccessTypeOK
    <3>2. \A a \in Accounts : (role'[a] = "none") = (email'[a] = NoEmail)
      BY <2>1, <2>2, AccessAssumption DEF AccessInv, AccessTypeOK, StaffLevels
    <3>3. \A a, c \in Accounts : email'[a] = email'[c] /\ email'[a] # NoEmail => a = c
      BY <2>1, <2>2, <2>4 DEF AccessInv, AccessTypeOK
    <3> QED
      BY <2>3, <3>1, <3>2, <3>3 DEF AccessTypeOK
  <2>7. ASSUME NEW e \in Desks
        PROVE  DeskIsSound(e)'
    <3>1. DeskIsSound(e) /\ (desk[e] # Idle => desk[e].by \in Accounts
             /\ (desk[e].does \in {"edit", "status"} => desk[e].target \in Accounts))
      BY FormFields DEF AccessInv, AccessTypeOK
    <3>2. e # d /\ desk[e] # Idle /\ desk[e].at = "checked" /\ desk[e].does = "edit"
            => desk[e].target # b
      BY <2>5 DEF Edits
    <3> QED
      BY <2>1, <2>2, <2>3, <3>1, <3>2
      DEF DeskIsSound, Staff, StaffLevels, HarmlessToOneself, AccessInv, AccessTypeOK
  <2>8. OneEditPerAccount'
    BY <2>3 DEF AccessInv, OneEditPerAccount, Edits
  <2> QED
    BY <2>6, <2>7, <2>8 DEF AccessInv
<1> QED
  BY <1>1, <1>2

LEMMA StatusKeepsAccess ==
  ASSUME AccessInv, NEW d \in Desks, CommitStatus(d)
  PROVE  AccessInv'
<1>1. /\ enabled' = [enabled EXCEPT ![desk[d].target] = desk[d].enabled]
      /\ UNCHANGED <<role, email>> /\ desk' = [desk EXCEPT ![d] = Idle]
  BY DEF CommitStatus, Close
<1>2. desk[d].target \in Accounts /\ desk[d].enabled \in BOOLEAN
  BY FormFields DEF CommitStatus, AccessInv, AccessTypeOK
<1>3. /\ desk' \in [Desks -> Forms \cup {Idle}] /\ desk'[d] = Idle
      /\ \A e \in Desks \ {d} : desk'[e] = desk[e]
  BY <1>1 DEF AccessInv, AccessTypeOK
<1>4. AccessTypeOK'
  BY <1>1, <1>2, <1>3 DEF AccessInv, AccessTypeOK
<1>5. \A e \in Desks : DeskIsSound(e)'
  BY <1>1, <1>3 DEF AccessInv, DeskIsSound, Staff, HarmlessToOneself
<1>6. OneEditPerAccount'
  BY <1>3 DEF AccessInv, OneEditPerAccount, Edits
<1> QED
  BY <1>4, <1>5, <1>6 DEF AccessInv

LEMMA AccessInit_Inv == AccessInit => AccessInv
<1> SUFFICES ASSUME AccessInit PROVE AccessInv
  OBVIOUS
<1>1. PICK m \in Accounts : \E e \in Emails :
        /\ role = [a \in Accounts |-> IF a = m THEN "full" ELSE "none"]
        /\ enabled = [a \in Accounts |-> a = m]
        /\ email = [a \in Accounts |-> IF a = m THEN e ELSE NoEmail]
        /\ desk = [d \in Desks |-> Idle]
  BY DEF AccessInit
<1>2. \A d \in Desks : desk[d] = Idle
  BY <1>1
<1>3. (\A d \in Desks : DeskIsSound(d)) /\ OneEditPerAccount
  BY <1>2 DEF DeskIsSound, OneEditPerAccount, Edits
<1>4. AccessTypeOK
  <2>1. PICK e \in Emails : email = [a \in Accounts |-> IF a = m THEN e ELSE NoEmail]
    BY <1>1
  <2>2. e # NoEmail
    BY AccessAssumption
  <2> QED
    BY <1>1, <2>1, <2>2 DEF AccessTypeOK, StaffLevels
<1> QED
  BY <1>3, <1>4 DEF AccessInv

LEMMA AccessStep == AccessInv /\ [AccessNext]_accessVars => AccessInv'
<1> SUFFICES ASSUME AccessInv, [AccessNext]_accessVars PROVE AccessInv'
  OBVIOUS
<1>1. CASE UNCHANGED accessVars
  BY <1>1
  DEF accessVars, AccessInv, AccessTypeOK, DeskIsSound, Staff, HarmlessToOneself,
      OneEditPerAccount, Edits
<1>2. CASE AccessNext
  BY <1>2, AdmitKeepsAccess, CheckKeepsAccess, NewAccountKeepsAccess, EditKeepsAccess,
     StatusKeepsAccess DEF AccessNext
<1> QED
  BY <1>1, <1>2

LEMMA AccessSpec_Inv == AccessSpec => []AccessInv
<1> QED
  BY AccessInit_Inv, AccessStep, PTL DEF AccessSpec

\* A manager who still is one when an edit commits does not lose the role by it.
LEMMA EditorsStayManagers ==
  ASSUME AccessInv, NEW d \in Desks, CommitEdit(d), desk[d].by \in Managers
  PROVE  desk[d].by \in Managers'
<1> DEFINE form == desk[d]
<1>1. /\ form # Idle /\ form.does = "edit" /\ form.at = "checked"
      /\ Refused(d) \/ /\ role' = [role EXCEPT ![form.target] = form.role]
                       /\ enabled' = [enabled EXCEPT ![form.target] = form.enabled]
  BY DEF CommitEdit
<1>2. /\ form.by \in Accounts /\ role[form.by] = "full" /\ enabled[form.by]
      /\ form.target \in Accounts /\ form.role \in StaffLevels /\ form.enabled \in BOOLEAN
  BY <1>1, FormFields DEF Managers, AccessInv, AccessTypeOK
<1>3. form.target = form.by => form.enabled /\ form.role = "full"
  BY <1>1, <1>2 DEF AccessInv, DeskIsSound, HarmlessToOneself, StaffLevels
<1> HIDE DEF form
<1>4. role'[form.by] = "full" /\ enabled'[form.by]
  <2>1. CASE Refused(d)
    BY <1>2, <2>1 DEF Refused
  <2>2. CASE form.target = form.by /\ ~Refused(d)
    BY <1>1, <1>2, <1>3, <2>2 DEF AccessInv, AccessTypeOK
  <2>3. CASE form.target # form.by /\ ~Refused(d)
    BY <1>1, <1>2, <2>3 DEF AccessInv, AccessTypeOK
  <2> QED
    BY <2>1, <2>2, <2>3
<1>5. desk[d].by \in Accounts /\ role'[desk[d].by] = "full" /\ enabled'[desk[d].by]
  BY <1>2, <1>4 DEF form
<1> QED
  BY <1>5 DEF Managers

\* accounts/services.py: "You cannot remove your own account management
\* access" holds at the commit too, so that a request ends with no manager
\* left only when its own sender was demoted while it was under way.
THEOREM ManagersSurviveTheirEdits == AccessSpec => LastManagerIsLostOnlyToARace
<1>1. AccessInv /\ [AccessNext]_accessVars =>
        [Managers # {} /\ Managers' = {} =>
           \E d \in Desks : desk[d] # Idle /\ desk'[d] = Idle /\ desk[d].by \notin Managers]_accessVars
  <2> SUFFICES ASSUME AccessInv, AccessNext, Managers # {}, Managers' = {}
               PROVE  \E d \in Desks : desk[d] # Idle /\ desk'[d] = Idle /\ desk[d].by \notin Managers
    OBVIOUS
  <2>1. ~UNCHANGED <<role, enabled>>
    BY DEF Managers
  <2>2. PICK d \in Desks : CommitNewAccount(d) \/ CommitEdit(d) \/ CommitStatus(d)
    BY <2>1 DEF AccessNext, Admit, CheckNewAccount, CheckEdit, Refused, Checked
  <2>3. desk[d] # Idle /\ desk[d] \in Forms /\ desk'[d] = Idle
    BY <2>2
    DEF CommitNewAccount, CommitEdit, CommitStatus, Refused, Close, AccessInv, AccessTypeOK
  <2>4. CASE CommitEdit(d)
    BY <2>3, <2>4, EditorsStayManagers
  <2>5. CASE CommitStatus(d)
    <3>1. /\ desk[d].target \in Accounts /\ role[desk[d].target] = "customer"
          /\ enabled' = [enabled EXCEPT ![desk[d].target] = desk[d].enabled] /\ role' = role
      BY <2>3, <2>5, FormFields DEF CommitStatus, AccessInv, DeskIsSound
    <3>2. PICK m \in Accounts : role[m] = "full" /\ enabled[m]
      BY DEF Managers
    <3>3. m \in Managers'
      BY <3>1, <3>2 DEF Managers, AccessInv, AccessTypeOK
    <3> QED
      BY <3>3
  <2>6. CASE CommitNewAccount(d) /\ ~UNCHANGED <<role, enabled>>
    <3>1. PICK b \in Accounts :
            /\ role[b] = "none"
            /\ role' = [role EXCEPT ![b] = desk[d].role]
            /\ enabled' = [enabled EXCEPT ![b] = TRUE]
      BY <2>6 DEF CommitNewAccount, Refused
    <3>2. PICK m \in Accounts : role[m] = "full" /\ enabled[m]
      BY DEF Managers
    <3>3. m \in Managers'
      BY <3>1, <3>2 DEF Managers, AccessInv, AccessTypeOK
    <3> QED
      BY <3>3
  <2> QED
    BY <2>1, <2>2, <2>4, <2>5, <2>6
<1> QED
  BY <1>1, AccessSpec_Inv, PTL DEF AccessSpec, LastManagerIsLostOnlyToARace

-----------------------------------------------------------------------------
(* Generated batch ids.                                                    *)

\* The id that is last in string order, as long as the width is not used up.
LEMMA LatestIsLargest ==
  ASSUME IdsTypeOK
  PROVE  Latest \in 0 .. LastPadded /\ \A n \in numbers \ {LastPadded + 1} : n <= Latest
<1> DEFINE padded == numbers \cap (1 .. LastPadded)
<1>1. LastPadded \in Nat
  BY BatchIdsAssumption
<1>2. \A n \in numbers \ {LastPadded + 1} : n \in padded
  BY <1>1 DEF IdsTypeOK, Number
<1>3. CASE padded = {}
  BY <1>1, <1>2, <1>3 DEF Latest
<1>4. CASE padded # {}
  <2>1. IsFiniteSet(1 .. LastPadded)
    BY <1>1, FS_Interval
  <2>2. IsFiniteSet(padded)
    BY <2>1, FS_Subset
  <2>3. padded \subseteq Nat
    OBVIOUS
  <2> HIDE DEF padded
  <2>4. \E m \in padded : \A n \in padded : n <= m
    BY <1>4, <2>2, <2>3, GreatestMember
  <2>5. Largest(padded) \in padded /\ \A n \in padded : n <= Largest(padded)
    BY <2>4 DEF Largest
  <2>6. Latest = Largest(padded)
    BY <1>4 DEF Latest, padded
  <2>7. Largest(padded) \in 1 .. LastPadded
    BY <2>5 DEF padded
  <2> QED
    BY <1>2, <2>5, <2>6, <2>7
<1> QED
  BY <1>3, <1>4

LEMMA IdsSpec_Inv == IdsSpec => []IdsTypeOK
<1>1. IdsInit => IdsTypeOK
  BY DEF IdsInit, IdsTypeOK
<1>2. IdsTypeOK /\ [IdsNext]_idsVars => IdsTypeOK'
  <2> SUFFICES ASSUME IdsTypeOK, [IdsNext]_idsVars PROVE IdsTypeOK'
    OBVIOUS
  <2>1. CASE UNCHANGED idsVars
    BY <2>1 DEF idsVars, IdsTypeOK
  <2>2. ASSUME NEW m \in Makers, Generate(m) PROVE IdsTypeOK'
    <3>1. Latest + 1 \in Number
      BY LatestIsLargest, BatchIdsAssumption DEF Number
    <3> QED
      BY <2>2, <3>1 DEF Generate, IdsTypeOK
  <2>3. ASSUME NEW m \in Makers, Insert(m) \/ Collide(m) \/ RollBack(m) PROVE IdsTypeOK'
    BY <2>3 DEF Insert, Collide, RollBack, IdsTypeOK
  <2> QED
    BY <2>1, <2>2, <2>3 DEF IdsNext
<1> QED
  BY <1>1, <1>2, PTL DEF IdsSpec

\* _generate_batch_id: while the padded width lasts, the number generated is
\* not the number of any committed batch.
THEOREM NumbersAreFree == IdsSpec => GeneratedNumbersAreFree
<1>1. IdsTypeOK /\ [IdsNext]_idsVars =>
        [\A m \in Makers :
           maker[m] = 0 /\ maker'[m] # 0 /\ LastPadded + 1 \notin numbers
             => maker'[m] \notin numbers]_idsVars
  <2> SUFFICES ASSUME IdsTypeOK, IdsNext, NEW m \in Makers,
                      maker[m] = 0, maker'[m] # 0, LastPadded + 1 \notin numbers
               PROVE  maker'[m] \notin numbers
    OBVIOUS
  <2>1. PICK k \in Makers : Generate(k) \/ Insert(k) \/ Collide(k) \/ RollBack(k)
    BY DEF IdsNext
  <2>2. Generate(k) /\ k = m
    BY <2>1 DEF Generate, Insert, Collide, RollBack, IdsTypeOK
  <2>3. maker'[m] = Latest + 1
    BY <2>2 DEF Generate, IdsTypeOK
  <2>4. Latest \in Nat /\ \A n \in numbers : n <= Latest /\ n \in Nat
    BY LatestIsLargest, BatchIdsAssumption DEF IdsTypeOK, Number
  <2> QED
    BY <2>3, <2>4
<1> QED
  BY <1>1, IdsSpec_Inv, PTL DEF IdsSpec, GeneratedNumbersAreFree

-----------------------------------------------------------------------------
(* Sequences of rows.                                                      *)

\* FlattenSeq is defined by recursion on the first i sequences.
LEMMA FlattenUnfolds ==
  ASSUME NEW seqs, Len(seqs) # 0
  PROVE  FlattenSeq(seqs) =
           (CHOOSE f : f = [i \in 1 .. Len(seqs) |->
                              IF i = 1 THEN seqs[i] ELSE f[i - 1] \o seqs[i]])[Len(seqs)]
<1> QED
  BY Zenon DEF FlattenSeq

\* Flattening sequences over S gives a sequence over S.
LEMMA FlattenType ==
  ASSUME NEW S, NEW seqs \in Seq(Seq(S))
  PROVE  FlattenSeq(seqs) \in Seq(S)
<1> DEFINE N == Len(seqs)
           Cat(x, i) == x \o seqs[i]
           Unfolds(f, n) == f = [i \in 1 .. n |-> IF i = 1 THEN seqs[i] ELSE Cat(f[i - 1], i)]
           prefixes == {n \in 1 .. N : \E f : Unfolds(f, n)}
<1>1. /\ N \in Nat /\ \A i \in 1 .. N : seqs[i] \in Seq(S)
      /\ \A i \in 1 .. N : \A x \in Seq(S) : Cat(x, i) \in Seq(S)
  OBVIOUS
<1>2. CASE N = 0
  <2>1. seqs = <<>>
    BY <1>2, EmptySeq
  <2>2. FlattenSeq(seqs) = seqs
    BY <1>2, Zenon DEF FlattenSeq
  <2> QED
    BY <2>1, <2>2, EmptySeq
<1>3. FlattenSeq(seqs) = (CHOOSE f : Unfolds(f, N))[N] \/ N = 0
  BY FlattenUnfolds, Zenon
<1> HIDE DEF N, Cat
<1>4. CASE N # 0
  <2>1. 1 \in prefixes
    <3>1. Unfolds([i \in 1 .. 1 |-> seqs[i]], 1)
      OBVIOUS
    <3>2. 1 \in 1 .. N
      BY <1>1, <1>4
    <3> HIDE DEF Unfolds
    <3> QED
      BY <3>1, <3>2
  <2>2. PICK n \in prefixes : \A k \in prefixes : k <= n
    <3>1. IsFiniteSet(1 .. N)
      BY <1>1, FS_Interval
    <3>2. IsFiniteSet(prefixes)
      BY <3>1, FS_Subset
    <3>3. prefixes \subseteq Nat
      OBVIOUS
    <3> HIDE DEF prefixes
    <3> QED
      BY <2>1, <3>2, <3>3, GreatestMember
  <2>3. n = N
    <3> SUFFICES ASSUME n # N PROVE FALSE
      OBVIOUS
    <3>1. PICK f : Unfolds(f, n)
      BY <2>2
    <3> DEFINE g == [i \in 1 .. n + 1 |-> IF i = 1 THEN seqs[i] ELSE Cat(f[i - 1], i)]
    <3>2. n \in 1 .. N /\ n + 1 \in 1 .. N
      BY <1>1, <2>2
    <3>3. \A i \in 1 .. n : g[i] = f[i]
      BY <3>1, <3>2
    <3>4. ASSUME NEW i \in 1 .. n + 1
          PROVE  g[i] = IF i = 1 THEN seqs[i] ELSE Cat(g[i - 1], i)
      <4>1. CASE i = 1
        BY <4>1
      <4>2. CASE i # 1
        <5>1. i - 1 \in 1 .. n
          BY <3>2, <4>2
        <5>2. g[i - 1] = f[i - 1]
          BY <3>3, <5>1
        <5>3. g[i] = Cat(f[i - 1], i)
          BY <4>2
        <5> HIDE DEF g
        <5> QED
          BY <4>2, <5>2, <5>3
      <4> QED
        BY <4>1, <4>2
    <3>5. Unfolds(g, n + 1)
      BY <3>4
    <3> HIDE DEF Unfolds, g
    <3> QED
      BY <2>2, <3>2, <3>5
  <2>4. PICK f : Unfolds(f, N)
    BY <2>2, <2>3
  <2> DEFINE flat == CHOOSE h : Unfolds(h, N)
  <2>5. Unfolds(flat, N)
    BY <2>4, Zenon
  <2>6. FlattenSeq(seqs) = flat[N]
    BY <1>3, <1>4, Zenon
  <2> HIDE DEF flat
  <2> DEFINE typed == {k \in 1 .. N : \A i \in 1 .. k : flat[i] \in Seq(S)}
  <2>7. 1 \in typed
    BY <1>1, <1>4, <2>5
  <2>8. PICK m \in typed : \A k \in typed : k <= m
    <3>1. IsFiniteSet(1 .. N)
      BY <1>1, FS_Interval
    <3>2. IsFiniteSet(typed)
      BY <3>1, FS_Subset
    <3>3. typed \subseteq Nat
      OBVIOUS
    <3> HIDE DEF typed
    <3> QED
      BY <2>7, <3>2, <3>3, GreatestMember
  <2>9. m = N
    <3> SUFFICES ASSUME m # N PROVE FALSE
      OBVIOUS
    <3>1. m \in 1 .. N /\ m + 1 \in 1 .. N /\ flat[m] \in Seq(S)
      BY <1>1, <2>8
    <3>2. flat[m + 1] = Cat(flat[m], m + 1)
      BY <2>5, <3>1
    <3>3. flat[m + 1] \in Seq(S)
      BY <1>1, <3>1, <3>2
    <3>4. m + 1 \in typed
      BY <2>8, <3>1, <3>3
    <3> QED
      BY <2>8, <3>1, <3>4
  <2> QED
    BY <1>1, <1>4, <2>6, <2>8, <2>9
<1> QED
  BY <1>2, <1>4

-----------------------------------------------------------------------------
(* Row locks.                                                              *)

\* Where a row stands in the order of locking: a checkout before its order,
\* an order before its attempt, all of them before stock.
Rank(r) ==
  IF r \in StockRows THEN 4
  ELSE IF r[1] = "checkout" THEN 1 ELSE IF r[1] = "order" THEN 2 ELSE 3

\* A row that is not stock comes after all rows locked before it.
Before(r, s) == s \in StockRows \/ (r \notin StockRows /\ Rank(r) < Rank(s))

InLockOrder(rows) == \A i, j \in DOMAIN rows : i < j => Before(rows[i], rows[j])

LocksInv ==
  /\ LocksTypeOK
  /\ ahead \in [Workers -> Seq(Rows)]
  /\ \A w \in Workers :
       /\ InLockOrder(ahead[w])
       /\ \A r \in owns[w] : \A i \in DOMAIN ahead[w] : Before(r, ahead[w][i])

\* Where the rows of one order stand.
LEMMA OrderRowsRank ==
  ASSUME NEW o \in AllOrders
  PROVE  /\ {OrderRow(o), AttemptRow(o), CheckoutRow(o)} \subseteq Rows \ StockRows
         /\ Rank(CheckoutRow(o)) = 1 /\ Rank(OrderRow(o)) = 2 /\ Rank(AttemptRow(o)) = 3
<1>1. /\ OrderRow(o) \notin StockRows /\ AttemptRow(o) \notin StockRows
      /\ CheckoutRow(o) \notin StockRows
  BY DEF StockRows, OrderRow, AttemptRow, CheckoutRow, BatchRow, ProductRow
<1>2. {OrderRow(o), AttemptRow(o), CheckoutRow(o)} \subseteq Rows
  BY DEF Rows, OrderRow, AttemptRow, CheckoutRow
<1>3. Rank(CheckoutRow(o)) = 1 /\ Rank(OrderRow(o)) = 2 /\ Rank(AttemptRow(o)) = 3
  BY <1>1 DEF Rank, OrderRow, AttemptRow, CheckoutRow
<1> QED
  BY <1>1, <1>2, <1>3

\* reserve_order_line_from_pool locks batches and products only.
LEMMA PoolRowsAreStock ==
  ASSUME NEW pool
  PROVE  InFefoOrder(pool) \in Seq(BatchSet) /\ PoolRows(pool) \in Seq(StockRows)
<1> DEFINE parts == [i \in DOMAIN Fefo |-> IF Fefo[i] \in pool THEN <<Fefo[i]>> ELSE <<>>]
<1>1. /\ Len(Fefo) \in Nat /\ DOMAIN Fefo = 1 .. Len(Fefo)
      /\ \A i \in DOMAIN Fefo : Fefo[i] \in BatchSet
  BY LockAssumption, LenProperties, ElementOfSeq
<1>2. \A i \in 1 .. Len(Fefo) : parts[i] \in Seq(BatchSet)
  BY <1>1, EmptySeq
<1>3. parts \in Seq(Seq(BatchSet))
  BY <1>1, <1>2
<1>4. InFefoOrder(pool) \in Seq(BatchSet)
  BY <1>3, FlattenType DEF InFefoOrder
<1> DEFINE fefo == InFefoOrder(pool)
           pairs == [i \in DOMAIN fefo |-> <<BatchRow(fefo[i]), ProductRow(fefo[i])>>]
<1> HIDE DEF fefo
<1>5. /\ Len(fefo) \in Nat /\ DOMAIN fefo = 1 .. Len(fefo)
      /\ \A i \in DOMAIN fefo : fefo[i] \in BatchSet
  <2>1. fefo \in Seq(BatchSet)
    BY <1>4 DEF fefo
  <2> QED
    BY <2>1, LenProperties, ElementOfSeq
<1>6. \A i \in 1 .. Len(fefo) : pairs[i] \in Seq(StockRows)
  <2> SUFFICES ASSUME NEW i \in 1 .. Len(fefo)
               PROVE  <<BatchRow(fefo[i]), ProductRow(fefo[i])>> \in Seq(StockRows)
    BY <1>5
  <2>1. BatchRow(fefo[i]) \in StockRows /\ ProductRow(fefo[i]) \in StockRows
    BY <1>5 DEF StockRows
  <2> QED
    BY <2>1
<1>7. pairs \in Seq(Seq(StockRows))
  BY <1>5, <1>6
<1>8. FlattenSeq(pairs) \in Seq(StockRows)
  BY <1>7, FlattenType
<1> QED
  BY <1>4, <1>8 DEF PoolRows, fefo

LEMMA LineRowsAreStock ==
  ASSUME NEW o \in AllOrders
  PROVE  LineRows(o) \in Seq(StockRows)
<1> DEFINE pools == PoolsOf[o]
           parts == [i \in DOMAIN pools |-> PoolRows(pools[i])]
<1>1. pools \in Seq(SUBSET BatchSet)
  BY LockAssumption
<1> HIDE DEF pools
<1>2. Len(pools) \in Nat /\ DOMAIN pools = 1 .. Len(pools)
  BY <1>1, LenProperties
<1>3. \A i \in 1 .. Len(pools) : parts[i] \in Seq(StockRows)
  BY <1>2, PoolRowsAreStock
<1>4. parts \in Seq(Seq(StockRows))
  BY <1>2, <1>3
<1> QED
  BY <1>4, FlattenType DEF LineRows, pools

\* Rows of orders first, then stock, is the order of locking.
LEMMA StockComesLast ==
  ASSUME NEW rows \in Seq(Rows), InLockOrder(rows), NEW stock \in Seq(StockRows)
  PROVE  rows \o stock \in Seq(Rows) /\ InLockOrder(rows \o stock)
<1>1. StockRows \subseteq Rows
  BY DEF Rows
<1>2. stock \in Seq(Rows)
  BY <1>1, SeqMonotonic
<1>3. /\ rows \o stock \in Seq(Rows) /\ Len(rows \o stock) = Len(rows) + Len(stock)
      /\ \A i \in 1 .. Len(rows) + Len(stock) :
           (rows \o stock)[i] = IF i <= Len(rows) THEN rows[i] ELSE stock[i - Len(rows)]
  BY <1>2, ConcatProperties
<1>4. Len(rows) \in Nat /\ Len(stock) \in Nat /\ DOMAIN rows = 1 .. Len(rows)
      /\ \A i \in 1 .. Len(stock) : stock[i] \in StockRows
  BY LenProperties, ElementOfSeq
<1>5. DOMAIN (rows \o stock) = 1 .. Len(rows) + Len(stock)
  BY <1>3, LenProperties
<1>6. ASSUME NEW i \in DOMAIN (rows \o stock), NEW j \in DOMAIN (rows \o stock), i < j
      PROVE  Before((rows \o stock)[i], (rows \o stock)[j])
  <2>1. CASE j <= Len(rows)
    <3>1. i \in DOMAIN rows /\ j \in DOMAIN rows
      BY <1>4, <1>5, <1>6, <2>1
    <3>2. (rows \o stock)[i] = rows[i] /\ (rows \o stock)[j] = rows[j]
      BY <1>3, <1>4, <1>5, <1>6, <2>1
    <3> QED
      BY <1>6, <3>1, <3>2 DEF InLockOrder
  <2>2. CASE ~(j <= Len(rows))
    <3>1. (rows \o stock)[j] \in StockRows
      BY <1>3, <1>4, <1>5, <2>2
    <3> QED
      BY <3>1 DEF Before
  <2> QED
    BY <2>1, <2>2
<1> QED
  BY <1>3, <1>6 DEF InLockOrder

\* Sequences of one, two and three rows.
LEMMA ShortSequences ==
  /\ \A r \in Rows : <<r>> \in Seq(Rows) /\ InLockOrder(<<r>>)
  /\ \A r, s \in Rows : Before(r, s) => <<r, s>> \in Seq(Rows) /\ InLockOrder(<<r, s>>)
  /\ \A r, s, u \in Rows :
       Before(r, s) /\ Before(r, u) /\ Before(s, u)
         => <<r, s, u>> \in Seq(Rows) /\ InLockOrder(<<r, s, u>>)
<1>1. ASSUME NEW r \in Rows
      PROVE  <<r>> \in Seq(Rows) /\ InLockOrder(<<r>>)
  BY DEF InLockOrder
<1>2. ASSUME NEW r \in Rows, NEW s \in Rows, Before(r, s)
      PROVE  <<r, s>> \in Seq(Rows) /\ InLockOrder(<<r, s>>)
  <2>1. \A i, j \in 1 .. 2 : i < j => i = 1 /\ j = 2
    OBVIOUS
  <2> QED
    BY <1>2, <2>1 DEF InLockOrder
<1>3. ASSUME NEW r \in Rows, NEW s \in Rows, NEW u \in Rows,
             Before(r, s), Before(r, u), Before(s, u)
      PROVE  <<r, s, u>> \in Seq(Rows) /\ InLockOrder(<<r, s, u>>)
  <2>1. \A i, j \in 1 .. 3 : i < j => (i = 1 /\ j = 2) \/ (i = 1 /\ j = 3) \/ (i = 2 /\ j = 3)
    OBVIOUS
  <2> QED
    BY <1>3, <2>1 DEF InLockOrder
<1> QED
  BY <1>1, <1>2, <1>3

\* What every transaction locks, it locks in this order.
LEMMA TransactionsInOrder ==
  ASSUME NEW rows \in Transactions
  PROVE  rows \in Seq(Rows) /\ InLockOrder(rows)
<1> DEFINE Ordered(s) == s \in Seq(Rows) /\ InLockOrder(s)
<1>1. ASSUME NEW o \in AllOrders
      PROVE  /\ Ordered(PlaceRows(o)) /\ Ordered(StartRows(o)) /\ Ordered(RefusedStartRows(o))
             /\ Ordered(SettleRows(o)) /\ Ordered(SessionRows(o)) /\ Ordered(OrderRows(o))
  <2>1. /\ OrderRow(o) \in Rows /\ AttemptRow(o) \in Rows /\ CheckoutRow(o) \in Rows
        /\ Before(CheckoutRow(o), OrderRow(o)) /\ Before(CheckoutRow(o), AttemptRow(o))
        /\ Before(OrderRow(o), AttemptRow(o))
    BY OrderRowsRank DEF Before
  <2>2. LineRows(o) \in Seq(StockRows)
    BY LineRowsAreStock
  <2>3. Ordered(<<OrderRow(o)>>) /\ Ordered(<<CheckoutRow(o), OrderRow(o)>>)
    BY <2>1, ShortSequences
  <2>4. Ordered(<<OrderRow(o)>> \o LineRows(o))
        /\ Ordered(<<CheckoutRow(o), OrderRow(o)>> \o LineRows(o))
    BY <2>2, <2>3, StockComesLast
  <2> HIDE DEF Ordered
  <2>5. Ordered(PlaceRows(o)) /\ Ordered(StartRows(o)) /\ Ordered(OrderRows(o))
    BY <2>3, <2>4, Zenon DEF PlaceRows, StartRows, OrderRows
  <2>6. Ordered(RefusedStartRows(o))
    BY <2>1, ShortSequences, Zenon DEF RefusedStartRows, Ordered
  <2>7. Ordered(SettleRows(o)) /\ Ordered(SessionRows(o))
    BY <2>1, ShortSequences, Zenon DEF SettleRows, SessionRows, Ordered
  <2> QED
    BY <2>5, <2>6, <2>7
<1>2. ASSUME NEW o \in AllOrders, NEW picked
      PROVE  Ordered(PackRows(o, picked))
  <2> DEFINE fefo == InFefoOrder(picked)
             batches == [i \in DOMAIN fefo |-> BatchRow(fefo[i])]
  <2> HIDE DEF fefo
  <2>1. /\ Len(fefo) \in Nat /\ DOMAIN fefo = 1 .. Len(fefo)
        /\ \A i \in DOMAIN fefo : fefo[i] \in BatchSet
    <3>1. fefo \in Seq(BatchSet)
      BY PoolRowsAreStock DEF fefo
    <3> QED
      BY <3>1, LenProperties, ElementOfSeq
  <2>2. batches \in Seq(StockRows)
    BY <2>1 DEF StockRows
  <2>3. <<OrderRow(o)>> \in Seq(Rows) /\ InLockOrder(<<OrderRow(o)>>)
    BY OrderRowsRank, ShortSequences
  <2>4. Ordered(<<OrderRow(o)>> \o batches)
    BY <2>2, <2>3, StockComesLast
  <2> QED
    BY <2>4 DEF PackRows, fefo
<1>3. ASSUME NEW b \in BatchSet
      PROVE  Ordered(CorrectionRows(b)) /\ Ordered(CatalogueRows(b))
  <2>1. /\ BatchRow(b) \in Rows /\ ProductRow(b) \in Rows
        /\ Before(BatchRow(b), ProductRow(b))
    BY DEF Before, Rows, StockRows
  <2> QED
    BY <2>1, ShortSequences, Zenon DEF CorrectionRows, CatalogueRows
<1>4. Business \subseteq AllOrders /\ Retail \subseteq AllOrders
  BY DEF AllOrders
<1> HIDE DEF Ordered
<1>5. \/ \E o \in Business : rows = PlaceRows(o)
      \/ \E o \in Retail : rows \in {StartRows(o), RefusedStartRows(o), SettleRows(o), SessionRows(o)}
      \/ \E o \in AllOrders :
           rows = OrderRows(o) \/ \E picked : rows = PackRows(o, picked)
      \/ \E b \in BatchSet : rows \in {CorrectionRows(b), CatalogueRows(b)}
  <2> DEFINE Starts == UNION {{StartRows(o), RefusedStartRows(o), SettleRows(o), SessionRows(o)}
                              : o \in Retail}
             Packs == UNION {{PackRows(o, picked) : picked \in (SUBSET Reserves(o)) \ {{}}}
                             : o \in AllOrders}
             Stock == UNION {{CorrectionRows(b), CatalogueRows(b)} : b \in BatchSet}
  <2>1. \/ rows \in {PlaceRows(o) : o \in Business} \/ rows \in Starts
        \/ rows \in {OrderRows(o) : o \in AllOrders} \/ rows \in Packs \/ rows \in Stock
    BY Zenon DEF Transactions
  <2>2. rows \in Starts => \E o \in Retail :
          rows \in {StartRows(o), RefusedStartRows(o), SettleRows(o), SessionRows(o)}
    OBVIOUS
  <2>3. rows \in Packs => \E o \in AllOrders : \E picked : rows = PackRows(o, picked)
    OBVIOUS
  <2>4. rows \in Stock => \E b \in BatchSet : rows \in {CorrectionRows(b), CatalogueRows(b)}
    OBVIOUS
  <2> HIDE DEF Starts, Packs, Stock
  <2> QED
    BY <2>1, <2>2, <2>3, <2>4
<1>6. Ordered(rows)
  BY <1>1, <1>2, <1>3, <1>4, <1>5
<1> QED
  BY <1>6 DEF Ordered

LEMMA LocksStep == LocksInv /\ [LocksNext]_lockVars => LocksInv'
<1> SUFFICES ASSUME LocksInv, [LocksNext]_lockVars PROVE LocksInv'
  OBVIOUS
<1> DEFINE Ordered(w) ==
             /\ InLockOrder(ahead[w])
             /\ \A r \in owns[w] : \A i \in DOMAIN ahead[w] : Before(r, ahead[w][i])
<1>1. /\ ahead \in [Workers -> Seq(Rows)] /\ owns \in [Workers -> SUBSET Rows]
      /\ \A v, w \in Workers : v # w => owns[v] \cap owns[w] = {}
      /\ \A w \in Workers : Ordered(w)
  BY DEF LocksInv, LocksTypeOK
<1>2. ASSUME NEW w \in Workers, NEW rows \in Seq(Rows), NEW held \in SUBSET Rows,
             ahead' = [ahead EXCEPT ![w] = rows], owns' = [owns EXCEPT ![w] = held],
             \A v \in Workers \ {w} : held \cap owns[v] = {},
             InLockOrder(rows), \A r \in held : \A i \in DOMAIN rows : Before(r, rows[i])
      PROVE  LocksInv'
  <2>1. ahead' \in [Workers -> Seq(Rows)] /\ owns' \in [Workers -> SUBSET Rows]
    BY <1>1, <1>2
  <2>2. \A v \in Workers : \A i \in DOMAIN ahead'[v] : ahead'[v][i] \in Rows
    BY <2>1, LenProperties, ElementOfSeq
  <2>3. \A u, v \in Workers : u # v => owns'[u] \cap owns'[v] = {}
    BY <1>1, <1>2
  <2>4. \A v \in Workers : Ordered(v)'
    BY <1>1, <1>2
  <2> QED
    BY <2>1, <2>2, <2>3, <2>4 DEF LocksInv, LocksTypeOK
<1>3. ASSUME NEW w \in Workers, End(w) PROVE LocksInv'
  <2>1. <<>> \in Seq(Rows) /\ InLockOrder(<<>>)
    BY EmptySeq DEF InLockOrder
  <2>2. ahead' = [ahead EXCEPT ![w] = <<>>] /\ owns' = [owns EXCEPT ![w] = {}]
    BY <1>3 DEF End
  <2> QED
    BY <1>2, <2>1, <2>2
<1>4. ASSUME NEW w \in Workers, Begin(w) PROVE LocksInv'
  <2>1. PICK rows \in Transactions : ahead' = [ahead EXCEPT ![w] = rows]
    BY <1>4 DEF Begin
  <2>2. rows \in Seq(Rows) /\ InLockOrder(rows)
    BY TransactionsInOrder
  <2>3. owns[w] = {} /\ owns' = [owns EXCEPT ![w] = {}]
    BY <1>1, <1>4 DEF Begin, Idling
  <2> QED
    BY <1>2, <2>1, <2>2, <2>3
<1>5. ASSUME NEW w \in Workers, Lock(w) PROVE LocksInv'
  <2> DEFINE rows == ahead[w]
             held == owns[w] \cup {Head(rows)}
  <2>1. rows \in Seq(Rows) /\ rows # <<>> /\ Ordered(w) /\ owns[w] \in SUBSET Rows
    BY <1>1, <1>5 DEF Lock
  <2>2. ahead' = [ahead EXCEPT ![w] = Tail(rows)] /\ owns' = [owns EXCEPT ![w] = held]
    BY <1>1, <1>5 DEF Lock
  <2> HIDE DEF rows
  <2>3. /\ Len(rows) \in Nat \ {0} /\ DOMAIN rows = 1 .. Len(rows)
        /\ Head(rows) = rows[1] /\ Head(rows) \in Rows /\ Tail(rows) \in Seq(Rows)
        /\ DOMAIN Tail(rows) = 1 .. Len(rows) - 1
        /\ \A i \in 1 .. Len(rows) - 1 : Tail(rows)[i] = rows[i + 1]
    <3>1. Len(rows) \in Nat \ {0} /\ DOMAIN rows = 1 .. Len(rows)
      BY <2>1, EmptySeq, LenProperties
    <3>2. /\ Head(rows) \in Rows /\ Tail(rows) \in Seq(Rows) /\ Len(Tail(rows)) = Len(rows) - 1
          /\ \A i \in 1 .. Len(Tail(rows)) : Tail(rows)[i] = rows[i + 1]
      BY <2>1, HeadTailProperties
    <3>3. Head(rows) = rows[1]
      BY <2>1, <3>1
    <3>4. DOMAIN Tail(rows) = 1 .. Len(Tail(rows))
      BY <3>2, LenProperties
    <3> QED
      BY <3>1, <3>2, <3>3, <3>4
  <2>4. InLockOrder(rows) /\ \A r \in owns[w] : \A i \in DOMAIN rows : Before(r, rows[i])
    BY <2>1 DEF rows
  <2>5. InLockOrder(Tail(rows))
    <3> SUFFICES ASSUME NEW i \in 1 .. Len(rows) - 1, NEW j \in 1 .. Len(rows) - 1, i < j
                 PROVE  Before(Tail(rows)[i], Tail(rows)[j])
      BY <2>3 DEF InLockOrder
    <3>1. i + 1 \in DOMAIN rows /\ j + 1 \in DOMAIN rows /\ i + 1 < j + 1
      BY <2>3
    <3> QED
      BY <2>3, <2>4, <3>1 DEF InLockOrder
  <2>6. \A r \in held : \A i \in DOMAIN Tail(rows) : Before(r, Tail(rows)[i])
    <3> SUFFICES ASSUME NEW r \in held, NEW i \in 1 .. Len(rows) - 1
                 PROVE  Before(r, rows[i + 1])
      BY <2>3
    <3>1. i + 1 \in DOMAIN rows /\ 1 \in DOMAIN rows /\ 1 < i + 1
      BY <2>3
    <3> QED
      BY <2>3, <2>4, <3>1 DEF InLockOrder
  <2>7. \A v \in Workers \ {w} : held \cap owns[v] = {}
    <3>1. \A v \in Workers \ {w} : Head(rows) \notin owns[v]
      BY <1>5, <2>1 DEF Lock, Waits, WaitsFor, rows
    <3> QED
      BY <1>1, <3>1
  <2>8. held \in SUBSET Rows /\ Tail(rows) \in Seq(Rows)
    BY <2>1, <2>3
  <2> HIDE DEF held
  <2> QED
    BY <1>2, <2>2, <2>5, <2>6, <2>7, <2>8
<1>6. CASE UNCHANGED lockVars
  BY <1>6 DEF lockVars, LocksInv, LocksTypeOK
<1> QED
  BY <1>3, <1>4, <1>5, <1>6 DEF LocksNext, Leave, DetectDeadlock

LEMMA LocksSpec_Inv == LocksSpec => []LocksInv
<1>1. LocksInit => LocksInv
  BY EmptySeq DEF LocksInit, LocksInv, LocksTypeOK, InLockOrder
<1> QED
  BY <1>1, LocksStep, PTL DEF LocksSpec

\* Whoever waits for a row of an order is waited for over an earlier one only.
LEMMA EarlierRowsOnly ==
  ASSUME LocksInv, NEW w \in Workers, NEW v \in Workers, WaitsFor(v, w), ahead[w] # <<>>,
         Head(ahead[w]) \notin StockRows
  PROVE  /\ Head(ahead[v]) \notin StockRows
         /\ Rank(Head(ahead[v])) \in {1, 2, 3} /\ Rank(Head(ahead[w])) \in {1, 2, 3}
         /\ Rank(Head(ahead[v])) < Rank(Head(ahead[w]))
<1>1. ahead[w] \in Seq(Rows) /\ Head(ahead[w]) = ahead[w][1] /\ 1 \in DOMAIN ahead[w]
  <2>1. ahead[w] \in Seq(Rows)
    BY DEF LocksInv
  <2>2. Len(ahead[w]) \in Nat \ {0} /\ DOMAIN ahead[w] = 1 .. Len(ahead[w])
    BY <2>1, EmptySeq, LenProperties
  <2> QED
    BY <2>1, <2>2
<1>2. Head(ahead[v]) \in owns[w]
  BY DEF WaitsFor
<1>3. Before(Head(ahead[v]), Head(ahead[w]))
  BY <1>1, <1>2 DEF LocksInv
<1>4. Head(ahead[v]) \notin StockRows /\ Rank(Head(ahead[v])) < Rank(Head(ahead[w]))
  BY <1>3 DEF Before
<1> QED
  BY <1>4 DEF Rank

\* payments/services.py: "Lock ordering is Order -> PaymentAttempt": among any
\* number of transactions, those that wait for each other wait for stock.
THEOREM DeadlocksNeedStock == LocksSpec => []DeadlocksAreOverStock
<1>1. LocksInv => DeadlocksAreOverStock
  <2> SUFFICES ASSUME LocksInv, NEW D \in Circles, NEW w \in D, Head(ahead[w]) \notin StockRows
               PROVE  FALSE
    BY DEF DeadlocksAreOverStock
  <2>1. /\ D \subseteq Workers
        /\ \A x \in D : ahead[x] # <<>> /\ \E v \in D : WaitsFor(v, x)
    BY DEF Circles, WaitsFor
  <2>2. PICK v \in D : WaitsFor(v, w)
    BY <2>1
  <2>3. PICK u \in D : WaitsFor(u, v)
    BY <2>1
  <2>4. PICK s \in D : WaitsFor(s, u)
    BY <2>1
  <2>5. Head(ahead[v]) \notin StockRows /\ Rank(Head(ahead[v])) < Rank(Head(ahead[w]))
        /\ Rank(Head(ahead[w])) \in {1, 2, 3} /\ Rank(Head(ahead[v])) \in {1, 2, 3}
    BY <2>1, <2>2, EarlierRowsOnly
  <2>6. Head(ahead[u]) \notin StockRows /\ Rank(Head(ahead[u])) < Rank(Head(ahead[v]))
        /\ Rank(Head(ahead[u])) \in {1, 2, 3}
    BY <2>1, <2>3, <2>5, EarlierRowsOnly
  <2>7. Rank(Head(ahead[s])) < Rank(Head(ahead[u])) /\ Rank(Head(ahead[s])) \in {1, 2, 3}
    BY <2>1, <2>4, <2>6, EarlierRowsOnly
  <2> QED
    BY <2>5, <2>6, <2>7
<1> QED
  BY <1>1, LocksSpec_Inv, PTL

-----------------------------------------------------------------------------
(* The four places together.                                               *)

\* Every step of the system is a step, or no step, of each of the four.
LEMMA RacesAreFour == RacesSpec => CartSpec /\ AccessSpec /\ IdsSpec /\ LocksSpec
<1>1. RacesInit => CartInit /\ AccessInit /\ IdsInit /\ LocksInit
  BY DEF RacesInit
<1>2. [RacesNext]_raceVars =>
        [CartNext]_cartVars /\ [AccessNext]_accessVars /\ [IdsNext]_idsVars /\ [LocksNext]_lockVars
  BY DEF RacesNext, raceVars
<1> QED
  BY <1>1, <1>2, PTL DEF RacesSpec, CartSpec, AccessSpec, IdsSpec, LocksSpec

\* Every cart, account, batch number, row and request has a legal value.
THEOREM TypeCorrect == RacesSpec => []TypeOK
<1>1. CartInv /\ AccessInv /\ IdsTypeOK /\ LocksInv => TypeOK
  BY DEF CartInv, AccessInv, LocksInv, TypeOK
<1> QED
  BY <1>1, RacesAreFour, CartSpec_Inv, AccessSpec_Inv, IdsSpec_Inv, LocksSpec_Inv, PTL
=============================================================================
