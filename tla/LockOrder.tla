----------------------------- MODULE LockOrder ------------------------------
(***************************************************************************)
(* Who waits for whom: the rows that transactions lock, in the order in    *)
(* which they lock them (select_for_update on PostgreSQL), until they      *)
(* commit or roll back.  What they read and write is in the other modules. *)
(*                                                                         *)
(* A query with select_related("product") locks the product's row together *)
(* with each batch, since select_for_update names no table (of=...).       *)
(* Rows that one kind of transaction locks last (prices, marks) and the    *)
(* share locks of foreign keys are left out.                               *)
(***************************************************************************)
EXTENDS Integers, SequencesExt

CONSTANTS
  Workers,    \* transactions under way
  Business,   \* business orders
  Retail,     \* retail orders
  PoolsOf,    \* for each order, the pools of its lines, in line order
  Fefo,       \* all batches: by best-before date, then code
  ProductOf   \* the product of a batch

VARIABLES
  ahead,  \* the rows a transaction still has to lock, in order
  owns    \* the rows it has locked (none: it has not begun or has ended)

lockVars == <<ahead, owns>>

AllOrders == Business \cup Retail
BatchSet == {Fefo[i] : i \in DOMAIN Fefo}

ASSUME LockAssumption ==
  /\ Fefo \in Seq(BatchSet)
  /\ PoolsOf \in [AllOrders -> Seq(SUBSET BatchSet)]

OrderRow(o) == <<"order", o>>
AttemptRow(o) == <<"attempt", o>>      \* the order's pending attempt
CheckoutRow(o) == <<"checkout", o>>
BatchRow(b) == <<"batch", b>>
ProductRow(b) == <<"product", ProductOf[b]>>
StockRows == {BatchRow(b) : b \in BatchSet} \cup {ProductRow(b) : b \in BatchSet}
Rows == StockRows \cup ({"order", "attempt", "checkout"} \X AllOrders)

-----------------------------------------------------------------------------
(* The rows of each service, in locking order. *)

InFefoOrder(batches) ==
  FlattenSeq([i \in DOMAIN Fefo |-> IF Fefo[i] \in batches THEN <<Fefo[i]>> ELSE <<>>])

\* reserve_order_line_from_pool: the pool's query joins the product.
PoolRows(pool) ==
  LET fefo == InFefoOrder(pool)
  IN  FlattenSeq([i \in DOMAIN fefo |-> <<BatchRow(fefo[i]), ProductRow(fefo[i])>>])

\* Line by line, in the order of the lines.
LineRows(o) == FlattenSeq([i \in DOMAIN PoolsOf[o] |-> PoolRows(PoolsOf[o][i])])

\* place_order and update_placed_order of a business order.
PlaceRows(o) == <<OrderRow(o)>> \o LineRows(o)

\* pack_order: consume_reservations_for_order joins the allocations' batches
\* and sorts by best-before date; its second query locks nothing new.
PackRows(o, picked) ==
  LET fefo == InFefoOrder(picked)
  IN  <<OrderRow(o)>> \o [i \in DOMAIN fefo |-> BatchRow(fefo[i])]

\* start_retail_payment: refused when there is a pending attempt.
StartRows(o) == <<CheckoutRow(o), OrderRow(o)>> \o LineRows(o)
RefusedStartRows(o) == <<CheckoutRow(o), OrderRow(o), AttemptRow(o)>>

\* Fault: the attempt at hand is locked first.
SettleAttemptFirst(o) == <<AttemptRow(o), OrderRow(o)>>

\* complete_retail_payment and fail_retail_payment.
SettleRows(o) == <<OrderRow(o), AttemptRow(o)>>

\* create_hosted_payment_session stores the provider's id.
SessionRows(o) == <<AttemptRow(o)>>

\* cancel_order, deliver_order and every edit of a draft.
OrderRows(o) == <<OrderRow(o)>>

\* update_batch and close_batch join the product.
CorrectionRows(b) == <<BatchRow(b), ProductRow(b)>>

\* update_product.
CatalogueRows(b) == <<ProductRow(b)>>

Reserves(o) == UNION {PoolsOf[o][i] : i \in DOMAIN PoolsOf[o]}

Transactions ==
  {PlaceRows(o) : o \in Business}
  \cup (UNION {{StartRows(o), RefusedStartRows(o), SettleRows(o), SessionRows(o)} : o \in Retail})
  \cup {OrderRows(o) : o \in AllOrders}
  \cup (UNION {{PackRows(o, picked) : picked \in (SUBSET Reserves(o)) \ {{}}} : o \in AllOrders})
  \cup (UNION {{CorrectionRows(b), CatalogueRows(b)} : b \in BatchSet})

LocksTypeOK ==
  /\ \A w \in Workers : \A i \in DOMAIN ahead[w] : ahead[w][i] \in Rows
  /\ owns \in [Workers -> SUBSET Rows]
  /\ \A v, w \in Workers : v # w => owns[v] \cap owns[w] = {}

LocksInit ==
  /\ ahead = [w \in Workers |-> <<>>]
  /\ owns = [w \in Workers |-> {}]

-----------------------------------------------------------------------------
\* v has locked the row that w wants next.
WaitsFor(w, v) == v # w /\ ahead[w] # <<>> /\ Head(ahead[w]) \in owns[v]
Waits(w) == \E v \in Workers : WaitsFor(w, v)

\* Transactions that wait for each other in circles.
Circles ==
  {D \in (SUBSET Workers) \ {{}} :
     \A w \in D : (\E v \in D : WaitsFor(w, v)) /\ (\E v \in D : WaitsFor(v, w))}

End(w) ==
  /\ ahead' = [ahead EXCEPT ![w] = <<>>]
  /\ owns' = [owns EXCEPT ![w] = {}]

Idling(w) == ahead[w] = <<>> /\ owns[w] = {}

\* A transaction begins.
Begin(w) ==
  /\ Idling(w)
  /\ \E rows \in Transactions : ahead' = [ahead EXCEPT ![w] = rows]
  /\ UNCHANGED owns

\* It gets the next row, which it may have already.
Lock(w) ==
  /\ ahead[w] # <<>> /\ ~Waits(w)
  /\ owns' = [owns EXCEPT ![w] = @ \cup {Head(ahead[w])}]
  /\ ahead' = [ahead EXCEPT ![w] = Tail(@)]

\* It commits, or its service raises.
Leave(w) ==
  /\ ~Idling(w) /\ ~Waits(w)
  /\ End(w)

\* PostgreSQL rolls back one of a circle; no service tries again.
DetectDeadlock(w) ==
  /\ \E D \in Circles : w \in D
  /\ End(w)

LocksNext == \E w \in Workers : Begin(w) \/ Lock(w) \/ Leave(w) \/ DetectDeadlock(w)

LocksSpec == LocksInit /\ [][LocksNext]_lockVars

-----------------------------------------------------------------------------
(* Correctness. *)

\* "Lock ordering is Order -> PaymentAttempt, matching payment-start paths."
\* No transactions wait for each other over orders, checkouts and attempts:
\* whoever waits in a circle waits for a batch or a product, so that settling
\* a payment, storing a session, cancelling and delivering are never rolled
\* back for a deadlock.
DeadlocksAreOverStock ==
  \A D \in Circles : \A w \in D : Head(ahead[w]) \in StockRows
=============================================================================
