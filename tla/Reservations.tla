---------------------------- MODULE Reservations ----------------------------
(***************************************************************************)
(* Stock reservations of orders, as committed database transactions see    *)
(* them: orders/services.py and the reservation policies it is composed    *)
(* with (business, retail, fulfillment), reservations/services.py and the  *)
(* batch operations of inventory/services.py.                              *)
(*                                                                         *)
(* Each action is one transaction.  Transactions on one order are          *)
(* serialised by the lock on its row (orders/decorators.py), those that    *)
(* reserve from, correct, close or pick a batch by the lock on the batch   *)
(* row.  The exception is make_reservations_permanent_for_order: it reads  *)
(* the clock and the order's allocations, and later rewrites reserved_until*)
(* without a lock on any batch.  It is therefore two steps here,           *)
(* ReadLiveHold and PlacePaidOrder, with every other transaction possible  *)
(* in between.                                                             *)
(***************************************************************************)
EXTENDS FefoPlan

CONSTANTS
  Orders,       \* order rows
  Retail,       \* the orders of channel RETAIL; the others are BUSINESS
  Lines,        \* order-line rows, numbered in creation order
  OrderOf,      \* the order each line belongs to
  Batches,      \* inventory-batch rows, numbered in batch-code order
  Pool,         \* the batches that the commercial offer of each line represents
  MaxQuantity,  \* bound on the physical quantity of a batch and of a line
  MaxShelfLife, \* bound on the days until a batch is no longer orderable
  HoldsOutliveConfirmation
                \* TRUE: no payment hold lapses between the read and the
                \* commit of the transaction that makes it permanent

ASSUME ReservationsAssumption ==
  /\ IsFiniteSet(Orders) /\ Retail \subseteq Orders
  /\ Lines \subseteq Nat /\ IsFiniteSet(Lines)
  /\ OrderOf \in [Lines -> Orders]
  /\ Batches \subseteq Nat /\ IsFiniteSet(Batches)
  /\ Pool \in [Lines -> SUBSET Batches]
  /\ MaxQuantity \in Nat \ {0} /\ MaxShelfLife \in Nat \ {0}
  /\ HoldsOutliveConfirmation \in BOOLEAN

VARIABLES
  status,       \* Order.status ("none": the row does not exist)
  attempt,      \* status of the order's latest PaymentAttempt
  confirming,   \* orders whose completion transaction has read its live hold
  lineQuantity, \* OrderLine.quantity_in_units (0: no such line)
  allocated,    \* Allocation.quantity per line and batch (0: none in force)
  hold,         \* what the order's allocations are: RESERVED and temporary
                \* ("live" or "lapsed"), RESERVED for good ("permanent"),
                \* or CONSUMED ("consumed"); "none": all CANCELLED or deleted
  quantity,     \* InventoryBatch.quantity
  batchStatus,  \* InventoryBatch.status ("absent": the row does not exist)
  shelfLife     \* days from today's cutoff to InventoryBatch.best_before

orderVars == <<status, attempt, confirming, lineQuantity>>
allocationVars == <<allocated, hold>>
batchVars == <<quantity, batchStatus, shelfLife>>
vars == <<orderVars, allocationVars, batchVars>>

Quantity == 0 .. MaxQuantity
OrderStatus == {"none", "draft", "placed", "packed", "delivered", "cancelled"}
Hold == {"none", "live", "lapsed", "permanent", "consumed"}

TypeOK ==
  /\ status \in [Orders -> OrderStatus]
  /\ attempt \in [Orders -> {"none", "pending", "succeeded", "failed"}]
  /\ confirming \subseteq Orders
  /\ lineQuantity \in [Lines -> Quantity]
  /\ allocated \in [Lines -> [Batches -> Quantity]]
  /\ hold \in [Orders -> Hold]
  /\ quantity \in [Batches -> Quantity]
  /\ batchStatus \in [Batches -> {"absent", "active", "depleted", "closed"}]
  /\ shelfLife \in [Batches -> 0 .. MaxShelfLife]

Init ==
  /\ status = [o \in Orders |-> "none"]
  /\ attempt = [o \in Orders |-> "none"]
  /\ confirming = {}
  /\ lineQuantity = [l \in Lines |-> 0]
  /\ allocated = [l \in Lines |-> [b \in Batches |-> 0]]
  /\ hold = [o \in Orders |-> "none"]
  /\ quantity = [b \in Batches |-> 0]
  /\ batchStatus = [b \in Batches |-> "absent"]
  /\ shelfLife = [b \in Batches |-> 0]

-----------------------------------------------------------------------------
(* What the transactions read. *)

Business == Orders \ Retail
LinesOf(o) == {l \in Lines : OrderOf[l] = o}
HasLines(o) == \E l \in LinesOf(o) : lineQuantity[l] > 0
NoPicks == [b \in Batches |-> 0]

\* Fault: a hold does not count until it is paid for.
CountsWhenPaid(o) == hold[o] = "permanent"

\* RESERVED allocations reduce availability until reserved_until has passed.
CountsAsReserved(o) == hold[o] \in {"live", "permanent"}
ReservedLines == {l \in Lines : CountsAsReserved(OrderOf[l])}
Reserved(b) == Total([l \in Lines |-> allocated[l][b]], ReservedLines)

\* Fault: batches are taken in the order of their codes alone.
EarlierByCode == {pair \in Batches \X Batches : pair[1] < pair[2]}

\* FEFO order of the batches: best-before date, then batch code.
ExpiresBefore(c, b) ==
  shelfLife[c] < shelfLife[b] \/ (shelfLife[c] = shelfLife[b] /\ c < b)
Earlier == {pair \in Batches \X Batches : ExpiresBefore(pair[1], pair[2])}

\* Fault: any batch with stock is orderable, a closed one too.
OrderableIfStocked(b) == quantity[b] > 0 /\ shelfLife[b] > 0

Orderable(b) == batchStatus[b] = "active" /\ quantity[b] > 0 /\ shelfLife[b] > 0
OrderablePool(l) == {b \in Pool[l] : Orderable(b)}

\* Fault: the lines of one order do not see each other's new reservations.
ReservedBeforeBlind(l, kept, plan, b) ==
  Total([k \in Lines |-> kept[k][b]], ReservedLines \cup LinesOf(OrderOf[l]))

\* What is reserved of batch b when line l of order o is planned: what other
\* orders hold, what o still holds itself, and what the same transaction has
\* just given to o's earlier lines.
ReservedBefore(l, kept, plan, b) ==
  LET o == OrderOf[l]
  IN  Total([k \in Lines |-> IF OrderOf[k] = o /\ k < l THEN kept[k][b] + plan[k][b]
                             ELSE kept[k][b]],
            ReservedLines \cup LinesOf(o))

\* One FEFO plan for every line of o, planned in line order, on top of the
\* allocations `kept` that o already has.
IsOrderPlan(o, wanted, kept, plan) ==
  \A l \in LinesOf(o) :
    IF wanted[l] = 0 THEN plan[l] = NoPicks
    ELSE IsFefoPlan(plan[l], OrderablePool(l),
                    [b \in Batches |->
                       Allocatable(quantity[b], ReservedBefore(l, kept, plan, b))],
                    wanted[l], Earlier)

-----------------------------------------------------------------------------
(* Releasing and reserving, as the order policies do it. *)

Released(o) == [l \in Lines |-> IF OrderOf[l] = o THEN NoPicks ELSE allocated[l]]

Release(o) ==
  /\ allocated' = Released(o)
  /\ hold' = [hold EXCEPT ![o] = "none"]

\* Rows of `kept` that o still has stay; the plan's rows are added to them.
ReserveOnTopOf(o, wanted, kept, newHold) ==
  \E plan \in [LinesOf(o) -> [Batches -> Quantity]] :
    /\ IsOrderPlan(o, wanted, kept, plan)
    /\ allocated' = [l \in Lines |->
                       IF OrderOf[l] = o
                       THEN [b \in Batches |-> kept[l][b] + plan[l][b]]
                       ELSE kept[l]]
    /\ hold' = [hold EXCEPT ![o] = newHold]

-----------------------------------------------------------------------------
(* Orders. *)

\* create_draft_order with lines, or create_pending_retail_order.
CreateDraft(o) ==
  /\ status[o] = "none"
  /\ \E wanted \in [LinesOf(o) -> Quantity] :
       /\ \E l \in LinesOf(o) : wanted[l] > 0
       /\ lineQuantity' = [l \in Lines |-> IF OrderOf[l] = o THEN wanted[l]
                                           ELSE lineQuantity[l]]
  /\ status' = [status EXCEPT ![o] = "draft"]
  /\ UNCHANGED <<attempt, confirming, allocationVars, batchVars>>

\* replace_draft_order_lines and the single-line edits: the lines become any
\* lines, none included.
EditDraft(o) ==
  /\ o \in Business /\ status[o] = "draft"
  /\ \E wanted \in [LinesOf(o) -> Quantity] :
       lineQuantity' = [l \in Lines |-> IF OrderOf[l] = o THEN wanted[l]
                                        ELSE lineQuantity[l]]
  /\ UNCHANGED <<status, attempt, confirming, allocationVars, batchVars>>

\* discard_draft_order: the row and its lines go, unless it has allocations.
DiscardDraft(o) ==
  /\ o \in Business /\ status[o] = "draft" /\ hold[o] = "none"
  /\ lineQuantity' = [l \in Lines |-> IF OrderOf[l] = o THEN 0 ELSE lineQuantity[l]]
  /\ status' = [status EXCEPT ![o] = "none"]
  /\ UNCHANGED <<attempt, confirming, allocationVars, batchVars>>

\* place_order with prepare_business_order_for_placement.
PlaceBusinessOrder(o) ==
  /\ o \in Business /\ status[o] = "draft" /\ HasLines(o)
  /\ ReserveOnTopOf(o, lineQuantity, allocated, "permanent")
  /\ status' = [status EXCEPT ![o] = "placed"]
  /\ UNCHANGED <<attempt, confirming, lineQuantity, batchVars>>

\* Fault: the lines change but the reservation is not rebuilt.
UpdatePlacedOrderLinesOnly(o) ==
  /\ o \in Business /\ status[o] = "placed"
  /\ \E wanted \in [LinesOf(o) -> Quantity] :
       lineQuantity' = [l \in Lines |-> IF OrderOf[l] = o THEN wanted[l]
                                        ELSE lineQuantity[l]]
  /\ UNCHANGED <<status, attempt, confirming, allocationVars, batchVars>>

\* update_placed_order: RESERVED rows are deleted, the lines become `wanted`
\* and are reserved afresh; any failure rolls all of it back.
ReplaceLines(o, wanted) ==
  /\ o \in Business /\ status[o] = "placed"
  /\ \E l \in LinesOf(o) : wanted[l] > 0
  /\ lineQuantity' = [l \in Lines |-> IF OrderOf[l] = o THEN wanted[l]
                                      ELSE lineQuantity[l]]
  /\ ReserveOnTopOf(o, wanted, Released(o), "permanent")
  /\ UNCHANGED <<status, attempt, confirming, batchVars>>

UpdatePlacedOrder(o) ==
  \E wanted \in [LinesOf(o) -> Quantity] : ReplaceLines(o, wanted)

\* Fault: cancellation gives back temporary reservations only.
CancelOrderTemporaryOnly(o) ==
  /\ status[o] \in {"draft", "placed"} /\ o \notin confirming
  /\ IF hold[o] = "permanent" THEN UNCHANGED allocationVars ELSE Release(o)
  /\ status' = [status EXCEPT ![o] = "cancelled"]
  /\ UNCHANGED <<attempt, confirming, lineQuantity, batchVars>>

\* cancel_order with release_order_reservations_before_cancellation.  Waits
\* for the order lock, so never inside a completion transaction.
CancelOrder(o) ==
  /\ status[o] \in {"draft", "placed"} /\ o \notin confirming
  /\ Release(o)
  /\ status' = [status EXCEPT ![o] = "cancelled"]
  /\ UNCHANGED <<attempt, confirming, lineQuantity, batchVars>>

\* What packing order o takes from batch b.
PickedFrom(o, b) == Total([l \in Lines |-> allocated[l][b]], LinesOf(o))

\* Fault: picking does not look at the batch.
CanPickAnything(o, b) == PickedFrom(o, b) >= 0

\* InventoryBatch.pick accepts the order's total for the batch.
CanPick(o, b) ==
  PickedFrom(o, b) > 0 => batchStatus[b] = "active" /\ PickedFrom(o, b) <= quantity[b]

\* _sync_status_from_quantity: an open batch is ACTIVE exactly when non-empty.
SyncedStatus(b, newQuantity) ==
  IF batchStatus[b] = "closed" THEN "closed"
  ELSE IF newQuantity > 0 THEN "active" ELSE "depleted"

\* pack_order with consume_order_reservations_before_packing.
PackOrder(o) ==
  /\ status[o] = "placed"
  /\ \E b \in Batches : PickedFrom(o, b) > 0
  /\ \A b \in Batches : CanPick(o, b)
  /\ quantity' = [b \in Batches |-> quantity[b] - PickedFrom(o, b)]
  /\ batchStatus' = [b \in Batches |->
                       IF PickedFrom(o, b) > 0
                       THEN SyncedStatus(b, quantity[b] - PickedFrom(o, b))
                       ELSE batchStatus[b]]
  /\ hold' = [hold EXCEPT ![o] = "consumed"]
  /\ status' = [status EXCEPT ![o] = "packed"]
  /\ UNCHANGED <<attempt, confirming, lineQuantity, allocated, shelfLife>>

\* deliver_order.
DeliverOrder(o) ==
  /\ status[o] = "packed"
  /\ status' = [status EXCEPT ![o] = "delivered"]
  /\ UNCHANGED <<attempt, confirming, lineQuantity, allocationVars, batchVars>>

-----------------------------------------------------------------------------
(* Retail payment of an order. *)

\* start_retail_payment: temporary reservations of an earlier attempt are
\* cancelled before the lines are reserved again.
StartRetailPayment(o) ==
  /\ o \in Retail /\ status[o] = "draft" /\ attempt[o] # "pending" /\ HasLines(o)
  /\ ReserveOnTopOf(o, lineQuantity, Released(o), "live")
  /\ attempt' = [attempt EXCEPT ![o] = "pending"]
  /\ UNCHANGED <<status, confirming, lineQuantity, batchVars>>

\* Fault: any RESERVED allocation counts as a hold, lapsed or not.
ReadAnyHold(o) ==
  /\ o \in Retail /\ status[o] = "draft" /\ attempt[o] = "pending"
  /\ o \notin confirming /\ HasLines(o) /\ hold[o] \in {"live", "lapsed"}
  /\ confirming' = confirming \cup {o}
  /\ UNCHANGED <<status, attempt, lineQuantity, allocationVars, batchVars>>

\* complete_retail_payment up to the read of make_reservations_permanent:
\* the order is locked, and its reservations are active by the clock.
ReadLiveHold(o) ==
  /\ o \in Retail /\ status[o] = "draft" /\ attempt[o] = "pending"
  /\ o \notin confirming /\ HasLines(o) /\ hold[o] = "live"
  /\ confirming' = confirming \cup {o}
  /\ UNCHANGED <<status, attempt, lineQuantity, allocationVars, batchVars>>

\* The rest of complete_retail_payment, to its commit.
PlacePaidOrder(o) ==
  /\ o \in confirming
  /\ hold' = [hold EXCEPT ![o] = "permanent"]
  /\ status' = [status EXCEPT ![o] = "placed"]
  /\ attempt' = [attempt EXCEPT ![o] = "succeeded"]
  /\ confirming' = confirming \ {o}
  /\ UNCHANGED <<lineQuantity, allocated, batchVars>>

\* The completion transaction is rolled back: a crash or a lost connection.
AbandonConfirmation(o) ==
  /\ o \in confirming
  /\ confirming' = confirming \ {o}
  /\ UNCHANGED <<status, attempt, lineQuantity, allocationVars, batchVars>>

\* Fault: the hold is given back in a transaction of its own.
FailRetailPaymentHalfway(o) ==
  /\ o \in Retail /\ status[o] = "draft" /\ attempt[o] = "pending" /\ o \notin confirming
  /\ Release(o)
  /\ UNCHANGED <<orderVars, batchVars>>

\* fail_retail_payment.
FailRetailPayment(o) ==
  /\ o \in Retail /\ status[o] = "draft" /\ attempt[o] = "pending" /\ o \notin confirming
  /\ Release(o)
  /\ attempt' = [attempt EXCEPT ![o] = "failed"]
  /\ UNCHANGED <<status, confirming, lineQuantity, batchVars>>

\* The clock passes reserved_until.
HoldLapses(o) ==
  /\ hold[o] = "live"
  /\ HoldsOutliveConfirmation => o \notin confirming
  /\ hold' = [hold EXCEPT ![o] = "lapsed"]
  /\ UNCHANGED <<orderVars, allocated, batchVars>>

-----------------------------------------------------------------------------
(* Batches. *)

\* create_batch: positive stock, best-before date in the future.
CreateBatch(b) ==
  /\ batchStatus[b] = "absent"
  /\ \E n \in Quantity \ {0}, d \in 1 .. MaxShelfLife :
       /\ quantity' = [quantity EXCEPT ![b] = n]
       /\ shelfLife' = [shelfLife EXCEPT ![b] = d]
  /\ batchStatus' = [batchStatus EXCEPT ![b] = "active"]
  /\ UNCHANGED <<orderVars, allocationVars>>

\* Fault: a correction does not look at what is reserved.
UpdateBatchUnchecked(b) ==
  /\ batchStatus[b] \in {"active", "depleted"}
  /\ \E n \in Quantity, d \in 0 .. MaxShelfLife :
       /\ quantity' = [quantity EXCEPT ![b] = n]
       /\ batchStatus' = [batchStatus EXCEPT ![b] = SyncedStatus(b, n)]
       /\ shelfLife' = [shelfLife EXCEPT ![b] = d]
  /\ UNCHANGED <<orderVars, allocationVars>>

\* update_batch: not when closed, not below what is reserved.
UpdateBatch(b) ==
  /\ batchStatus[b] \in {"active", "depleted"}
  /\ \E n \in Quantity, d \in 0 .. MaxShelfLife :
       /\ n >= Reserved(b)
       /\ quantity' = [quantity EXCEPT ![b] = n]
       /\ batchStatus' = [batchStatus EXCEPT ![b] = SyncedStatus(b, n)]
       /\ shelfLife' = [shelfLife EXCEPT ![b] = d]
  /\ UNCHANGED <<orderVars, allocationVars>>

\* Fault: a batch is closed under the orders that reserved it.
CloseBatchUnchecked(b) ==
  /\ batchStatus[b] \in {"active", "depleted"}
  /\ batchStatus' = [batchStatus EXCEPT ![b] = "closed"]
  /\ UNCHANGED <<orderVars, allocationVars, quantity, shelfLife>>

\* close_batch: not while anything of it is reserved.
CloseBatch(b) ==
  /\ batchStatus[b] \in {"active", "depleted"} /\ Reserved(b) = 0
  /\ batchStatus' = [batchStatus EXCEPT ![b] = "closed"]
  /\ UNCHANGED <<orderVars, allocationVars, quantity, shelfLife>>

\* Midnight: every batch is one day closer to its best-before date.
NextDay ==
  /\ \E b \in Batches : shelfLife[b] > 0
  /\ shelfLife' = [b \in Batches |-> IF shelfLife[b] > 0 THEN shelfLife[b] - 1 ELSE 0]
  /\ UNCHANGED <<orderVars, allocationVars, quantity, batchStatus>>

-----------------------------------------------------------------------------
OrderStep(o) ==
  \/ CreateDraft(o) \/ EditDraft(o) \/ DiscardDraft(o) \/ PlaceBusinessOrder(o)
  \/ UpdatePlacedOrder(o) \/ CancelOrder(o) \/ PackOrder(o) \/ DeliverOrder(o)

PaymentStep(o) ==
  \/ StartRetailPayment(o) \/ ReadLiveHold(o) \/ PlacePaidOrder(o)
  \/ AbandonConfirmation(o) \/ FailRetailPayment(o) \/ HoldLapses(o)

BatchStep(b) == CreateBatch(b) \/ UpdateBatch(b) \/ CloseBatch(b)

Next ==
  \/ \E o \in Orders : OrderStep(o) \/ PaymentStep(o)
  \/ \E b \in Batches : BatchStep(b)
  \/ NextDay

Spec == Init /\ [][Next]_vars

-----------------------------------------------------------------------------
(* Correctness. *)

\* Availability is never oversold: what RESERVED allocations count against a
\* batch never exceeds its physical quantity, whatever was corrected, closed,
\* packed, paid or re-planned in between.
NoOversell == \A b \in Batches : Reserved(b) <= quantity[b]

\* What the clock can do at worst: no transaction promises more of a batch
\* than there is, or adds to what has been promised beyond it, but the
\* completion of a payment whose hold lapsed while it ran, and that only on
\* the batches the hold was of.
OnlyLateConfirmationsOverbook ==
  [][\A b \in Batches :
       (/\ Reserved(b)' > quantity'[b]
        /\ Reserved(b)' - quantity'[b] > Reserved(b) - quantity[b]) =>
          \E o \in confirming : /\ hold[o] = "lapsed" /\ hold'[o] = "permanent"
                                /\ PickedFrom(o, b) > 0]_vars

\* A closed batch backs no order: close_batch refuses while anything is
\* reserved, and nothing becomes reserved on it afterwards.
ClosedBatchesBackNothing == \A b \in Batches : batchStatus[b] = "closed" => Reserved(b) = 0

\* An order past placement owns allocations for exactly the units of each of
\* its lines, from batches its offers represent: permanent ones until it is
\* packed, consumed ones from then on.
PlacedOrdersAreCovered ==
  \A o \in Orders :
    /\ status[o] = "placed" => hold[o] = "permanent"
    /\ status[o] \in {"packed", "delivered"} => hold[o] = "consumed"
    /\ status[o] \in {"placed", "packed", "delivered"} =>
         \A l \in LinesOf(o) : Total(allocated[l], Pool[l]) = lineQuantity[l]

\* While a customer is paying, the order still owns the allocations of its
\* whole basket (live, or lapsed but not yet given back), and every order
\* marked paid was placed.
PayingOrdersAreHeld ==
  \A o \in Orders :
    /\ attempt[o] = "pending" /\ status[o] = "draft" =>
         /\ hold[o] \in {"live", "lapsed"}
         /\ \A l \in LinesOf(o) : Total(allocated[l], Pool[l]) = lineQuantity[l]
    /\ attempt[o] = "succeeded" => status[o] \notin {"none", "draft"}

\* Finished business gives its stock back: a cancelled order, a draft nobody
\* is paying for and a deleted order own no allocation.
IdleOrdersHoldNothing ==
  \A o \in Orders :
    status[o] \in {"none", "cancelled"} \/ (status[o] = "draft" /\ attempt[o] # "pending") =>
      hold[o] = "none" /\ \A l \in LinesOf(o) : allocated[l] = NoPicks

\* Placement is a promise the warehouse can keep: at any time, every placed
\* order can be packed from the batches it reserved, so pack_order never
\* meets a closed, depleted or short batch.
PlacedOrdersCanBePacked ==
  \A o \in Orders : status[o] = "placed" =>
    /\ \E b \in Batches : PickedFrom(o, b) > 0
    /\ \A b \in Batches : CanPick(o, b)

\* An allocation "no longer reduces availability" once reserved_until has
\* passed: a lapsed hold is released or re-planned, never made permanent.
LapsedHoldsStayLapsed ==
  [][\A o \in Orders : hold[o] = "lapsed" => hold'[o] # "permanent"]_vars

\* First expired, first out: an order that becomes reserved takes units of a
\* batch only when no earlier orderable batch of the same offer has a free
\* unit left afterwards.
FirstExpiredFirstOut ==
  [][\A l \in Lines :
       LET o == OrderOf[l]
       IN  (allocated'[l] # allocated[l] /\ hold'[o] \in {"live", "permanent"}) =>
             \A b, c \in OrderablePool(l) :
               (allocated'[l][b] > 0 /\ shelfLife[c] < shelfLife[b]) =>
                 Reserved(c)' >= quantity[c]]_vars

\* Seen per batch, reservations keep the stock ledger: every transaction is a
\* receipt, a correction, a rebooking, an issue or a closing of StockLedger,
\* or leaves stock and promises alone.
Ledger == INSTANCE StockLedger WITH
            stock <- quantity,
            promised <- [b \in Batches |-> Reserved(b)],
            phase <- [b \in Batches |-> IF batchStatus[b] \in {"active", "depleted"}
                                       THEN "open" ELSE batchStatus[b]]
KeepsStockLedger == Ledger!Spec
=============================================================================
