# Swedesweets operations: verification models

TLA+ models of the parts of swedesweets-ops where several requests, the clock,
the payment provider and the warehouse staff meet: stock reservations, the
order lifecycle, retail payments, customers' drafts and carts, what the
catalogues promise, accounts, and the rows all of these lock. TLC checks them on small instances, TLAPS
proves the most important results for every size.

## 1. Inventory of the system

The program is a Django application on PostgreSQL. Every request runs in its
own process; the processes share nothing but the database and the hosted
payment provider (SumUp). A service function decorated with
`transaction.atomic` is one transaction, and rows it selects with
`select_for_update` stay locked until it commits. That makes a transaction the
unit of interleaving, except where code reads before it locks, or calls the
provider between two transactions.

| component | state | operations | talks to |
| --- | --- | --- | --- |
| reservations | `Allocation` rows (order line, batch, quantity, RESERVED / CONSUMED / CANCELLED, `reserved_until`) | reserve a line from a pool, release, release temporary ones, delete, consume, make permanent; pure FEFO planner | inventory (locks batch rows), orders (called through policies) |
| orders | `Order` (status, stamps), `OrderLine` | create, edit, discard, place, update placed, cancel, pack, deliver, each under a lock on the order row | a *preparation* passed in by business, retail or fulfillment |
| fulfillment | none | pack, cancel: compose orders with reservation policies | orders, reservations |
| inventory | `InventoryBatch` (quantity, status, best-before date) | create, correct, close, pick | reservations (asks what is reserved) |
| business | one draft order per customer, offer selections of its lines | create or get the draft, add, edit, place, update placed; catalogue and edit form | pricing, orders, reservations |
| retail | `RetailCheckoutSession`, cart, cart lines | catalogue, cart to order, start / complete / fail payment, recovery | orders, payments, reservations, pricing |
| payments | `PaymentAttempt` (status, provider payment id) | create, mark succeeded / failed, create hosted session, reconcile | provider, retail callbacks |
| provider (external) | hosted payments | create, report state, notify | webhook, customer redirect |
| pricing | `CommercialPrice` (product-wide or of a batch, by channel), amounts | edit standard and special prices; which batches an offer represents | inventory |
| business portal, ops portal | packing checklist marks; session drafts of forms | edit drafts, repeat an order, check off picks | business, orders, fulfillment |
| storefront | the cookie that names the cart | cart pages, payment return | retail |
| accounts | users, staff accounts, memberships | create, edit, change status; admit a request by role | every view |
| customers, products | customers; products and images | create, update, deactivate | orders (references) |
| commands | none | `reconcile_payments`, seeding, export | retail |

What is hard about it:

* **Reservations.** Orders of both channels reserve from overlapping batch
  pools while staff correct, close and pack batches. Retail holds expire by the
  clock, without any transaction marking the moment. Confirming a payment reads
  the clock and the order's allocations, and later rewrites `reserved_until`,
  without a lock on any batch.
* **Payments.** Provider calls run between transactions: answers get lost,
  requests are retried, webhooks, the customer's return and the command
  reconcile the same attempt at the same time, and what each of them read may be
  old when it acts. Holds lapse and staff cancel orders while money is under way.
* **Re-planning.** Editing a placed order deletes its reservation and makes a
  new one from stock that has changed since.
* **The planner** must serve exactly what is asked or refuse, in expiry order,
  on pools that may be overdrawn.
* **The pick checklist.** Clerks check off allocations without a lock, while
  managers edit the order (which replaces its allocations and puts marks
  back by what was read before the lock) and while it is packed.
* **Drafts.** All users of a customer, and staff, share one draft. Requests
  look for it, find none and create it at the same time; a page shows a draft that
  is placed or discarded before its form is sent; the limit per product spans
  lines that different requests write.
* **Carts.** A browser has several requests under way and its cookie follows the
  answer that arrives last; lines are added while the cart becomes an order.
* **What is for sale.** The catalogues, the edit form and the reservation each compute
  which batches stand behind an offer, and how many units, by queries of their own.
* **Accounts.** A request is admitted by the role its user has when it starts; two
  managers may demote each other.
* **Batch ids and row locks.** The next id follows the greatest string; each kind of
  transaction locks orders, attempts, batches and products in an order of its own.

The hazards, each with its line and the properties aimed at it, are listed in
`PROJECT.json`.

What makes each component correct: availability is never oversold and a closed
batch backs nothing (inventory, reservations); a placed order is covered unit
for unit and can be packed (orders, fulfillment); holds that lapsed stay lapsed
and everything idle gives its stock back (reservations, retail); stock leaves in
expiry order (planner); a customer has one draft, within its limits, and nothing
anybody adds to it is lost; a cart becomes one order, of exactly its lines; the
units shown for an offer are those a reservation would find (pricing, business,
retail); the last manager is not removed by mistake (accounts); a customer is charged at most once, an order is placed
only against money, an attempt is written off only when no money can arrive, and
a decided payment is eventually settled (payments, retail).

## 2. Modules

| module | models |
| --- | --- |
| `FefoPlan` | what a reservation plan is, without its loop; totals as numbers of units |
| `BatchPlanner` | `reservations/planning.py`, one step per turn of the loop |
| `Reservations` | orders, lines, allocations, batches and the payment holds on them: one action per transaction |
| `StockLedger` | the abstract promise: stock and promises per batch |
| `RetailPayment` | one checkout: attempts, provider, session requests, reconcilers |
| `PickChecklist` | marks on the allocations of placed orders, composed with `Reservations` |
| `BusinessDrafts` | one customer's draft under portal sessions and staff |
| `Offers` | prices, pools, both catalogues and the edit form of one product |
| `RetailCart` | one browser's cart, its requests and its cookie |
| `StaffAccess` | accounts and the managers who edit them |
| `BatchIds` | generated batch ids of one product |
| `LockOrder` | which rows each transaction locks, in which order |
| `MCReservations`, `MCPickChecklist`, `MCBusinessDrafts` | small instances for TLC |
| `MCRequestRaces` | the last four components side by side |
| `FefoPlan_proofs` | lemmas about totals and plans, which the other proofs share |
| `Reservations_proofs`, `PickChecklist_proofs`, `RetailPayment_proofs`, `BusinessDrafts_proofs`, `Offers_proofs`, `BatchPlanner_proofs` | theorems about one module each |
| `RequestRaces_proofs` | theorems about the four components of `MCRequestRaces` |

Operators that a comment introduces with "Fault:" are not part of the model. Each is a
plausible bug of the definition that follows it; substituting it must break the
property that `PROJECT.json` names.

### Reservations

*State.* `status` and `attempt` are the order's status and that of its latest
payment attempt; `lineQuantity[l]` is `quantity_in_units` of a line;
`allocated[l][b]` the quantity of the line's allocation rows on a batch (the
planner makes at most one per line and batch, and the rows of one order always
change status and `reserved_until` together, so that one `hold[o]` per order
stands for both); `quantity`, `batchStatus` and `shelfLife` are a batch's
fields, the best-before date counted in days from today's orderable cutoff.
CANCELLED rows count nowhere and are dropped.

*Actions.* One per transaction, named for the service: its guard collects the
checks and early returns of the service and of the policies it is composed with, and
a transaction that raises changes nothing. Transactions on an order are
serialised by the lock on its row. `complete_retail_payment` is two actions:
`ReadLiveHold` is the read in `make_reservations_permanent_for_order`,
`PlacePaidOrder` the commit; in between, every transaction on *other* orders
and on batches may run, and the clock may pass `reserved_until`
(`HoldLapses`). Operations of the same order wait (`o \notin confirming`), and a
crash rolls back (`AbandonConfirmation`).

*Abstractions.* Time is not measured: a live hold may lapse at any moment. That
also covers the old clock value `start_retail_payment` may use. Lines are rows
numbered in creation order; a line that is deleted and added again is another
row of the same pool or a reuse of its number. The pool of a line, which
batches its offer represents, is a constant; `Orderable` is evaluated at each
transaction. Prices, quantity limits, audit stamps and expired checkout
windows (which only restrict `StartRetailPayment`) are left out.

### RetailPayment

*State.* The checkout's `order` and `hold`; per attempt its status and provider
payment id; `payment`, the provider's truth; `handedOut`, the payments whose URL the
customer has; and, for each session request and each reconciler, the step it is
at and what it remembers.

*Actions.* `create_hosted_payment_session` is three steps (check, provider call,
re-check and store under the lock), each of which may be the last
(`AbandonSession`). Reconciling is `BeginReconcile`, `AskProvider`,
`ApplyReconciliation` (which compares with an unlocked row), then
`CompletePayment` or `FailPayment` under the locks on order and attempt, or
their refusals. Webhook calls and customer returns are `Listeners`, which may
die; runs of the command are `Cron`.

*Abstractions.* The provider's state of a payment is final once it is paid or
failed; only a customer who was redirected can pay. Transaction ids, amounts and
currencies agree. `cancel_pending_payment_attempts_for_order` has no caller in
production code and is no action. Staff cancel the order, or the hold lapses, at
any time. The retail row locks make completion
one step here; `Reservations` shows what happens inside it.

### PickChecklist

*State.* Besides that of `Reservations`: `marks`, each naming its allocation by line and
batch (an order has one RESERVED row per line and batch); and what each toggle request
(`clerk`) and each edit (`manager`) is doing and remembers. Ghosts, which no guard reads and
the code does not store, record the quantities a clerk saw when checking a mark
(`line`, `units`), on which lines another edit has overtaken an edit between its two reads
(`overtaken`), and whether such an edit has put the mark back (`raced`).

*Actions.* A toggle is three statements without a lock: `FindAllocation`,
`ClearMark`, `CreateMark`. An edit is `ReadUnchangedLines` and `ReadMarks`, both
before the order is locked, and `CommitEdit`, which is `ReplaceLines` of `Reservations`
plus the marks that are put back; allocations are new rows afterwards, so a
toggle under way finds its own `gone`. `PackAndClearMarks` is `PackOrder` plus the
clearing. Every other step of `Reservations` leaves the checklist alone. Any number of
clerks and of edits, of one order too, are under way at once.

### BusinessDrafts

*State.* `status` of the customer's orders; `quantity[o][l]`, where a line is
an offer with or without a `BusinessOfferSelection` ("selected" lines come from the
portal, "bare" ones from staff); `request`, for each portal request, what it
has read so far; `clerk`, the draft that a staff request has committed and not yet placed.

*Actions.* `add_catalog_offer_to_draft_order` is `ChooseOffer` (catalogue read),
`FindDraft` (lock the draft, or see none), then `FinishAdd`, or `OpenDraft` /
`LoseRace` on the unique constraint followed by `JoinWinner` / `MissWinner`. A request that has locked
the draft and read its line keeps all others out until it commits. `StartRepeat` and `RepeatNext` put
the lines of an earlier order through the same steps, each in a
transaction of its own. All other views first `View` the draft without a lock; then the service
locks it and looks at its status again. `ops create_order` is two transactions.

*Abstractions.* All offers belong to one product, since the limit is per product.
Every reading of the catalogue may give any number of units, and placement
may succeed or fail: `Offers` and `Reservations` are about which. Prices are left out.

### Offers

*State.* `active`, and by channel which offers are `enabled` and `priced`; a batch's
`physical` units and whether it is `orderable` (status and date in one); the
units `held` by the lines of one business order and `taken` by everybody else.

*Operators.* `OfferPool` is `list_orderable_batches_for_offer`, which reservations
use; `BusinessUnits` the catalogue's own computation, by subtraction from the product's
total; `FormUnits` the edit form's; `RetailUnits` and `CheckoutResolves` the
retail side. The properties compare them.

*Actions.* The two pricing forms (each one transaction), stock corrections and passing
days, and the life of the order and of all others.

*Abstractions.* Reservations never exceed stock here (`NoOversell` of `Reservations`).
A catalogue is read in one step; the code uses several queries, and what changes
between them is noticed only at placement. One currency; amounts are left out.

### RetailCart

*State.* Cart rows and lines; how many checkouts a cart has become and the lines of
the last; the browser's `cookie`; which offers are on sale; per request what it
does, which cookie it was sent with and what it has read under the lock.

*Actions.* A request is sent, finds its cart without a lock, locks it (it may be
gone by then), and finishes; its answer, which carries the new cookie, is received in any
order or lost. A new cart and its first line are one transaction (`CreateCart`).

*Abstractions.* `create_retail_checkout_from_cart` has no caller in production yet.
It is an action, since the lock and the deletion in it are written for requests that run
next to the existing views; everything else here is reachable today.

### StaffAccess, BatchIds, LockOrder

`StaffAccess`: a request is admitted on the role and status its sender has
(`Admit`), checks its form (under row locks when it edits) and commits. Superusers are above
all rules and left out.

`BatchIds`: an id is the number in it. `Latest` is the greatest in *string* order:
one digit more than the padded width sorts first. An `IntegrityError` breaks the
transaction, so that the retry written for it fails (`Collide`).

`LockOrder`: a transaction is the sequence of rows it locks. Queries with
`select_related("product")` lock the product with each batch. `DetectDeadlock` is
PostgreSQL's, which rolls back one transaction of a circle; no service tries again.
What a transaction does with its rows is in the other modules.

### Planner and ledger

`BatchPlanner` takes every pool of up to three batches with every physical and
reserved quantity, and compares what the loop returns with `IsFefoPlan`.
`Reservations` uses that contract instead of the loop; because the plan that
satisfies it is unique (`PlanIsTheFefoPlan`), nothing is lost.

`StockLedger` knows no orders. `Reservations` implements it under the mapping
`stock <- quantity`, `promised[b] <- Reserved(b)`, and `phase` "open" for the
statuses ACTIVE and DEPLETED: receipts, corrections, rebookings, issues and
closings are all that any transaction does to a batch.

## 3. Runs

| run | instance | shows |
| --- | --- | --- |
| `orders_and_stock` | a retail order with one line, a business order with two, two batches of up to 2 units, offers that overlap on batch 1; holds outlive their confirmation | no overselling, closed batches back nothing, placed orders can be packed, lapsed holds stay lapsed, every step is a ledger step |
| `expiry_order` | one line per order, shelf lives up to 2 days, so that expiry order changes by deliveries and corrections; holds may lapse during confirmation | FEFO across transactions, coverage unit for unit, unsettled payments keep their basket, idle orders own nothing, nothing but a late confirmation overbooks |
| `planner` | pools of up to 3 batches, 0..2 units, 0..1 reserved, 2 dates, requests up to 4 | the loop returns the one FEFO plan or refuses exactly when there is none |
| `payment_races` | 2 attempts, 3 hosted payments, 2 session requests, 1 webhook, 1 command | money and order never contradict each other, no payment is lost track of |
| `payment_settlement` | 2 attempts, 2 payments, 1 of each process, fairness; holds lapse and staff cancel at any time | decided payments are settled, except where the order was cancelled or the money came after the hold had lapsed |
| `pick_checklist` | one order with one line, 1 batch, 2 clerks, 2 managers; clerks and managers are interchangeable | marks never outlive a change of their line but in one interleaving, packing ends the checklist |
| `portal_drafts` | 2 portal sessions, 1 clerk, 2 order rows, 2 offers, limit 2; sessions are interchangeable | one draft, no lost addition, the limit holds over all lines, losers of the race join the winner, no request about drafts touches what is placed |
| `offers` | 2 batches, one of which may have offers of its own, 2 units | catalogues, edit form, checkout and pools agree; no unit behind two offers or none |
| `request_races` | 2 tabs, 2 carts, 1 offer, 2 units a line; 3 accounts, 2 desks, 2 emails; 3 requests for a batch id, numbers up to 5; 3 transactions on 2 business orders with the same pools in opposite order, and 1 retail order | a cart becomes one order and is not lost, managers are lost only to a race, ids are free when generated, deadlocks are over stock alone |
| `marks_and_replanning` | one line over two batches, 1 clerk, 1 manager | a finding, see below |
| `late_confirmation` | as `orders_and_stock`, holds may lapse during confirmation | a finding, see below |
| `duplicate_notification` | 1 attempt, a webhook and the command | a finding, see below |

Two batches and two orders are enough for every conflict the code resolves
pairwise: two orders on one batch, one order split over two batches, two lines
of an order on one batch, the earlier and the later batch of a pool. Two units
let a batch be shared or taken whole. Three hosted payments allow a payment whose
answer is lost next to one for each attempt.

Two sessions and a clerk make every race for a draft: two that create it, one that
edits what another places, one that repeats into a draft under edit; a limit of two units is
reached by one line or by two. A second order row is the draft that follows a placed or
discarded one. A batch with its own offers next to one without is
every case `OfferPool` distinguishes; two units let the order and the others share a batch.
Two tabs and two carts give a cart that is checked out twice, and a cookie that an older answer
puts back. Two desks are two managers acting on each other, the third account is the one
they may create or promote. Three makers collide two at a time; a last padded
number of 4 stands for 999. A circle of waiting transactions needs two; the third
holds what both want. In `request_races` the four components share no state, so
that a property of one is violated in the whole exactly if it is violated by that component
alone: a behaviour takes its steps in one `place`.

The theorems below remove these
bounds for the properties they cover.

Deadlock is not checked: a system with all orders delivered and all batches
closed has nothing left to do.

**Fairness.** `payment_settlement` assumes weak fairness of the command's own
steps and strong fairness of its provider call: the command is run again and
again, every run goes on to its end, and the provider is not unreachable for
ever. Webhooks, customers and session requests may stop at any time. The repository contains the command, not its schedule, so that the
first part is an assumption about operations. A run of the command catches
every exception per attempt and goes on, which is what the second part rests on. Nothing is assumed
of the clock or of staff: a payment that arrives after its hold lapsed, or after staff
cancelled, is deliberately never completed (a test of `retail` pins this), and
its attempt stays pending. The property names these two cases, and the run shows
that there is no third.

**Findings.**

* `late_confirmation`: `make_reservations_permanent_for_order` reads the clock
  once, then waits for locks, and locks no batch. A hold that lapses before the commit
  is made permanent, though another transaction may have counted its units as
  free; `Allocation` documents that a lapsed reservation no longer reduces
  availability. The window is the duration of one transaction, and with it
  stock can be promised twice. `HoldsOutliveConfirmation` is the
  condition under which stock is never oversold; without it, `OnlyLateConfirmationsOverbook`
  says that this window is the only way to overbook a batch.
* `duplicate_notification`: of two reconcilers that both saw PENDING, the second
  one's callback raises, although provider and local state agree by then; the
  docstring of `reconcile_payment_attempt` promises idempotence. The
  webhook answers 500 and is retried; a returning customer is told that the
  payment requires support.

* `marks_and_replanning`: `update_placed_order_and_preserve_checklist` promises
  that "quantity changes invalidate the mark", but compares the quantity of the
  line only. When a correction or a delivery changes what is free, re-planning an unchanged line gives
  a batch another quantity, and its mark is put back although nobody verified that
  quantity.

The exceptions of `pick_checklist` are read from the code, and TLC finds the steps if they
are not excepted. An edit compares the lines; another edit of the same order commits a new
quantity; a clerk marks the line; the first edit reads the marks, takes this one for a mark of an
unchanged line and puts it back at its own quantity. `MarkedLinesWereVerified` excepts such marks
(`raced`) and no others. A toggle that was under way when an order was packed can leave a mark on a consumed
allocation, which `PackedOrdersStayUnmarked` excepts.

**Hazards no property catches.** `PROJECT.json` lists them with a note each: the checkout
window that `start_retail_payment` may overrun, the draft that stays behind when
staff's placement fails, the retry after a duplicate batch id and the number after 999, two managers who
demote each other, the pool that is read while a special price is saved, and the stamps of
a second delivery. In most of them the code does what the hazard says, and
no document claims otherwise.

## 4. Proofs

`FefoPlan_proofs`: totals are natural numbers, monotone, additive over disjoint
sets, and grow by n where one member does; a finite set of numbers has a
greatest member. A total is defined as the number of units (pairs of a member
and a number), so that these follow from the library's facts on
cardinality. Where induction is needed, a minimal counterexample is
picked with the library's theorem on well-founded relations.

Every safety invariant and every action property that a passing run checks is
also a theorem, `LapsedHoldsStayLapsed` excepted. The paragraphs below name, per module, what had to be added to make the
invariant inductive, and why. Each strengthening was first checked by TLC on the instance of
the run.

`Reservations_proofs`: `IInv` carries types, idle orders and stock. It adds
that only retail orders have attempts (a business draft is therefore idle, and places its
order from no allocations), that placed orders hold permanently and orders being
confirmed are retail drafts with a live hold (packing, and making permanent,
then change no other order's promises), and that a batch that does not
exist is empty. The core is `PlansFitTheStock`: of the lines that take from a
batch, the last one was planned with everything already counted, so what it was
given still fits; a batch no line takes from is promised no more than before. On top of it stand

* `Coverage`, for `PlacedOrdersAreCovered` and `PayingOrdersAreHeld`: an order that is placed
  or being confirmed has lines, one being confirmed has a pending attempt, and one that does not
  exist has no attempts. Nothing here depends on the clock;
* `Backing`, for `ClosedBatchesBackNothing` and `PlacedOrdersCanBePacked`: an open batch is
  ACTIVE exactly when it has stock. Reservations on a batch grow only where it is orderable
  (`PromisesGrowWhereOrderable`), and a placed order takes no more of a batch than is reserved there;
* the action property `FirstExpiredFirstOut` (a plan takes every earlier batch to its
  last free unit, and a later line of the same order only adds to that);
* `OnlyLateConfirmationsOverbook`, which needs no condition on the clock. A reservation leaves each batch
  within its stock or with no more promised than before, even if it is overbooked already; packing takes as much from the
  promises as from the shelf; a correction is not below what is promised. `Coverage` leaves one
  step: a completion whose hold has lapsed, which adds exactly what the order was given;
* the refinement `KeepsStockLedger`. Its step theorem goes through the transactions one by one: an order's
  step rebooks promises, packing issues what was promised, a batch's step receives,
  corrects or closes.

`NoOversell`, `ClosedBatchesBackNothing`, `PlacedOrdersCanBePacked` and
`KeepsStockLedger` assume `HoldsOutliveConfirmation`; the run `late_confirmation` shows the step
that breaks them otherwise. The other theorems about `Reservations` do not. `LapsedHoldsStayLapsed` is
checked under that condition and not stated as a theorem: the condition excludes just the lapse
it is about.

`PickChecklist_proofs`: `ChecklistSpec => Spec`, so that all of the above holds with clerks and
edits at work; it needs that what an edit remembers is of one business order (`TypeInv`).
`PackedOrdersStayUnmarked` follows from the same invariant. `MarkedLinesWereVerified` needs
`VerifiedInv`: whatever the checklist remembers is of orders past their draft, which never
become placed a second time; and what an edit of a placed order has read still holds,
first of the lines it has not been overtaken on, then of their marks, raced ones apart. The theorem is about any number
of clerks and of edits at once; its one exception is that of section 3.

`RetailPayment_proofs`: `TypeOK` (which no run checks), `PlacedMeansPaid`, `MoneyIsAccountedFor`,
`FailedMeansUnpaid`, `ChargedAtMostOnce`, `NoReconciliationConflict` and `SettledStaysSettled` for any number of
attempts, payments and processes. `IInv` says that at most one attempt is alive
(pending or succeeded), that the customer has exactly the payments attempts are
bound to, that a payment on its way is nobody else's, and that what a
reconciler remembers of a decided payment is still true. Two paid
payments would be bound to two attempts that are both alive.

`BusinessDrafts_proofs`: `IInv` adds that there is one draft, that orders not yet
opened have no lines, that a locked request's order is a draft whose line is still as it was read, that one
request at a time has the lock, that a beaten request was beaten by an order that exists and a failed one by
an order that was closed, and that what is repeated are lines of closed orders. The limit holds because
the sum over the draft's lines is taken under the lock.

`BatchPlanner_proofs`: the loop's picks are a FEFO plan of the batches visited so far, which
are the earliest of the pool, and what is available is their total. That the result is the *only* plan
(`OnePlan`) is a fact about the contract: a plan that gives less of a batch than another
takes nothing from later batches, while the other has used up all earlier ones, so that it gives less
in total. That the loop ends is not stated: it is a `for` over a finite list.

`Offers_proofs`: `TypeOK` is inductive, and the other four properties follow from it by
arithmetic on totals. The catalogue subtracts from the product's total what is promised
and what batches with own offers show; `ProductUnitsAreFree` and `UnitsPerOffer` say that these
are totals of free units over disjoint sets of batches.

`RequestRaces_proofs`: four invariants, since the components share no state. *Cart*: a browser and its
requests know only stored carts; a request that has a lock has read what the cart holds;
an answer names another cart only when the one it was sent with is gone. *Accounts*: an edit that
was checked is harmless to its sender, and one request at a time edits an account. *Locks*: every
transaction has its rows ahead of it in lock order (checkout, order, attempt, then stock) and owns none
that come later. If a transaction in a circle waited for a row that is not stock, one that waits
for *it* would wait for a row of lower rank that is not stock either, and so on around the circle; there are
only three ranks. *Batch ids* need
types only. `TypeCorrect` is about all of them (`RacesSpec` implies each of the four specifications).

**Assumptions.** Those on the constants, stated in the modules: sets are finite where the code
stores rows in tables, lines and batches are numbered, bounds are positive; there is something for sale
(`RetailCart`); "no email" is no address (`StaffAccess`); and the constants of `LockOrder` are sequences
of batches and pools. Besides, `HoldsOutliveConfirmation` where named above.

**Only model-checked.** `DecidedPaymentsAreSettled`, since
liveness under fairness and ENABLED are out of the prover's reach; `LapsedHoldsStayLapsed`, as said above;
and the three findings, which are counterexamples.

## 5. Plan

All modules of the plan are written, except the audit stamps of the order
lifecycle (who packed, who delivered and when), which no property of this
development reads. What is left to prove:

1. The condition under which `MarkedQuantitiesWereVerified`, which re-planning breaks, does hold: no batch
   operation, and no transaction on another order, since the mark was set.
2. The checkout window: what a payment may still do that starts at its very end.

None of these modules uses a RECURSIVE operator.

## 6. Not modelled, and why

* **Presentation.** Views without steps of their own, forms, view models, templates,
  translations and table controls present or format data and keep no state. They are most
  of the code: forms and view models of the ops portal alone are longer than
  all services together.
* **Tooling.** Seeding, demo data and exports.
* **Single rows.** Customers, products and their images are edited row by row; nothing
  spans steps or actors beyond a unique name. Delivery areas are imported in one transaction.
* **Audit stamps, amounts and names.** `deliver_order` on a delivered order overwrites
  its stamps; the status stays right, and stamps are not in the model. Amounts and buyer data are
  copied when a line or an order is made.
* **Provider protocol.** HTTP and JSON details are reduced to the possible answers.
* **Functions without a production caller.** `cancel_pending_payment_attempts_for_order`,
  `update_product_active`, `clear_retail_cart`, `add_product_to_draft_order`,
  `set_draft_product_quantity`, `replace_draft_order_lines`, and the saving half of
  `save_or_clear_portal_draft_order`.

## 7. Noticed while modelling

Read from the code, and not established by a run:

* When placement in `ops create_order` fails, the draft it leaves has bare lines. A
  portal user who then adds the same offer makes a second line of that offer, and
  `update_placed_order` later refuses such an order as having a duplicate offer.
* Staff who create an order for a customer with a draft get an `IntegrityError` nobody
  handles.
* After number 999 the next generated batch id is 1000 again and again, and creation
  of that product's batches fails until an id is given by hand. The retry loops of
  `create_batch` and `create_product` run in the transaction the error has broken.
* A batch correction locks batch and product together, as a reservation does batch by batch:
  even a single order can be in a deadlock with a correction. PostgreSQL resolves
  it, and one of the two requests fails.
* The staff form posts all fields of an account, so that an edit which was opened earlier
  gives back a role another manager has just taken away.
* Two tabs without a cookie create two carts; the browser keeps the one whose answer
  arrives last.
* The retail catalogue shows physical units, reserved ones included, though a docstring
  promises that catalogue and checkout never drift apart. `RetailCatalogueMatchesCheckout`
  states what does hold.
* Outside the condition of `EditFormIsExact` (an order holds units its offer
  no longer represents) the edit form offers more than the edit can have.
