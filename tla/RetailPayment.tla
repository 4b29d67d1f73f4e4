---------------------------- MODULE RetailPayment ---------------------------
(***************************************************************************)
(* The payment of one retail checkout: local PaymentAttempt rows           *)
(* (payments/services.py), the retail use cases that settle them           *)
(* (retail/services.py, retail/payments.py), the processes that call them  *)
(* concurrently (the SumUp webhook, the customer's return, the cron        *)
(* command) and the external provider as those processes see it.           *)
(*                                                                         *)
(* A provider call happens outside any transaction, so creating a hosted   *)
(* session and reconciling an attempt are sequences of steps; what each    *)
(* remembers between its steps may be out of date when it is used.         *)
(***************************************************************************)
EXTENDS Integers, FiniteSets

CONSTANTS
  Attempts,    \* PaymentAttempt rows, numbered from 1 in creation order
  Payments,    \* hosted payments at the provider
  NoPayment,   \* provider_payment_id is still empty
  Openers,     \* requests that create a hosted session (begin or retry)
  Listeners,   \* webhook calls and customer returns
  Cron         \* runs of the reconcile_payments command

ASSUME PaymentAssumption ==
  /\ Attempts \subseteq Nat \ {0} /\ IsFiniteSet(Attempts)
  /\ IsFiniteSet(Payments) /\ NoPayment \notin Payments
  /\ Listeners \cap Cron = {}

Reconcilers == Listeners \cup Cron

VARIABLES
  order,         \* Order.status of the checkout's order
  hold,          \* its RESERVED allocations (as in module Reservations)
  attemptStatus, \* PaymentAttempt.status ("none": not created)
  providerId,    \* PaymentAttempt.provider_payment_id
  payment,       \* the provider's state of each hosted payment
  handedOut,     \* hosted payments whose URL reached the customer
  opener,        \* what each opener is doing, and for which attempt and payment
  reconciler     \* what each reconciler is doing, has been told, and answered

localVars == <<order, hold, attemptStatus, providerId>>
providerVars == <<payment, handedOut>>
vars == <<localVars, providerVars, opener, reconciler>>

NoAttempt == 0
External == {"none", "pending", "succeeded", "failed"}
IdleOpener == [at |-> "idle", attempt |-> NoAttempt, payment |-> NoPayment]
IdleReconciler == [at |-> "idle", attempt |-> NoAttempt, seen |-> "none", answer |-> "none"]

OpenerState ==
  [at : {"idle", "creating", "persisting"}, attempt : Attempts \cup {NoAttempt},
   payment : Payments \cup {NoPayment}]
ReconcilerState ==
  [at : {"idle", "asking", "applying", "completing", "failing", "answered"},
   attempt : Attempts \cup {NoAttempt}, seen : External,
   answer : {"none", "ok", "conflict", "error"}]

TypeOK ==
  /\ order \in {"draft", "placed", "cancelled"}
  /\ hold \in {"none", "live", "lapsed", "permanent"}
  /\ attemptStatus \in [Attempts -> {"none", "pending", "succeeded", "failed"}]
  /\ providerId \in [Attempts -> Payments \cup {NoPayment}]
  /\ payment \in [Payments -> External]
  /\ handedOut \subseteq Payments
  /\ opener \in [Openers -> OpenerState]
  /\ reconciler \in [Reconcilers -> ReconcilerState]

\* create_retail_checkout_from_cart has just left a DRAFT order.
Init ==
  /\ order = "draft" /\ hold = "none"
  /\ attemptStatus = [a \in Attempts |-> "none"]
  /\ providerId = [a \in Attempts |-> NoPayment]
  /\ payment = [p \in Payments |-> "none"]
  /\ handedOut = {}
  /\ opener = [w \in Openers |-> IdleOpener]
  /\ reconciler = [r \in Reconcilers |-> IdleReconciler]

Pending(a) == attemptStatus[a] = "pending"
SomePending == \E a \in Attempts : Pending(a)

-----------------------------------------------------------------------------
(* Starting a payment. *)

\* Fault: a new attempt may start while another is pending.
StartAnotherPayment(a) ==
  /\ order = "draft"
  /\ attemptStatus[a] = "none"
  /\ \A b \in Attempts : b < a => attemptStatus[b] # "none"
  /\ attemptStatus' = [attemptStatus EXCEPT ![a] = "pending"]
  /\ hold' = "live"
  /\ UNCHANGED <<order, providerId, providerVars, opener, reconciler>>

\* start_retail_payment: one pending attempt at most; earlier temporary
\* reservations are replaced by fresh ones.
StartPayment(a) ==
  /\ order = "draft" /\ ~SomePending
  /\ attemptStatus[a] = "none"
  /\ \A b \in Attempts : b < a => attemptStatus[b] # "none"
  /\ attemptStatus' = [attemptStatus EXCEPT ![a] = "pending"]
  /\ hold' = "live"
  /\ UNCHANGED <<order, providerId, providerVars, opener, reconciler>>

\* create_hosted_payment_session, the check before the provider call.
ReadForSession(w, a) ==
  /\ opener[w].at = "idle"
  /\ Pending(a) /\ providerId[a] = NoPayment
  /\ opener' = [opener EXCEPT ![w] = [at |-> "creating", attempt |-> a, payment |-> NoPayment]]
  /\ UNCHANGED <<localVars, providerVars, reconciler>>

\* The provider creates the hosted payment and answers with its id and URL.
ProviderCreates(w) ==
  /\ opener[w].at = "creating"
  /\ \E p \in Payments :
       /\ payment[p] = "none"
       /\ payment' = [payment EXCEPT ![p] = "pending"]
       /\ opener' = [opener EXCEPT ![w].at = "persisting", ![w].payment = p]
  /\ UNCHANGED <<localVars, handedOut, reconciler>>

\* Fault: the row is not checked again after the provider call.
PersistSessionBlindly(w) ==
  LET a == opener[w].attempt
      p == opener[w].payment
  IN  /\ opener[w].at = "persisting"
      /\ providerId' = [providerId EXCEPT ![a] = p]
      /\ handedOut' = handedOut \cup {p}
      /\ opener' = [opener EXCEPT ![w] = IdleOpener]
      /\ UNCHANGED <<order, hold, attemptStatus, payment, reconciler>>

\* Fault: the customer is redirected to the hosted payment just created, though
\* the re-check found the attempt settled or already bound and stored nothing.
RedirectRegardless(w) ==
  LET a == opener[w].attempt
      p == opener[w].payment
      storable == Pending(a) /\ providerId[a] = NoPayment
  IN  /\ opener[w].at = "persisting"
      /\ providerId' = IF storable THEN [providerId EXCEPT ![a] = p] ELSE providerId
      /\ handedOut' = handedOut \cup {p}
      /\ opener' = [opener EXCEPT ![w] = IdleOpener]
      /\ UNCHANGED <<order, hold, attemptStatus, payment, reconciler>>

\* The transaction after the call re-checks the locked row before it stores
\* the id; only then is the customer redirected.
PersistSession(w) ==
  LET a == opener[w].attempt
      p == opener[w].payment
  IN  /\ opener[w].at = "persisting"
      /\ Pending(a) /\ providerId[a] = NoPayment
      /\ providerId' = [providerId EXCEPT ![a] = p]
      /\ handedOut' = handedOut \cup {p}
      /\ opener' = [opener EXCEPT ![w] = IdleOpener]
      /\ UNCHANGED <<order, hold, attemptStatus, payment, reconciler>>

\* The re-check fails, the provider call fails, or the process dies with or
\* without a hosted payment created: nothing local changes.
AbandonSession(w) ==
  /\ opener[w].at # "idle"
  /\ opener' = [opener EXCEPT ![w] = IdleOpener]
  /\ UNCHANGED <<localVars, providerVars, reconciler>>

-----------------------------------------------------------------------------
(* The world outside. *)

\* The customer pays at the hosted page.
CustomerPays(p) ==
  /\ p \in handedOut /\ payment[p] = "pending"
  /\ payment' = [payment EXCEPT ![p] = "succeeded"]
  /\ UNCHANGED <<localVars, handedOut, opener, reconciler>>

\* The hosted payment is declined or expires.
PaymentFails(p) ==
  /\ payment[p] = "pending"
  /\ payment' = [payment EXCEPT ![p] = "failed"]
  /\ UNCHANGED <<localVars, handedOut, opener, reconciler>>

\* The clock passes reserved_until.
HoldLapses ==
  /\ hold = "live"
  /\ hold' = "lapsed"
  /\ UNCHANGED <<order, attemptStatus, providerId, providerVars, opener, reconciler>>

\* Staff cancel the order (fulfillment cancel_order): reservations are
\* released, the attempt is left as it is.
CancelOrder ==
  /\ order \in {"draft", "placed"}
  /\ order' = "cancelled" /\ hold' = "none"
  /\ UNCHANGED <<attemptStatus, providerId, providerVars, opener, reconciler>>

-----------------------------------------------------------------------------
(* Reconciling an attempt with the provider. *)

Move(r, step) == reconciler' = [reconciler EXCEPT ![r].at = step]

Answer(r, result) ==
  reconciler' = [reconciler EXCEPT ![r].at = "answered", ![r].answer = result]

\* A webhook or a return names an attempt with a provider id, whatever its
\* status; the command takes only pending ones.
BeginReconcile(r, a) ==
  /\ reconciler[r].at = "idle"
  /\ providerId[a] # NoPayment
  /\ r \in Cron => Pending(a)
  /\ reconciler' = [reconciler EXCEPT ![r] =
                      [at |-> "asking", attempt |-> a, seen |-> "none", answer |-> "none"]]
  /\ UNCHANGED <<localVars, providerVars, opener>>

\* provider.get_payment.
AskProvider(r) ==
  /\ reconciler[r].at = "asking"
  /\ reconciler' = [reconciler EXCEPT ![r].at = "applying",
                      ![r].seen = payment[providerId[reconciler[r].attempt]]]
  /\ UNCHANGED <<localVars, providerVars, opener>>

\* The provider cannot be reached.
ProviderUnavailable(r) ==
  /\ reconciler[r].at = "asking"
  /\ Answer(r, "error")
  /\ UNCHANGED <<localVars, providerVars, opener>>

\* Fault: whatever is not a failure is taken for a success.
ApplyOptimistically(r) ==
  LET local == attemptStatus[reconciler[r].attempt]
      seen == reconciler[r].seen
  IN  /\ reconciler[r].at = "applying"
      /\ \/ seen = local /\ local # "pending" /\ Answer(r, "ok")
         \/ seen # "failed" /\ local = "pending" /\ Move(r, "completing")
         \/ seen = "failed" /\ local = "pending" /\ Move(r, "failing")
         \/ seen # local /\ local # "pending" /\ Answer(r, "conflict")
      /\ UNCHANGED <<localVars, providerVars, opener>>

\* Fault: an undecided payment is written off when its hold has lapsed.
ApplyImpatiently(r) ==
  LET local == attemptStatus[reconciler[r].attempt]
      seen == reconciler[r].seen
  IN  /\ reconciler[r].at = "applying"
      /\ \/ seen \in {"pending", local} /\ hold # "lapsed" /\ Answer(r, "ok")
         \/ seen = "succeeded" /\ local = "pending" /\ Move(r, "completing")
         \/ local = "pending" /\ (seen = "failed" \/ hold = "lapsed") /\ Move(r, "failing")
         \/ seen \notin {"pending", local} /\ local # "pending" /\ Answer(r, "conflict")
      /\ UNCHANGED <<localVars, providerVars, opener>>

\* Fault: a failed payment is left to the customer to retry.
ApplySuccessOnly(r) ==
  LET local == attemptStatus[reconciler[r].attempt]
      seen == reconciler[r].seen
  IN  /\ reconciler[r].at = "applying"
      /\ \/ seen \in {"pending", "failed", local} /\ Answer(r, "ok")
         \/ seen = "succeeded" /\ local = "pending" /\ Move(r, "completing")
      /\ UNCHANGED <<localVars, providerVars, opener>>

\* _apply_reconciliation: compares what the provider said with the refreshed
\* row, without a lock.
ApplyReconciliation(r) ==
  LET local == attemptStatus[reconciler[r].attempt]
      seen == reconciler[r].seen
  IN  /\ reconciler[r].at = "applying"
      /\ \/ seen \in {"pending", local} /\ Answer(r, "ok")
         \/ seen = "succeeded" /\ local = "pending" /\ Move(r, "completing")
         \/ seen = "failed" /\ local = "pending" /\ Move(r, "failing")
         \/ seen \notin {"pending", local} /\ local # "pending" /\ Answer(r, "conflict")
      /\ UNCHANGED <<localVars, providerVars, opener>>

\* complete_retail_payment, under the locks on order and attempt.
CompletePayment(r) ==
  LET a == reconciler[r].attempt
  IN  /\ reconciler[r].at = "completing"
      /\ Pending(a) /\ order = "draft" /\ hold = "live"
      /\ order' = "placed" /\ hold' = "permanent"
      /\ attemptStatus' = [attemptStatus EXCEPT ![a] = "succeeded"]
      /\ Answer(r, "ok")
      /\ UNCHANGED <<providerId, providerVars, opener>>

\* It raises: the attempt is no longer pending, the order no longer a draft,
\* or no reservation is active any more.  Everything is rolled back.
RefuseCompletion(r) ==
  /\ reconciler[r].at = "completing"
  /\ ~(Pending(reconciler[r].attempt) /\ order = "draft" /\ hold = "live")
  /\ Answer(r, "error")
  /\ UNCHANGED <<localVars, providerVars, opener>>

\* fail_retail_payment, under the same locks.
FailPayment(r) ==
  LET a == reconciler[r].attempt
  IN  /\ reconciler[r].at = "failing"
      /\ Pending(a) /\ order = "draft"
      /\ hold' = "none"
      /\ attemptStatus' = [attemptStatus EXCEPT ![a] = "failed"]
      /\ Answer(r, "ok")
      /\ UNCHANGED <<order, providerId, providerVars, opener>>

RefuseFailure(r) ==
  /\ reconciler[r].at = "failing"
  /\ ~(Pending(reconciler[r].attempt) /\ order = "draft")
  /\ Answer(r, "error")
  /\ UNCHANGED <<localVars, providerVars, opener>>

\* The caller has its answer: 204 or 500 to the provider, a page to the
\* customer, a counter of the command.
TakeAnswer(r) ==
  /\ reconciler[r].at = "answered"
  /\ reconciler' = [reconciler EXCEPT ![r] = IdleReconciler]
  /\ UNCHANGED <<localVars, providerVars, opener>>

\* A listener's process dies: the notification is lost.
ListenerDies(r) ==
  /\ r \in Listeners /\ reconciler[r].at \notin {"idle", "answered"}
  /\ reconciler' = [reconciler EXCEPT ![r] = IdleReconciler]
  /\ UNCHANGED <<localVars, providerVars, opener>>

-----------------------------------------------------------------------------
OpenerStep(w) ==
  \/ \E a \in Attempts : ReadForSession(w, a)
  \/ ProviderCreates(w) \/ PersistSession(w) \/ AbandonSession(w)

\* The steps of a reconciler that only wait for its own process.
ReconcilerProceeds(r) ==
  \/ \E a \in Attempts : BeginReconcile(r, a)
  \/ ApplyReconciliation(r)
  \/ CompletePayment(r) \/ RefuseCompletion(r)
  \/ FailPayment(r) \/ RefuseFailure(r) \/ TakeAnswer(r)

ReconcilerStep(r) ==
  ReconcilerProceeds(r) \/ AskProvider(r) \/ ProviderUnavailable(r) \/ ListenerDies(r)

OutsideStep ==
  \/ \E p \in Payments : CustomerPays(p) \/ PaymentFails(p)
  \/ HoldLapses
  \/ CancelOrder

Next ==
  \/ \E a \in Attempts : StartPayment(a)
  \/ \E w \in Openers : OpenerStep(w)
  \/ \E r \in Reconcilers : ReconcilerStep(r)
  \/ OutsideStep

Spec == Init /\ [][Next]_vars

\* The command is run again and again and each run goes on to its end, and
\* the provider is not unreachable for ever.  Nothing is assumed of webhooks,
\* customers or session creation.
FairSpec ==
  Spec /\ \A r \in Cron : WF_vars(ReconcilerProceeds(r)) /\ SF_vars(AskProvider(r))

-----------------------------------------------------------------------------
(* Correctness. *)

\* An order is placed only against money: a succeeded attempt belongs to a
\* payment the provider reports as paid and to an order that was placed with
\* its stock made permanent, and a placed order has exactly one such attempt.
PlacedMeansPaid ==
  /\ \A a \in Attempts : attemptStatus[a] = "succeeded" =>
       /\ providerId[a] \in Payments /\ payment[providerId[a]] = "succeeded"
       /\ order # "draft"
  /\ order = "placed" =>
       /\ hold = "permanent"
       /\ \E a \in Attempts : \A b \in Attempts : (attemptStatus[b] = "succeeded") = (b = a)

\* No money is lost track of: whatever requests raced for the session, a hosted
\* payment the customer can open is the payment of exactly one attempt, so that
\* a notification finds it, and if it has been paid, that attempt has succeeded
\* or is still waiting for the command.
MoneyIsAccountedFor ==
  \A p \in handedOut : \E a \in Attempts :
    /\ \A b \in Attempts : (providerId[b] = p) = (b = a)
    /\ payment[p] = "succeeded" => attemptStatus[a] \in {"pending", "succeeded"}

\* The customer is charged at most once for a checkout, however many attempts,
\* concurrent sessions, retries and lost answers there were.
ChargedAtMostOnce ==
  \A p, q \in Payments : payment[p] = "succeeded" /\ payment[q] = "succeeded" => p = q

\* No attempt is written off while its money may still arrive.
FailedMeansUnpaid ==
  \A a \in Attempts : attemptStatus[a] = "failed" =>
    providerId[a] \in Payments /\ payment[providerId[a]] = "failed"

\* The provider and the local row never contradict each other: no reconciler
\* ends in PaymentReconciliationConflict.
NoReconciliationConflict == \A r \in Reconcilers : reconciler[r].answer # "conflict"

\* An attempt, once bound to a hosted payment, is never bound to another, and
\* its terminal status is final.
SettledStaysSettled ==
  [][\A a \in Attempts :
       /\ providerId[a] # NoPayment => providerId'[a] = providerId[a]
       /\ attemptStatus[a] \in {"succeeded", "failed"} => attemptStatus'[a] = attemptStatus[a]]_vars

\* payments/services.py: "Repeated terminal notifications are idempotent when
\* provider and local state agree" - a notification is not answered with an
\* error when the attempt already is what the provider says it is.
AgreeingNotificationsAreIdempotent ==
  \A r \in Reconcilers :
    reconciler[r].at = "answered" /\ reconciler[r].answer = "error" =>
      attemptStatus[reconciler[r].attempt] # reconciler[r].seen

\* A bound attempt follows its payment: once the provider has decided, the
\* attempt ends the same way, though every webhook may be lost.  Two things
\* alone leave it pending: the order was cancelled, or the money arrived after
\* the hold had lapsed.
DecidedPaymentsAreSettled ==
  \A a \in Attempts, p \in Payments, end \in {"succeeded", "failed"} :
    (providerId[a] = p /\ payment[p] = end) ~>
      (\/ attemptStatus[a] = end
       \/ order = "cancelled"
       \/ end = "succeeded" /\ hold = "lapsed")
=============================================================================
