------------------------ MODULE RetailPayment_proofs ------------------------
(***************************************************************************)
(* What module RetailPayment guarantees for every number of attempts,      *)
(* hosted payments, session requests, notifications and command runs.      *)
(***************************************************************************)
EXTENDS RetailPayment, TLAPS

\* The attempt that may still bring money in, or has: pending or succeeded.
Alive(a) == attemptStatus[a] \in {"pending", "succeeded"}

\* At most one attempt of an order is alive, and none succeeds while the
\* order is a draft.
OneAliveAttempt ==
  /\ \A a, b \in Attempts : Alive(a) /\ Alive(b) => a = b
  /\ \A a \in Attempts : attemptStatus[a] = "succeeded" => order # "draft"

\* The customer has the URLs of exactly the payments that attempts are bound
\* to, and no two attempts share one.
BoundPayments ==
  /\ \A a \in Attempts : providerId[a] # NoPayment =>
       /\ attemptStatus[a] # "none"
       /\ providerId[a] \in handedOut /\ payment[providerId[a]] # "none"
  /\ \A p \in handedOut : \E a \in Attempts : providerId[a] = p
  /\ \A a, b \in Attempts : providerId[a] = providerId[b] /\ providerId[a] # NoPayment => a = b
  /\ \A p \in Payments : payment[p] = "succeeded" => p \in handedOut

\* A payment on its way to be bound was created, for nobody else.
UnboundPayments ==
  /\ \A w \in Openers : opener[w].at # "idle" => opener[w].attempt \in Attempts
  /\ \A w \in Openers : opener[w].at = "persisting" =>
       /\ opener[w].payment \in Payments
       /\ opener[w].payment \notin handedOut
       /\ payment[opener[w].payment] # "none"
  /\ \A v, w \in Openers :
       opener[v].at = "persisting" /\ opener[w].at = "persisting"
         /\ opener[v].payment = opener[w].payment => v = w

\* What a reconciler remembers is true for good, if the provider had decided.
RememberedTruth ==
  \A r \in Reconcilers : reconciler[r].at # "idle" =>
    LET a == reconciler[r].attempt
        seen == reconciler[r].seen
    IN  /\ a \in Attempts /\ providerId[a] # NoPayment
        /\ seen \in {"succeeded", "failed"} => payment[providerId[a]] = seen
        /\ reconciler[r].at = "applying" => seen # "none"
        /\ reconciler[r].at = "completing" => seen = "succeeded"
        /\ reconciler[r].at = "failing" => seen = "failed"

IInv ==
  /\ TypeOK
  /\ OneAliveAttempt /\ BoundPayments /\ UnboundPayments /\ RememberedTruth
  /\ PlacedMeansPaid /\ FailedMeansUnpaid

-----------------------------------------------------------------------------
(* Steps that leave the database rows and the provider alone disturb only  *)
(* what openers and reconcilers remember.                                  *)

LEMMA RowsUnchanged ==
  ASSUME IInv, UNCHANGED <<localVars, providerVars>>
  PROVE  /\ OneAliveAttempt' /\ BoundPayments' /\ PlacedMeansPaid' /\ FailedMeansUnpaid'
<1> QED
  BY DEF IInv, localVars, providerVars, OneAliveAttempt, Alive, BoundPayments,
         PlacedMeansPaid, FailedMeansUnpaid

LEMMA OpenersUnchanged ==
  ASSUME IInv, UNCHANGED <<opener, handedOut, payment>>
  PROVE  UnboundPayments'
<1> QED
  BY DEF IInv, UnboundPayments

LEMMA ReconcilersUnchanged ==
  ASSUME IInv, UNCHANGED <<reconciler, providerId, payment>>
  PROVE  RememberedTruth'
<1> QED
  BY DEF IInv, RememberedTruth

-----------------------------------------------------------------------------
(* Starting a payment and opening hosted sessions. *)

LEMMA StartPaymentKeeps ==
  ASSUME IInv, NEW a \in Attempts, StartPayment(a)
  PROVE  IInv'
<1> USE DEF IInv, StartPayment
<1>1. TypeOK'
  BY DEF TypeOK, providerVars
<1>2. OneAliveAttempt'
  BY DEF TypeOK, OneAliveAttempt, Alive, SomePending, Pending
<1>3. BoundPayments'
  BY DEF TypeOK, BoundPayments, providerVars
<1>4. UnboundPayments' /\ RememberedTruth'
  BY OpenersUnchanged, ReconcilersUnchanged DEF providerVars
<1>5. PlacedMeansPaid' /\ FailedMeansUnpaid'
  BY DEF TypeOK, PlacedMeansPaid, FailedMeansUnpaid, providerVars
<1> QED
  BY <1>1, <1>2, <1>3, <1>4, <1>5

LEMMA ReadForSessionKeeps ==
  ASSUME IInv, NEW w \in Openers, NEW a \in Attempts, ReadForSession(w, a)
  PROVE  IInv'
<1> USE DEF IInv, ReadForSession
<1>1. TypeOK'
  BY DEF TypeOK, OpenerState, localVars, providerVars
<1>2. UnboundPayments'
  BY DEF TypeOK, UnboundPayments, providerVars
<1>3. RememberedTruth'
  BY ReconcilersUnchanged DEF localVars, providerVars
<1> QED
  BY RowsUnchanged, <1>1, <1>2, <1>3

LEMMA ProviderCreatesKeeps ==
  ASSUME IInv, NEW w \in Openers, ProviderCreates(w)
  PROVE  IInv'
<1> USE DEF IInv
<1>1. PICK p \in Payments :
        /\ payment[p] = "none"
        /\ payment' = [payment EXCEPT ![p] = "pending"]
        /\ opener' = [opener EXCEPT ![w].at = "persisting", ![w].payment = p]
  BY DEF ProviderCreates
<1>2. UNCHANGED <<order, hold, attemptStatus, providerId, handedOut, reconciler>>
      /\ opener[w].at = "creating"
  BY DEF ProviderCreates, localVars
<1>3. TypeOK'
  BY <1>1, <1>2 DEF TypeOK, OpenerState, External
<1>4. \A a \in Attempts : providerId[a] # p
  BY <1>1, PaymentAssumption DEF TypeOK, BoundPayments
<1>5. p \notin handedOut
  BY <1>1, <1>4 DEF BoundPayments
<1>6. OneAliveAttempt'
  BY <1>2 DEF OneAliveAttempt, Alive
<1>7. BoundPayments'
  BY <1>1, <1>2, <1>4 DEF TypeOK, BoundPayments
<1>8. UnboundPayments'
  BY <1>1, <1>2, <1>5 DEF TypeOK, OpenerState, UnboundPayments
<1>9. RememberedTruth'
  BY <1>1, <1>2, <1>4 DEF TypeOK, RememberedTruth
<1>10. PlacedMeansPaid' /\ FailedMeansUnpaid'
  BY <1>1, <1>2, <1>4 DEF TypeOK, PlacedMeansPaid, FailedMeansUnpaid
<1> QED
  BY <1>3, <1>6, <1>7, <1>8, <1>9, <1>10

LEMMA PersistSessionKeeps ==
  ASSUME IInv, NEW w \in Openers, PersistSession(w)
  PROVE  IInv'
<1> USE DEF IInv
<1> DEFINE a == opener[w].attempt
           p == opener[w].payment
<1>1. /\ a \in Attempts /\ p \in Payments /\ p \notin handedOut /\ payment[p] # "none"
      /\ attemptStatus[a] = "pending" /\ providerId[a] = NoPayment
      /\ opener[w].at = "persisting"
  BY DEF PersistSession, Pending, UnboundPayments
<1>2. /\ providerId' = [providerId EXCEPT ![a] = p]
      /\ handedOut' = handedOut \cup {p}
      /\ opener' = [opener EXCEPT ![w] = IdleOpener]
      /\ UNCHANGED <<order, hold, attemptStatus, payment, reconciler>>
  BY DEF PersistSession
<1>3. IdleOpener \in OpenerState /\ IdleOpener.at = "idle"
  BY DEF IdleOpener, OpenerState
<1>4. p # NoPayment /\ \A b \in Attempts : providerId[b] # p
  BY <1>1, PaymentAssumption DEF BoundPayments
<1>5. payment[p] # "succeeded"
  BY <1>1 DEF BoundPayments
<1> HIDE DEF a, p
<1>6. TypeOK'
  BY <1>1, <1>2, <1>3 DEF TypeOK
<1>7. OneAliveAttempt'
  BY <1>2 DEF OneAliveAttempt, Alive
<1>8. BoundPayments'
  <2>1. \A b \in Attempts : providerId'[b] = IF b = a THEN p ELSE providerId[b]
    BY <1>2 DEF TypeOK
  <2>2. \A q \in handedOut' : \E b \in Attempts : providerId'[b] = q
    BY <1>1, <1>2, <2>1, PaymentAssumption DEF TypeOK, BoundPayments
  <2> QED
    BY <1>1, <1>2, <1>4, <2>1, <2>2 DEF BoundPayments
<1>9. UnboundPayments'
  <2>1. \A v \in Openers : v # w => opener'[v] = opener[v]
    BY <1>2 DEF TypeOK
  <2>2. opener'[w].at = "idle"
    BY <1>2, <1>3 DEF TypeOK
  <2>3. \A v \in Openers : v # w /\ opener[v].at = "persisting" => opener[v].payment # p
    BY <1>1 DEF UnboundPayments, p
  <2> QED
    BY <1>1, <1>2, <2>1, <2>2, <2>3 DEF UnboundPayments
<1>10. RememberedTruth'
  BY <1>1, <1>2, <1>4 DEF TypeOK, RememberedTruth
<1>11. PlacedMeansPaid' /\ FailedMeansUnpaid'
  BY <1>1, <1>2, <1>4 DEF TypeOK, PlacedMeansPaid, FailedMeansUnpaid
<1> QED
  BY <1>6, <1>7, <1>8, <1>9, <1>10, <1>11

LEMMA AbandonSessionKeeps ==
  ASSUME IInv, NEW w \in Openers, AbandonSession(w)
  PROVE  IInv'
<1> USE DEF IInv, AbandonSession
<1>1. TypeOK'
  BY DEF TypeOK, OpenerState, IdleOpener, localVars, providerVars
<1>2. UnboundPayments'
  BY DEF TypeOK, UnboundPayments, IdleOpener, providerVars
<1>3. RememberedTruth'
  BY ReconcilersUnchanged DEF localVars, providerVars
<1> QED
  BY RowsUnchanged, <1>1, <1>2, <1>3

-----------------------------------------------------------------------------
(* The customer, the clock and the staff. *)

LEMMA CustomerPaysKeeps ==
  ASSUME IInv, NEW p \in Payments, CustomerPays(p)
  PROVE  IInv'
<1> USE DEF IInv
<1>1. /\ p \in handedOut /\ payment[p] = "pending"
      /\ payment' = [payment EXCEPT ![p] = "succeeded"]
      /\ UNCHANGED <<order, hold, attemptStatus, providerId, handedOut, opener, reconciler>>
  BY DEF CustomerPays, localVars
<1>2. TypeOK'
  BY <1>1 DEF TypeOK, External
<1>3. OneAliveAttempt' /\ BoundPayments' /\ UnboundPayments'
  BY <1>1 DEF TypeOK, OneAliveAttempt, Alive, BoundPayments, UnboundPayments
<1>4. RememberedTruth'
  BY <1>1 DEF TypeOK, RememberedTruth
<1>5. PlacedMeansPaid' /\ FailedMeansUnpaid'
  BY <1>1 DEF TypeOK, PlacedMeansPaid, FailedMeansUnpaid
<1> QED
  BY <1>2, <1>3, <1>4, <1>5

LEMMA PaymentFailsKeeps ==
  ASSUME IInv, NEW p \in Payments, PaymentFails(p)
  PROVE  IInv'
<1> USE DEF IInv
<1>1. /\ payment[p] = "pending"
      /\ payment' = [payment EXCEPT ![p] = "failed"]
      /\ UNCHANGED <<order, hold, attemptStatus, providerId, handedOut, opener, reconciler>>
  BY DEF PaymentFails, localVars
<1>2. TypeOK'
  BY <1>1 DEF TypeOK, External
<1>3. OneAliveAttempt' /\ BoundPayments' /\ UnboundPayments'
  BY <1>1 DEF TypeOK, OneAliveAttempt, Alive, BoundPayments, UnboundPayments
<1>4. RememberedTruth'
  BY <1>1 DEF TypeOK, RememberedTruth
<1>5. PlacedMeansPaid' /\ FailedMeansUnpaid'
  BY <1>1 DEF TypeOK, PlacedMeansPaid, FailedMeansUnpaid
<1> QED
  BY <1>2, <1>3, <1>4, <1>5

LEMMA HoldLapsesKeeps ==
  ASSUME IInv, HoldLapses
  PROVE  IInv'
<1> USE DEF IInv, HoldLapses
<1>1. TypeOK'
  BY DEF TypeOK, providerVars
<1>2. OneAliveAttempt' /\ BoundPayments'
  BY DEF OneAliveAttempt, Alive, BoundPayments, providerVars
<1>3. UnboundPayments' /\ RememberedTruth'
  BY OpenersUnchanged, ReconcilersUnchanged DEF providerVars
<1>4. PlacedMeansPaid' /\ FailedMeansUnpaid'
  BY DEF PlacedMeansPaid, FailedMeansUnpaid, providerVars
<1> QED
  BY <1>1, <1>2, <1>3, <1>4

LEMMA CancelOrderKeeps ==
  ASSUME IInv, CancelOrder
  PROVE  IInv'
<1> USE DEF IInv, CancelOrder
<1>1. TypeOK'
  BY DEF TypeOK, providerVars
<1>2. OneAliveAttempt' /\ BoundPayments'
  BY DEF OneAliveAttempt, Alive, BoundPayments, providerVars
<1>3. UnboundPayments' /\ RememberedTruth'
  BY OpenersUnchanged, ReconcilersUnchanged DEF providerVars
<1>4. PlacedMeansPaid' /\ FailedMeansUnpaid'
  BY DEF PlacedMeansPaid, FailedMeansUnpaid, providerVars
<1> QED
  BY <1>1, <1>2, <1>3, <1>4

-----------------------------------------------------------------------------
(* Reconcilers that change no row. *)

LEMMA BeginReconcileKeeps ==
  ASSUME IInv, NEW r \in Reconcilers, NEW a \in Attempts, BeginReconcile(r, a)
  PROVE  IInv'
<1> USE DEF IInv, BeginReconcile
<1>1. TypeOK'
  BY DEF TypeOK, ReconcilerState, External, localVars, providerVars
<1>2. UnboundPayments'
  BY OpenersUnchanged DEF providerVars
<1>3. RememberedTruth'
  BY DEF TypeOK, RememberedTruth, localVars, providerVars
<1> QED
  BY RowsUnchanged, <1>1, <1>2, <1>3

LEMMA AskProviderKeeps ==
  ASSUME IInv, NEW r \in Reconcilers, AskProvider(r)
  PROVE  IInv'
<1> USE DEF IInv, AskProvider
<1>1. /\ reconciler[r].attempt \in Attempts
      /\ providerId[reconciler[r].attempt] \in Payments
      /\ payment[providerId[reconciler[r].attempt]] \in External \ {"none"}
  BY DEF TypeOK, RememberedTruth, BoundPayments
<1>2. TypeOK'
  BY <1>1 DEF TypeOK, ReconcilerState, localVars, providerVars
<1>3. UnboundPayments'
  BY OpenersUnchanged DEF providerVars
<1>4. RememberedTruth'
  BY <1>1 DEF TypeOK, ReconcilerState, RememberedTruth, localVars, providerVars
<1> QED
  BY RowsUnchanged, <1>2, <1>3, <1>4

\* Answering, whatever the result, keeps IInv.
LEMMA AnswerKeeps ==
  ASSUME IInv, UNCHANGED <<localVars, providerVars, opener>>,
         NEW r \in Reconcilers, reconciler[r].at # "idle",
         NEW result \in {"ok", "conflict", "error"}, Answer(r, result)
  PROVE  IInv'
<1>1. TypeOK'
  BY DEF Answer, IInv, TypeOK, ReconcilerState, localVars, providerVars
<1>2. UnboundPayments'
  BY OpenersUnchanged DEF providerVars
<1>3. RememberedTruth'
  BY DEF Answer, IInv, TypeOK, ReconcilerState, RememberedTruth, localVars, providerVars
<1> QED
  BY RowsUnchanged, <1>1, <1>2, <1>3 DEF IInv

\* Going on to settle an attempt keeps IInv when it is what the provider said.
LEMMA MoveKeeps ==
  ASSUME IInv, UNCHANGED <<localVars, providerVars, opener>>,
         NEW r \in Reconcilers, reconciler[r].at # "idle",
         NEW step \in {"completing", "failing"}, Move(r, step),
         reconciler[r].seen = IF step = "completing" THEN "succeeded" ELSE "failed"
  PROVE  IInv'
<1>1. TypeOK'
  BY DEF Move, IInv, TypeOK, ReconcilerState, localVars, providerVars
<1>2. UnboundPayments'
  BY OpenersUnchanged DEF providerVars
<1>3. RememberedTruth'
  BY DEF Move, IInv, TypeOK, ReconcilerState, RememberedTruth, localVars, providerVars
<1> QED
  BY RowsUnchanged, <1>1, <1>2, <1>3 DEF IInv

LEMMA ApplyReconciliationKeeps ==
  ASSUME IInv, NEW r \in Reconcilers, ApplyReconciliation(r)
  PROVE  IInv'
<1>1. UNCHANGED <<localVars, providerVars, opener>> /\ reconciler[r].at # "idle"
  BY DEF ApplyReconciliation
<1>2. CASE Answer(r, "ok")
  BY <1>1, <1>2, AnswerKeeps
<1>3. CASE Answer(r, "conflict")
  BY <1>1, <1>3, AnswerKeeps
<1>4. CASE reconciler[r].seen = "succeeded" /\ Move(r, "completing")
  BY <1>1, <1>4, MoveKeeps
<1>5. CASE reconciler[r].seen = "failed" /\ Move(r, "failing")
  BY <1>1, <1>5, MoveKeeps
<1> QED
  BY <1>2, <1>3, <1>4, <1>5 DEF ApplyReconciliation

LEMMA ErrorAnswersKeep ==
  ASSUME IInv, NEW r \in Reconcilers,
         ProviderUnavailable(r) \/ RefuseCompletion(r) \/ RefuseFailure(r)
  PROVE  IInv'
<1>1. UNCHANGED <<localVars, providerVars, opener>> /\ reconciler[r].at # "idle"
      /\ Answer(r, "error")
  BY DEF ProviderUnavailable, RefuseCompletion, RefuseFailure
<1> QED
  BY <1>1, AnswerKeeps

LEMMA LeavingKeeps ==
  ASSUME IInv, NEW r \in Reconcilers, TakeAnswer(r) \/ ListenerDies(r)
  PROVE  IInv'
<1>1. /\ UNCHANGED <<localVars, providerVars, opener>>
      /\ reconciler' = [reconciler EXCEPT ![r] = IdleReconciler]
  BY DEF TakeAnswer, ListenerDies
<1>2. TypeOK'
  BY <1>1 DEF IInv, TypeOK, ReconcilerState, External, IdleReconciler, localVars, providerVars
<1>3. UnboundPayments'
  BY <1>1, OpenersUnchanged DEF providerVars
<1>4. RememberedTruth'
  BY <1>1 DEF IInv, TypeOK, RememberedTruth, IdleReconciler, localVars, providerVars
<1> QED
  BY <1>1, <1>2, <1>3, <1>4, RowsUnchanged DEF IInv

-----------------------------------------------------------------------------
(* Settling an attempt. *)

LEMMA CompletePaymentKeeps ==
  ASSUME IInv, NEW r \in Reconcilers, CompletePayment(r)
  PROVE  IInv'
<1> DEFINE a == reconciler[r].attempt
<1>1. /\ reconciler[r].at = "completing" /\ attemptStatus[a] = "pending" /\ order = "draft"
      /\ order' = "placed" /\ hold' = "permanent"
      /\ attemptStatus' = [attemptStatus EXCEPT ![a] = "succeeded"]
      /\ Answer(r, "ok")
      /\ UNCHANGED <<providerId, payment, handedOut, opener>>
  BY DEF CompletePayment, Pending, providerVars
<1>2. /\ a \in Attempts /\ providerId[a] \in Payments
      /\ payment[providerId[a]] = "succeeded"
  BY <1>1 DEF IInv, TypeOK, RememberedTruth
<1> HIDE DEF a
<1>3. TypeOK'
  <2>1. reconciler' \in [Reconcilers -> ReconcilerState]
    BY <1>1 DEF Answer, IInv, TypeOK, ReconcilerState
  <2>2. attemptStatus' \in [Attempts -> {"none", "pending", "succeeded", "failed"}]
    BY <1>1 DEF IInv, TypeOK
  <2> QED
    BY <1>1, <2>1, <2>2 DEF IInv, TypeOK
<1>4. \A b \in Attempts : attemptStatus[b] # "succeeded"
  BY <1>1 DEF IInv, OneAliveAttempt
<1>5. OneAliveAttempt'
  BY <1>1, <1>2, <1>4 DEF IInv, TypeOK, OneAliveAttempt, Alive
<1>6. BoundPayments' /\ UnboundPayments'
  BY <1>1, <1>2 DEF IInv, TypeOK, BoundPayments, UnboundPayments
<1>7. RememberedTruth'
  BY <1>1 DEF Answer, IInv, TypeOK, ReconcilerState, RememberedTruth
<1>8. PlacedMeansPaid'
  BY <1>1, <1>2, <1>4 DEF IInv, TypeOK, PlacedMeansPaid
<1>9. FailedMeansUnpaid'
  BY <1>1, <1>2 DEF IInv, TypeOK, FailedMeansUnpaid
<1> QED
  BY <1>3, <1>5, <1>6, <1>7, <1>8, <1>9 DEF IInv

LEMMA FailPaymentKeeps ==
  ASSUME IInv, NEW r \in Reconcilers, FailPayment(r)
  PROVE  IInv'
<1> DEFINE a == reconciler[r].attempt
<1>1. /\ reconciler[r].at = "failing" /\ attemptStatus[a] = "pending" /\ order = "draft"
      /\ hold' = "none"
      /\ attemptStatus' = [attemptStatus EXCEPT ![a] = "failed"]
      /\ Answer(r, "ok")
      /\ UNCHANGED <<order, providerId, payment, handedOut, opener>>
  BY DEF FailPayment, Pending, providerVars
<1>2. /\ a \in Attempts /\ providerId[a] \in Payments
      /\ payment[providerId[a]] = "failed"
  BY <1>1 DEF IInv, TypeOK, RememberedTruth
<1> HIDE DEF a
<1>3. TypeOK'
  <2>1. reconciler' \in [Reconcilers -> ReconcilerState]
    BY <1>1 DEF Answer, IInv, TypeOK, ReconcilerState
  <2>2. attemptStatus' \in [Attempts -> {"none", "pending", "succeeded", "failed"}]
    BY <1>1 DEF IInv, TypeOK
  <2> QED
    BY <1>1, <2>1, <2>2 DEF IInv, TypeOK
<1>4. OneAliveAttempt'
  BY <1>1, <1>2 DEF IInv, TypeOK, OneAliveAttempt, Alive
<1>5. BoundPayments' /\ UnboundPayments'
  BY <1>1, <1>2 DEF IInv, TypeOK, BoundPayments, UnboundPayments
<1>6. RememberedTruth'
  BY <1>1 DEF Answer, IInv, TypeOK, ReconcilerState, RememberedTruth
<1>7. PlacedMeansPaid' /\ FailedMeansUnpaid'
  BY <1>1, <1>2 DEF IInv, TypeOK, PlacedMeansPaid, FailedMeansUnpaid
<1> QED
  BY <1>3, <1>4, <1>5, <1>6, <1>7 DEF IInv

-----------------------------------------------------------------------------
(* The inductive invariant, and what follows from it. *)

LEMMA InitEstablishes == Init => IInv
<1> SUFFICES ASSUME Init PROVE IInv
  OBVIOUS
<1>1. TypeOK
  BY DEF Init, TypeOK, External, OpenerState, IdleOpener, ReconcilerState, IdleReconciler
<1>2. OneAliveAttempt /\ BoundPayments
  BY DEF Init, OneAliveAttempt, Alive, BoundPayments
<1>3. UnboundPayments /\ RememberedTruth
  BY DEF Init, UnboundPayments, RememberedTruth, IdleOpener, IdleReconciler
<1>4. PlacedMeansPaid /\ FailedMeansUnpaid
  BY DEF Init, PlacedMeansPaid, FailedMeansUnpaid
<1> QED
  BY <1>1, <1>2, <1>3, <1>4 DEF IInv

LEMMA StepKeeps == IInv /\ [Next]_vars => IInv'
<1> SUFFICES ASSUME IInv, [Next]_vars PROVE IInv'
  OBVIOUS
<1>1. CASE \E a \in Attempts : StartPayment(a)
  BY <1>1, StartPaymentKeeps
<1>2. CASE \E w \in Openers : OpenerStep(w)
  BY <1>2, ReadForSessionKeeps, ProviderCreatesKeeps, PersistSessionKeeps, AbandonSessionKeeps
     DEF OpenerStep
<1>3. ASSUME NEW r \in Reconcilers, ReconcilerStep(r) PROVE IInv'
  <2>1. CASE ReconcilerProceeds(r)
    BY <2>1, BeginReconcileKeeps, ApplyReconciliationKeeps, CompletePaymentKeeps,
       FailPaymentKeeps, ErrorAnswersKeep, LeavingKeeps DEF ReconcilerProceeds
  <2>2. CASE AskProvider(r) \/ ProviderUnavailable(r) \/ ListenerDies(r)
    BY <2>2, AskProviderKeeps, ErrorAnswersKeep, LeavingKeeps
  <2> QED
    BY <1>3, <2>1, <2>2 DEF ReconcilerStep
<1>4. CASE OutsideStep
  BY <1>4, CustomerPaysKeeps, PaymentFailsKeeps, HoldLapsesKeeps, CancelOrderKeeps
     DEF OutsideStep
<1>5. CASE UNCHANGED vars
  <2>1. UNCHANGED <<order, hold, attemptStatus, providerId, payment, handedOut,
                    opener, reconciler>>
    BY <1>5 DEF vars, localVars, providerVars
  <2>2. TypeOK'
    BY <2>1 DEF IInv, TypeOK
  <2> QED
    BY <2>1, <2>2, RowsUnchanged, OpenersUnchanged, ReconcilersUnchanged
       DEF IInv, localVars, providerVars
<1> QED
  BY <1>1, <1>2, <1>3, <1>4, <1>5 DEF Next

LEMMA InvariantHolds == Spec => []IInv
<1> QED
  BY InitEstablishes, StepKeeps, PTL DEF Spec

\* Every variable keeps its type; a reconciler never asks the provider about
\* an attempt that has no hosted payment.
THEOREM TypeCorrect == Spec => []TypeOK
<1>1. IInv => TypeOK
  BY DEF IInv
<1> QED
  BY <1>1, InvariantHolds, PTL

\* An order of the retail shop is placed only against money the provider
\* reports, whichever of webhook, return and command settled it.
THEOREM PlacedOrdersArePaid == Spec => []PlacedMeansPaid
<1>1. IInv => PlacedMeansPaid
  BY DEF IInv
<1> QED
  BY <1>1, InvariantHolds, PTL

\* No attempt is written off while its money may still arrive.
THEOREM FailedAttemptsAreUnpaid == Spec => []FailedMeansUnpaid
<1>1. IInv => FailedMeansUnpaid
  BY DEF IInv
<1> QED
  BY <1>1, InvariantHolds, PTL

\* No money is lost track of: a hosted payment whose URL the customer has is
\* bound to exactly one attempt, which is alive if the payment has been paid.
THEOREM NoMoneyIsLost == Spec => []MoneyIsAccountedFor
<1>1. IInv => MoneyIsAccountedFor
  <2> SUFFICES ASSUME IInv, NEW p \in handedOut
               PROVE  \E a \in Attempts :
                        /\ \A b \in Attempts : (providerId[b] = p) = (b = a)
                        /\ payment[p] = "succeeded" =>
                             attemptStatus[a] \in {"pending", "succeeded"}
    BY DEF MoneyIsAccountedFor
  <2>1. PICK a \in Attempts : providerId[a] = p
    BY DEF IInv, BoundPayments
  <2>2. p # NoPayment
    BY PaymentAssumption DEF IInv, TypeOK
  <2>3. \A b \in Attempts : (providerId[b] = p) = (b = a)
    BY <2>1, <2>2 DEF IInv, BoundPayments
  <2>4. payment[p] = "succeeded" => attemptStatus[a] \in {"pending", "succeeded"}
    BY <2>1, <2>2 DEF IInv, TypeOK, BoundPayments, FailedMeansUnpaid
  <2> QED
    BY <2>1, <2>3, <2>4
<1> QED
  BY <1>1, InvariantHolds, PTL

\* The customer is charged at most once: two paid payments would be bound to
\* two attempts, both still alive because a failed attempt's payment failed.
THEOREM NoDoubleCharge == Spec => []ChargedAtMostOnce
<1>1. IInv => ChargedAtMostOnce
  <2> SUFFICES ASSUME IInv, NEW p \in Payments, NEW q \in Payments,
                      payment[p] = "succeeded", payment[q] = "succeeded"
               PROVE  p = q
    BY DEF ChargedAtMostOnce
  <2>1. PICK a \in Attempts : providerId[a] = p
    BY DEF IInv, BoundPayments
  <2>2. PICK b \in Attempts : providerId[b] = q
    BY DEF IInv, BoundPayments
  <2>3. Alive(a) /\ Alive(b)
    BY <2>1, <2>2, PaymentAssumption DEF IInv, TypeOK, BoundPayments, FailedMeansUnpaid, Alive
  <2> QED
    BY <2>1, <2>2, <2>3 DEF IInv, OneAliveAttempt
<1> QED
  BY <1>1, InvariantHolds, PTL

\* The provider and the local rows never contradict each other: what a
\* reconciler was told of a decided payment still holds when it compares.
THEOREM NoConflict == Spec => []NoReconciliationConflict
<1>1. Init => NoReconciliationConflict
  BY DEF Init, NoReconciliationConflict, IdleReconciler
<1>2. IInv /\ NoReconciliationConflict /\ [Next]_vars => NoReconciliationConflict'
  <2> SUFFICES ASSUME IInv, NoReconciliationConflict, [Next]_vars
               PROVE  NoReconciliationConflict'
    OBVIOUS
  <2>1. ASSUME NEW r \in Reconcilers, ApplyReconciliation(r)
        PROVE  NoReconciliationConflict'
    <3>1. PICK a \in Attempts : a = reconciler[r].attempt
      BY <2>1 DEF ApplyReconciliation, IInv, RememberedTruth
    <3>2. attemptStatus[a] # "none" /\ providerId[a] # NoPayment
      BY <2>1, <3>1 DEF ApplyReconciliation, IInv, RememberedTruth, BoundPayments
    <3>3. attemptStatus[a] \in {"succeeded", "failed"} =>
            payment[providerId[a]] = attemptStatus[a]
      BY DEF IInv, PlacedMeansPaid, FailedMeansUnpaid
    <3>4. reconciler[r].seen \in {"pending", "succeeded", "failed"}
      BY <2>1 DEF ApplyReconciliation, IInv, TypeOK, ReconcilerState, RememberedTruth, External
    <3>5. attemptStatus[a] \in {"none", "pending", "succeeded", "failed"}
      BY DEF IInv, TypeOK
    <3>6. reconciler[r].seen \notin {"pending", attemptStatus[a]} =>
            attemptStatus[a] = "pending"
      BY <2>1, <3>1, <3>2, <3>3, <3>4, <3>5 DEF ApplyReconciliation, IInv, RememberedTruth
    <3>7. Answer(r, "ok") \/ Move(r, "completing") \/ Move(r, "failing")
      BY <2>1, <3>1, <3>6 DEF ApplyReconciliation
    <3> QED
      BY <3>7 DEF Answer, Move, NoReconciliationConflict, IInv, TypeOK, ReconcilerState
  <2>2. ASSUME NEW r \in Reconcilers, Answer(r, "ok") \/ Answer(r, "error")
        PROVE  NoReconciliationConflict'
    BY <2>2 DEF Answer, NoReconciliationConflict, IInv, TypeOK, ReconcilerState
  <2>3. ASSUME NEW r \in Reconcilers,
               AskProvider(r) \/ TakeAnswer(r) \/ ListenerDies(r)
                 \/ \E a \in Attempts : BeginReconcile(r, a)
        PROVE  NoReconciliationConflict'
    BY <2>3 DEF AskProvider, TakeAnswer, ListenerDies, BeginReconcile, IdleReconciler,
                NoReconciliationConflict, IInv, TypeOK, ReconcilerState
  <2>4. CASE UNCHANGED reconciler
    BY <2>4 DEF NoReconciliationConflict
  <2>5. ASSUME NEW r \in Reconcilers, ReconcilerStep(r) PROVE NoReconciliationConflict'
    BY <2>5, <2>1, <2>2, <2>3
       DEF ReconcilerStep, ReconcilerProceeds, CompletePayment, RefuseCompletion, FailPayment,
           RefuseFailure, ProviderUnavailable
  <2>6. CASE \E a \in Attempts : StartPayment(a)
    BY <2>4, <2>6 DEF StartPayment
  <2>7. CASE \E w \in Openers : OpenerStep(w)
    BY <2>4, <2>7 DEF OpenerStep, ReadForSession, ProviderCreates, PersistSession, AbandonSession
  <2>8. CASE OutsideStep
    BY <2>4, <2>8 DEF OutsideStep, CustomerPays, PaymentFails, HoldLapses, CancelOrder
  <2>9. CASE UNCHANGED vars
    BY <2>4, <2>9 DEF vars
  <2> QED
    BY <2>5, <2>6, <2>7, <2>8, <2>9 DEF Next
<1> QED
  BY <1>1, <1>2, InvariantHolds, PTL DEF Spec

\* The bond of an attempt with its payment and its terminal status are final.
THEOREM SettledIsFinal == Spec => SettledStaysSettled
<1>1. IInv /\ [Next]_vars =>
        [\A a \in Attempts :
           /\ providerId[a] # NoPayment => providerId'[a] = providerId[a]
           /\ attemptStatus[a] \in {"succeeded", "failed"} =>
                attemptStatus'[a] = attemptStatus[a]]_vars
  <2> SUFFICES ASSUME IInv, [Next]_vars, NEW a \in Attempts
               PROVE  /\ providerId[a] # NoPayment => providerId'[a] = providerId[a]
                      /\ attemptStatus[a] \in {"succeeded", "failed"} =>
                           attemptStatus'[a] = attemptStatus[a]
    OBVIOUS
  <2>1. ASSUME NEW b \in Attempts, StartPayment(b)
        PROVE  /\ providerId[a] # NoPayment => providerId'[a] = providerId[a]
               /\ attemptStatus[a] \in {"succeeded", "failed"} =>
                    attemptStatus'[a] = attemptStatus[a]
    BY <2>1 DEF StartPayment, IInv, TypeOK
  <2>2. ASSUME NEW w \in Openers, PersistSession(w)
        PROVE  /\ providerId[a] # NoPayment => providerId'[a] = providerId[a]
               /\ attemptStatus[a] \in {"succeeded", "failed"} =>
                    attemptStatus'[a] = attemptStatus[a]
    BY <2>2 DEF PersistSession, IInv, TypeOK
  <2>3. ASSUME NEW r \in Reconcilers, CompletePayment(r) \/ FailPayment(r)
        PROVE  /\ providerId[a] # NoPayment => providerId'[a] = providerId[a]
               /\ attemptStatus[a] \in {"succeeded", "failed"} =>
                    attemptStatus'[a] = attemptStatus[a]
    BY <2>3 DEF CompletePayment, FailPayment, Pending, IInv, TypeOK
  <2>4. CASE UNCHANGED <<providerId, attemptStatus>>
    BY <2>4
  <2> QED
    BY <2>1, <2>2, <2>3, <2>4
       DEF Next, OpenerStep, ReconcilerStep, ReconcilerProceeds, OutsideStep, vars, localVars,
           ReadForSession, ProviderCreates, AbandonSession, BeginReconcile, AskProvider,
           ProviderUnavailable, ApplyReconciliation, RefuseCompletion, RefuseFailure,
           TakeAnswer, ListenerDies, CustomerPays, PaymentFails, HoldLapses, CancelOrder
<1> QED
  BY <1>1, InvariantHolds, PTL DEF Spec, SettledStaysSettled
=============================================================================
