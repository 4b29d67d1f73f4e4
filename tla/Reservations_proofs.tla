------------------------ MODULE Reservations_proofs ------------------------
(***************************************************************************)
(* What module Reservations guarantees for any number of orders, lines and *)
(* batches, any pools and any quantities.  Whatever the clock does: types, *)
(* idle orders own nothing, placed and paying orders own exactly their     *)
(* lines, stock leaves in expiry order, and only the completion of a       *)
(* payment whose hold lapsed while it ran can overbook a batch.  As long   *)
(* as payment holds outlive the transactions that confirm them: stock is   *)
(* never oversold, closed batches back nothing, placed orders can be       *)
(* packed, and every step is one of StockLedger or none.                   *)
(***************************************************************************)
EXTENDS Reservations, FefoPlan_proofs

\* Only retail orders are ever paid for through an attempt.
OnlyRetailPays == \A o \in Orders : attempt[o] # "none" => o \in Retail

\* A placed order's allocations count against availability for good.
PlacedOrdersReserve == \A o \in Orders : status[o] = "placed" => hold[o] = "permanent"

\* A completion transaction runs on a retail draft, whose hold it found live.
ConfirmingOrdersAreDrafts ==
  \A o \in confirming : o \in Retail /\ status[o] = "draft"
ConfirmingHoldsAreLive == \A o \in confirming : hold[o] = "live"

AbsentBatchesAreEmpty == \A b \in Batches : batchStatus[b] = "absent" => quantity[b] = 0

StockIsKept == HoldsOutliveConfirmation => ConfirmingHoldsAreLive /\ NoOversell

IInv ==
  /\ TypeOK /\ OnlyRetailPays /\ PlacedOrdersReserve /\ ConfirmingOrdersAreDrafts
  /\ AbsentBatchesAreEmpty /\ IdleOrdersHoldNothing /\ StockIsKept

-----------------------------------------------------------------------------
(* Totals over order lines. *)

LEMMA FiniteLines ==
  ASSUME NEW S \in SUBSET Lines
  PROVE  IsFiniteSet(S)
<1> QED
  BY ReservationsAssumption, FS_Subset

LEMMA ReservedType ==
  ASSUME TypeOK, NEW b \in Batches
  PROVE  Reserved(b) \in Nat
<1>1. ReservedLines \in SUBSET Lines
  BY DEF ReservedLines
<1>2. \A l \in ReservedLines : [k \in Lines |-> allocated[k][b]][l] \in Nat
  BY <1>1, ReservationsAssumption DEF TypeOK, Quantity
<1> QED
  BY <1>1, <1>2, FiniteLines, TotalType DEF Reserved

LEMMA PickedType ==
  ASSUME TypeOK, NEW o \in Orders, NEW b \in Batches
  PROVE  PickedFrom(o, b) \in Nat
<1>1. LinesOf(o) \in SUBSET Lines
  BY DEF LinesOf
<1>2. \A l \in Lines : [k \in Lines |-> allocated[k][b]][l] \in Nat
  BY ReservationsAssumption DEF TypeOK, Quantity
<1>3. IsFiniteSet(LinesOf(o)) /\ \A l \in LinesOf(o) : l \in Lines
  BY <1>1, FiniteLines
<1> QED
  BY <1>2, <1>3, TotalType DEF PickedFrom

LEMMA ReservedTypeNext ==
  ASSUME TypeOK', NEW b \in Batches
  PROVE  Reserved(b)' \in Nat
<1>1. ReservedLines' \in SUBSET Lines
  BY DEF ReservedLines
<1>2. \A l \in Lines : [k \in Lines |-> allocated'[k][b]][l] \in Nat
  BY ReservationsAssumption DEF TypeOK, Quantity
<1>3. IsFiniteSet(ReservedLines') /\ \A l \in ReservedLines' : l \in Lines
  BY <1>1, FiniteLines
<1> QED
  BY <1>2, <1>3, TotalType DEF Reserved

\* If no more lines count, and those that do own no more, less is reserved.
LEMMA ReservedShrinks ==
  ASSUME TypeOK, TypeOK', NEW b \in Batches, ReservedLines' \subseteq ReservedLines,
         \A l \in ReservedLines' : allocated'[l][b] = allocated[l][b]
  PROVE  Reserved(b)' <= Reserved(b)
<1> DEFINE f == [l \in Lines |-> allocated'[l][b]]
           g == [l \in Lines |-> allocated[l][b]]
<1>1. ReservedLines \in SUBSET Lines
  BY DEF ReservedLines
<1>2. \A l \in Lines : f[l] \in Nat /\ g[l] \in Nat
  BY ReservationsAssumption DEF TypeOK, Quantity
<1>3. \A l \in ReservedLines' : f[l] <= g[l]
  BY <1>1, <1>2
<1> HIDE DEF f, g
<1>4. Total(f, ReservedLines') <= Total(g, ReservedLines)
  BY <1>1, <1>2, <1>3, FiniteLines, TotalMonotone
<1> QED
  BY <1>4 DEF Reserved, f, g

-----------------------------------------------------------------------------
(* The heart of the matter: a plan made line by line under the batch locks *)
(* never promises more than there is, when the order starts from nothing;  *)
(* and of a batch that is overbooked already it promises nothing.          *)

\* Promising `total` units of b in all is within its stock, or adds nothing.
NoNewOverbooking(b, total) == total <= quantity[b] \/ total <= Reserved(b)

LEMMA PlansFitTheStock ==
  ASSUME TypeOK, NEW o \in Orders, NEW wanted,
         NEW kept \in [Lines -> [Batches -> Quantity]],
         NEW plan \in [LinesOf(o) -> [Batches -> Quantity]],
         IsOrderPlan(o, wanted, kept, plan),
         NEW b \in Batches,
         \A l \in Lines : kept[l][b] = IF OrderOf[l] = o THEN 0 ELSE allocated[l][b]
  PROVE  NoNewOverbooking(b, Total([k \in Lines |->
                                      IF OrderOf[k] = o THEN kept[k][b] + plan[k][b]
                                      ELSE kept[k][b]],
                                   ReservedLines \cup LinesOf(o)))
<1> DEFINE f == [k \in Lines |-> IF OrderOf[k] = o THEN kept[k][b] + plan[k][b]
                                 ELSE kept[k][b]]
           S == ReservedLines \cup LinesOf(o)
           taking == {l \in LinesOf(o) : plan[l][b] > 0}
<1>1. /\ ReservedLines \in SUBSET Lines /\ LinesOf(o) \in SUBSET Lines
      /\ S \in SUBSET Lines /\ taking \in SUBSET Lines
  BY DEF ReservedLines, LinesOf
<1>2. \A l \in LinesOf(o) : l \in Lines /\ OrderOf[l] = o /\ plan[l][b] \in Nat
  BY ReservationsAssumption DEF LinesOf, Quantity
<1>3. \A l \in Lines : kept[l][b] \in Nat /\ allocated[l][b] \in Nat
  BY ReservationsAssumption DEF TypeOK, Quantity
<1>4. \A l \in Lines : OrderOf[l] = o => l \in LinesOf(o)
  BY DEF LinesOf
<1>5. \A l \in Lines : f[l] \in Nat
  BY <1>2, <1>3, <1>4
<1>6. quantity[b] \in Nat
  BY ReservationsAssumption DEF TypeOK, Quantity
<1>7. CASE taking = {}
  <2> DEFINE others == ReservedLines \ LinesOf(o)
             a == [l \in Lines |-> allocated[l][b]]
  <2>1. \A l \in LinesOf(o) : f[l] = 0
    BY <1>2, <1>7
  <2>2. \A l \in others : f[l] = a[l] /\ l \in Lines
    BY <1>1, <1>4
  <2>3. \A l \in ReservedLines : a[l] \in Nat
    BY <1>1, <1>3
  <2> HIDE DEF f, a
  <2>4. IsFiniteSet(others) /\ IsFiniteSet(LinesOf(o)) /\ IsFiniteSet(ReservedLines)
    BY <1>1, FiniteLines
  <2>5. Total(f, others \cup LinesOf(o)) = Total(f, others) + Total(f, LinesOf(o))
    BY <1>1, <1>5, <2>4, TotalUnion
  <2>6. Total(f, LinesOf(o)) = 0
    BY <2>1, TotalZero
  <2>7. Total(f, others) <= Total(a, ReservedLines)
    BY <1>5, <2>2, <2>3, <2>4, TotalMonotone
  <2>8. Total(f, S) = Total(f, others \cup LinesOf(o))
    <3>1. S = others \cup LinesOf(o)
      OBVIOUS
    <3> QED
      BY <3>1, Zenon
  <2>9. Total(f, others) \in Nat /\ Total(a, ReservedLines) \in Nat
    BY <1>5, <2>2, <2>3, <2>4, TotalType
  <2>10. Total(a, ReservedLines) = Reserved(b)
    BY DEF Reserved, a
  <2> HIDE DEF S, others
  <2>11. Total(f, S) <= Reserved(b)
    BY <2>5, <2>6, <2>7, <2>8, <2>9, <2>10
  <2> QED
    BY <2>11, Zenon DEF f, S, NoNewOverbooking
<1>8. CASE taking # {}
  <2>1. PICK m \in taking : \A l \in taking : l <= m
    BY <1>1, <1>8, FiniteLines, GreatestMember, ReservationsAssumption
  <2> DEFINE g == [k \in Lines |-> IF OrderOf[k] = o /\ k < m THEN kept[k][b] + plan[k][b]
                                   ELSE kept[k][b]]
             n == plan[m][b]
             before == ReservedBefore(m, kept, plan, b)
  <2>2. m \in LinesOf(o) /\ m \in S /\ m \in Lines /\ OrderOf[m] = o /\ n \in Nat /\ n > 0
    BY <1>2
  <2>3. before = Total(g, S)
    BY <2>2 DEF ReservedBefore
  <2>4. \A l \in Lines : g[l] \in Nat
    BY <1>2, <1>3, <1>4
  <2>5. before \in Nat
    BY <1>1, <2>3, <2>4, FiniteLines, TotalType
  <2>6. f[m] = g[m] + n
    BY <1>3, <2>2, ReservationsAssumption
  <2>7. \A l \in S \ {m} : f[l] = g[l]
    <3> SUFFICES ASSUME NEW l \in S, l # m PROVE f[l] = g[l]
      OBVIOUS
    <3>1. CASE OrderOf[l] # o
      BY <3>1, <1>1
    <3>2. CASE OrderOf[l] = o /\ l < m
      BY <3>2, <1>1
    <3>3. CASE OrderOf[l] = o /\ ~(l < m)
      <4>1. l \in LinesOf(o) /\ l \in Nat /\ m \in Nat
        BY <3>3, <1>1, <1>4, <2>2, ReservationsAssumption
      <4>2. plan[l][b] > 0 => l <= m
        BY <4>1, <2>1
      <4>3. plan[l][b] = 0
        BY <4>1, <4>2, <3>3, <1>2
      <4> QED
        BY <4>1, <4>3, <3>3, <1>1, <1>3
    <3> QED
      BY <3>1, <3>2, <3>3
  <2>8. IsFefoPlan(plan[m], OrderablePool(m),
                   [c \in Batches |-> Allocatable(quantity[c], ReservedBefore(m, kept, plan, c))],
                   wanted[m], Earlier)
    <3>1. plan[m] # NoPicks
      BY <2>2 DEF NoPicks
    <3> QED
      BY <2>2, <3>1 DEF IsOrderPlan
  <2>9. b \in OrderablePool(m)
    BY <2>2, <2>8 DEF IsFefoPlan
  <2>10. n <= Allocatable(quantity[b], before)
    BY <2>8, <2>9 DEF IsFefoPlan
  <2>11. before + n <= quantity[b]
    BY <1>6, <2>2, <2>5, <2>10 DEF Allocatable
  <2> HIDE DEF f, g, S, n, before
  <2>12. IsFiniteSet(S) /\ \A l \in S : g[l] \in Nat
    BY <1>1, <2>4, FiniteLines
  <2>13. Total(f, S) = Total(g, S) + n
    BY <2>2, <2>6, <2>7, <2>12, TotalOneMore
  <2>14. Total(f, S) <= quantity[b]
    BY <2>3, <2>11, <2>13
  <2> QED
    BY <2>14, Zenon DEF f, S, NoNewOverbooking
<1> QED
  BY <1>7, <1>8

-----------------------------------------------------------------------------
(* Releasing and reserving. *)

LEMMA ReleasedValue ==
  ASSUME TypeOK, NEW o \in Orders
  PROVE  /\ Released(o) \in [Lines -> [Batches -> Quantity]]
         /\ \A l \in Lines : Released(o)[l] = IF OrderOf[l] = o THEN NoPicks ELSE allocated[l]
<1>1. NoPicks \in [Batches -> Quantity]
  BY ReservationsAssumption DEF NoPicks, Quantity
<1> QED
  BY <1>1 DEF Released, TypeOK

LEMMA ReleaseGivesBack ==
  ASSUME TypeOK, NEW o \in Orders, Release(o)
  PROVE  /\ allocated' \in [Lines -> [Batches -> Quantity]] /\ hold' \in [Orders -> Hold]
         /\ hold' = [hold EXCEPT ![o] = "none"]
         /\ \A l \in Lines : allocated'[l] = IF OrderOf[l] = o THEN NoPicks ELSE allocated[l]
<1> QED
  BY ReleasedValue DEF Release, TypeOK, Hold

LEMMA ReleaseKeepsStock ==
  ASSUME TypeOK, TypeOK', NEW o \in Orders, Release(o), UNCHANGED batchVars, NoOversell
  PROVE  NoOversell'
<1> SUFFICES ASSUME NEW b \in Batches PROVE Reserved(b)' <= quantity'[b]
  BY DEF NoOversell
<1>1. \A l \in ReservedLines' : l \in ReservedLines /\ allocated'[l] = allocated[l]
  BY ReleaseGivesBack, ReservationsAssumption DEF ReservedLines, CountsAsReserved, TypeOK
<1>2. Reserved(b)' <= Reserved(b)
  BY <1>1, ReservedShrinks
<1>3. Reserved(b) <= quantity[b] /\ quantity'[b] = quantity[b]
  BY DEF NoOversell, batchVars
<1>4. Reserved(b) \in Nat /\ Reserved(b)' \in Nat /\ quantity[b] \in Nat
  BY ReservedType, ReservedTypeNext, ReservationsAssumption DEF TypeOK, Quantity
<1> QED
  BY <1>2, <1>3, <1>4

\* Reserving for an order that starts from nothing: its lines get the plan,
\* everybody else keeps what they have, and nothing is promised twice.
LEMMA ReserveGives ==
  ASSUME TypeOK, NEW o \in Orders, NEW wanted, NEW newHold \in {"live", "permanent"},
         NEW kept \in [Lines -> [Batches -> Quantity]],
         \A l \in Lines : kept[l] = IF OrderOf[l] = o THEN NoPicks ELSE allocated[l],
         ReserveOnTopOf(o, wanted, kept, newHold)
  PROVE  /\ allocated' \in [Lines -> [Batches -> Quantity]] /\ hold' \in [Orders -> Hold]
         /\ hold' = [hold EXCEPT ![o] = newHold]
         /\ \A l \in Lines : OrderOf[l] # o => allocated'[l] = allocated[l]
         /\ \A b \in Batches : Reserved(b)' <= quantity[b] \/ Reserved(b)' <= Reserved(b)
         /\ NoOversell /\ UNCHANGED quantity => NoOversell'
<1>1. PICK plan \in [LinesOf(o) -> [Batches -> Quantity]] :
        /\ IsOrderPlan(o, wanted, kept, plan)
        /\ allocated' = [l \in Lines |->
                           IF OrderOf[l] = o
                           THEN [b \in Batches |-> kept[l][b] + plan[l][b]]
                           ELSE kept[l]]
        /\ hold' = [hold EXCEPT ![o] = newHold]
  BY DEF ReserveOnTopOf
<1>2. \A l \in Lines, b \in Batches :
        kept[l][b] = IF OrderOf[l] = o THEN 0 ELSE allocated[l][b]
  BY DEF NoPicks
<1>3. \A l \in Lines : OrderOf[l] = o => l \in LinesOf(o)
  BY DEF LinesOf
<1>4. allocated' \in [Lines -> [Batches -> Quantity]]
  <2>1. \A l \in Lines : OrderOf[l] = o =>
          [b \in Batches |-> kept[l][b] + plan[l][b]] \in [Batches -> Quantity]
    <3> SUFFICES ASSUME NEW l \in Lines, OrderOf[l] = o, NEW b \in Batches
                 PROVE  kept[l][b] + plan[l][b] \in Quantity
      OBVIOUS
    <3>1. kept[l][b] = 0 /\ plan[l][b] \in Quantity
      BY <1>2, <1>3
    <3> QED
      BY <3>1, ReservationsAssumption DEF Quantity
  <2> QED
    BY <1>1, <2>1
<1>5. hold' \in [Orders -> Hold]
  BY <1>1 DEF TypeOK, Hold
<1>6. \A l \in Lines : OrderOf[l] # o => allocated'[l] = allocated[l]
  BY <1>1
<1>7. ASSUME NEW b \in Batches
      PROVE  Reserved(b)' <= quantity[b] \/ Reserved(b)' <= Reserved(b)
  <2> DEFINE f == [k \in Lines |-> IF OrderOf[k] = o THEN kept[k][b] + plan[k][b]
                                   ELSE kept[k][b]]
  <2>1. NoNewOverbooking(b, Total(f, ReservedLines \cup LinesOf(o)))
    <3>1. \A l \in Lines : kept[l][b] = IF OrderOf[l] = o THEN 0 ELSE allocated[l][b]
      BY <1>2, <1>7
    <3>2. IsOrderPlan(o, wanted, kept, plan)
      BY <1>1
    <3> HIDE DEF f
    <3>3. NoNewOverbooking(b, Total([k \in Lines |->
                                      IF OrderOf[k] = o THEN kept[k][b] + plan[k][b]
                                      ELSE kept[k][b]],
                                   ReservedLines \cup LinesOf(o)))
      BY ONLY TypeOK, o \in Orders, kept \in [Lines -> [Batches -> Quantity]],
         plan \in [LinesOf(o) -> [Batches -> Quantity]], b \in Batches,
         <3>1, <3>2, PlansFitTheStock, SMTT(30)
    <3> QED
      BY <3>3, Zenon DEF f
  <2>2. ReservedLines' = ReservedLines \cup LinesOf(o)
    BY <1>1, ReservationsAssumption DEF ReservedLines, CountsAsReserved, LinesOf, TypeOK
  <2>3. [l \in Lines |-> allocated'[l][b]] = f
    BY <1>1
  <2>4. Reserved(b)' = Total(f, ReservedLines \cup LinesOf(o))
    BY <2>2, <2>3, Zenon DEF Reserved
  <2> QED
    BY <2>1, <2>4, Zenon DEF NoNewOverbooking
<1>8. ASSUME NoOversell, UNCHANGED quantity, NEW b \in Batches
      PROVE  Reserved(b)' <= quantity'[b]
  <2>1. Reserved(b)' \in Nat
    <3>1. ReservedLines' \in SUBSET Lines /\ IsFiniteSet(ReservedLines')
      BY FiniteLines DEF ReservedLines
    <3>2. \A l \in Lines : [k \in Lines |-> allocated'[k][b]][l] \in Nat
      BY <1>4, ReservationsAssumption DEF Quantity
    <3>3. \A l \in ReservedLines' : [k \in Lines |-> allocated'[k][b]][l] \in Nat
      BY <3>1, <3>2
    <3> QED
      BY <3>1, <3>3, TotalType DEF Reserved
  <2>2. Reserved(b) \in Nat /\ quantity[b] \in Nat
    BY ReservedType, ReservationsAssumption DEF TypeOK, Quantity
  <2> QED
    BY <1>7, <1>8, <2>1, <2>2 DEF NoOversell
<1> QED
  BY <1>1, <1>4, <1>5, <1>6, <1>7, <1>8 DEF NoOversell

\* Nothing that counts as reserved changes.
LEMMA ReservedUnchanged ==
  ASSUME UNCHANGED allocationVars
  PROVE  ReservedLines' = ReservedLines /\ \A b \in Batches : Reserved(b)' = Reserved(b)
<1> QED
  BY DEF Reserved, ReservedLines, CountsAsReserved, allocationVars

LEMMA StockUntouched ==
  ASSUME IInv, UNCHANGED <<allocationVars, batchVars>>
  PROVE  /\ AbsentBatchesAreEmpty' /\ (NoOversell => NoOversell')
         /\ UNCHANGED <<allocated, hold, quantity, batchStatus, shelfLife>>
<1> QED
  BY ReservedUnchanged
     DEF IInv, AbsentBatchesAreEmpty, NoOversell, allocationVars, batchVars

-----------------------------------------------------------------------------
(* Transactions that neither reserve nor release. *)

LEMMA CreateDraftKeeps ==
  ASSUME IInv, NEW o \in Orders, CreateDraft(o)
  PROVE  IInv'
<1>1. PICK wanted \in [LinesOf(o) -> Quantity] :
        lineQuantity' = [l \in Lines |-> IF OrderOf[l] = o THEN wanted[l] ELSE lineQuantity[l]]
  BY DEF CreateDraft
<1>2. /\ status[o] = "none" /\ status' = [status EXCEPT ![o] = "draft"]
      /\ UNCHANGED <<attempt, confirming, allocated, hold, quantity, batchStatus, shelfLife>>
  BY StockUntouched DEF CreateDraft
<1>3. TypeOK'
  <2>1. lineQuantity' \in [Lines -> Quantity]
    BY <1>1 DEF IInv, TypeOK, LinesOf
  <2> QED
    BY <1>2, <2>1 DEF IInv, TypeOK, OrderStatus
<1>4. OnlyRetailPays' /\ PlacedOrdersReserve' /\ ConfirmingOrdersAreDrafts'
  BY <1>2 DEF IInv, TypeOK, OnlyRetailPays, PlacedOrdersReserve, ConfirmingOrdersAreDrafts
<1>5. IdleOrdersHoldNothing'
  BY <1>2 DEF IInv, TypeOK, IdleOrdersHoldNothing, LinesOf, NoPicks
<1>6. AbsentBatchesAreEmpty' /\ StockIsKept'
  BY <1>2, StockUntouched DEF CreateDraft, IInv, StockIsKept, ConfirmingHoldsAreLive
<1> QED
  BY <1>3, <1>4, <1>5, <1>6 DEF IInv

LEMMA EditDraftKeeps ==
  ASSUME IInv, NEW o \in Orders, EditDraft(o)
  PROVE  IInv'
<1>1. PICK wanted \in [LinesOf(o) -> Quantity] :
        lineQuantity' = [l \in Lines |-> IF OrderOf[l] = o THEN wanted[l] ELSE lineQuantity[l]]
  BY DEF EditDraft
<1>2. UNCHANGED <<status, attempt, confirming, allocated, hold, quantity, batchStatus, shelfLife>>
  BY StockUntouched DEF EditDraft
<1>3. TypeOK'
  <2>1. lineQuantity' \in [Lines -> Quantity]
    BY <1>1 DEF IInv, TypeOK, LinesOf
  <2> QED
    BY <1>2, <2>1 DEF IInv, TypeOK
<1>4. /\ OnlyRetailPays' /\ PlacedOrdersReserve' /\ ConfirmingOrdersAreDrafts'
      /\ IdleOrdersHoldNothing'
  BY <1>2 DEF IInv, OnlyRetailPays, PlacedOrdersReserve, ConfirmingOrdersAreDrafts,
              IdleOrdersHoldNothing, LinesOf, NoPicks
<1>5. AbsentBatchesAreEmpty' /\ StockIsKept'
  BY <1>2, StockUntouched DEF EditDraft, IInv, StockIsKept, ConfirmingHoldsAreLive
<1> QED
  BY <1>3, <1>4, <1>5 DEF IInv

LEMMA DiscardDraftKeeps ==
  ASSUME IInv, NEW o \in Orders, DiscardDraft(o)
  PROVE  IInv'
<1>1. /\ o \in Business /\ status[o] = "draft" /\ status' = [status EXCEPT ![o] = "none"]
      /\ lineQuantity' = [l \in Lines |-> IF OrderOf[l] = o THEN 0 ELSE lineQuantity[l]]
      /\ UNCHANGED <<attempt, confirming, allocated, hold, quantity, batchStatus, shelfLife>>
  BY StockUntouched DEF DiscardDraft
<1>2. TypeOK'
  <2>1. lineQuantity' \in [Lines -> Quantity]
    BY <1>1, ReservationsAssumption DEF IInv, TypeOK, Quantity
  <2> QED
    BY <1>1, <2>1 DEF IInv, TypeOK, OrderStatus
<1>3. OnlyRetailPays' /\ PlacedOrdersReserve'
  BY <1>1 DEF IInv, TypeOK, OnlyRetailPays, PlacedOrdersReserve
<1>4. o \notin confirming /\ attempt[o] = "none"
  BY <1>1 DEF IInv, OnlyRetailPays, ConfirmingOrdersAreDrafts, Business
<1>5. ConfirmingOrdersAreDrafts'
  BY <1>1, <1>4 DEF IInv, TypeOK, ConfirmingOrdersAreDrafts
<1>6. IdleOrdersHoldNothing'
  BY <1>1, <1>4 DEF IInv, TypeOK, IdleOrdersHoldNothing, LinesOf, NoPicks
<1>7. AbsentBatchesAreEmpty' /\ StockIsKept'
  BY <1>1, StockUntouched DEF DiscardDraft, IInv, StockIsKept, ConfirmingHoldsAreLive
<1> QED
  BY <1>2, <1>3, <1>5, <1>6, <1>7 DEF IInv

LEMMA DeliverOrderKeeps ==
  ASSUME IInv, NEW o \in Orders, DeliverOrder(o)
  PROVE  IInv'
<1>1. /\ status[o] = "packed" /\ status' = [status EXCEPT ![o] = "delivered"]
      /\ UNCHANGED <<attempt, confirming, lineQuantity, allocated, hold, quantity, batchStatus,
                     shelfLife>>
  BY StockUntouched DEF DeliverOrder
<1>2. TypeOK'
  BY <1>1 DEF IInv, TypeOK, OrderStatus
<1>3. OnlyRetailPays' /\ PlacedOrdersReserve' /\ ConfirmingOrdersAreDrafts'
  BY <1>1 DEF IInv, TypeOK, OnlyRetailPays, PlacedOrdersReserve, ConfirmingOrdersAreDrafts
<1>4. IdleOrdersHoldNothing'
  BY <1>1 DEF IInv, TypeOK, IdleOrdersHoldNothing, LinesOf, NoPicks
<1>5. AbsentBatchesAreEmpty' /\ StockIsKept'
  BY <1>1, StockUntouched DEF DeliverOrder, IInv, StockIsKept, ConfirmingHoldsAreLive
<1> QED
  BY <1>2, <1>3, <1>4, <1>5 DEF IInv

LEMMA ConfirmationReadKeeps ==
  ASSUME IInv, NEW o \in Orders, ReadLiveHold(o) \/ AbandonConfirmation(o)
  PROVE  IInv'
<1>1. /\ \/ /\ confirming' = confirming \cup {o}
            /\ o \in Retail /\ status[o] = "draft" /\ hold[o] = "live"
         \/ confirming' = confirming \ {o}
      /\ UNCHANGED <<status, attempt, lineQuantity, allocated, hold, quantity, batchStatus,
                     shelfLife>>
  BY StockUntouched DEF ReadLiveHold, AbandonConfirmation
<1>2. TypeOK'
  BY <1>1 DEF IInv, TypeOK
<1>3. OnlyRetailPays' /\ PlacedOrdersReserve' /\ ConfirmingOrdersAreDrafts'
  BY <1>1 DEF IInv, OnlyRetailPays, PlacedOrdersReserve, ConfirmingOrdersAreDrafts
<1>4. IdleOrdersHoldNothing'
  BY <1>1 DEF IInv, IdleOrdersHoldNothing, LinesOf, NoPicks
<1>5. AbsentBatchesAreEmpty' /\ StockIsKept'
  BY <1>1, StockUntouched
     DEF ReadLiveHold, AbandonConfirmation, IInv, StockIsKept, ConfirmingHoldsAreLive
<1> QED
  BY <1>2, <1>3, <1>4, <1>5 DEF IInv

-----------------------------------------------------------------------------
(* Transactions that release. *)

LEMMA CancelOrderKeeps ==
  ASSUME IInv, NEW o \in Orders, CancelOrder(o)
  PROVE  IInv'
<1>1. /\ o \notin confirming /\ Release(o)
      /\ status' = [status EXCEPT ![o] = "cancelled"]
      /\ UNCHANGED <<attempt, confirming, lineQuantity, quantity, batchStatus, shelfLife>>
      /\ UNCHANGED batchVars
  BY DEF CancelOrder, batchVars
<1>2. /\ allocated' \in [Lines -> [Batches -> Quantity]] /\ hold' \in [Orders -> Hold]
      /\ hold' = [hold EXCEPT ![o] = "none"]
      /\ \A l \in Lines : allocated'[l] = IF OrderOf[l] = o THEN NoPicks ELSE allocated[l]
  BY <1>1, ReleaseGivesBack DEF IInv
<1>3. TypeOK'
  BY <1>1, <1>2 DEF IInv, TypeOK, OrderStatus
<1>4. OnlyRetailPays' /\ PlacedOrdersReserve' /\ ConfirmingOrdersAreDrafts'
  BY <1>1, <1>2 DEF IInv, TypeOK, OnlyRetailPays, PlacedOrdersReserve, ConfirmingOrdersAreDrafts
<1>5. IdleOrdersHoldNothing'
  BY <1>1, <1>2 DEF IInv, TypeOK, IdleOrdersHoldNothing, LinesOf, NoPicks
<1>6. AbsentBatchesAreEmpty'
  BY <1>1 DEF IInv, AbsentBatchesAreEmpty
<1>7. NoOversell => NoOversell'
  BY <1>1, <1>3, ReleaseKeepsStock DEF IInv
<1>8. StockIsKept'
  BY <1>1, <1>2, <1>7 DEF IInv, TypeOK, StockIsKept, ConfirmingHoldsAreLive
<1> QED
  BY <1>3, <1>4, <1>5, <1>6, <1>8 DEF IInv

LEMMA FailRetailPaymentKeeps ==
  ASSUME IInv, NEW o \in Orders, FailRetailPayment(o)
  PROVE  IInv'
<1>1. /\ o \in Retail /\ status[o] = "draft" /\ o \notin confirming /\ Release(o)
      /\ attempt' = [attempt EXCEPT ![o] = "failed"]
      /\ UNCHANGED <<status, confirming, lineQuantity, quantity, batchStatus, shelfLife>>
      /\ UNCHANGED batchVars
  BY DEF FailRetailPayment, batchVars
<1>2. /\ allocated' \in [Lines -> [Batches -> Quantity]] /\ hold' \in [Orders -> Hold]
      /\ hold' = [hold EXCEPT ![o] = "none"]
      /\ \A l \in Lines : allocated'[l] = IF OrderOf[l] = o THEN NoPicks ELSE allocated[l]
  BY <1>1, ReleaseGivesBack DEF IInv
<1>3. TypeOK'
  BY <1>1, <1>2 DEF IInv, TypeOK
<1>4. OnlyRetailPays' /\ PlacedOrdersReserve' /\ ConfirmingOrdersAreDrafts'
  BY <1>1, <1>2 DEF IInv, TypeOK, OnlyRetailPays, PlacedOrdersReserve, ConfirmingOrdersAreDrafts
<1>5. IdleOrdersHoldNothing'
  BY <1>1, <1>2 DEF IInv, TypeOK, IdleOrdersHoldNothing, LinesOf, NoPicks
<1>6. AbsentBatchesAreEmpty'
  BY <1>1 DEF IInv, AbsentBatchesAreEmpty
<1>7. NoOversell => NoOversell'
  BY <1>1, <1>3, ReleaseKeepsStock DEF IInv
<1>8. StockIsKept'
  BY <1>1, <1>2, <1>7 DEF IInv, TypeOK, StockIsKept, ConfirmingHoldsAreLive
<1> QED
  BY <1>3, <1>4, <1>5, <1>6, <1>8 DEF IInv

-----------------------------------------------------------------------------
(* Transactions that reserve. *)

LEMMA PlaceBusinessOrderKeeps ==
  ASSUME IInv, NEW o \in Orders, PlaceBusinessOrder(o)
  PROVE  IInv'
<1>1. /\ o \in Business /\ status[o] = "draft"
      /\ ReserveOnTopOf(o, lineQuantity, allocated, "permanent")
      /\ status' = [status EXCEPT ![o] = "placed"]
      /\ UNCHANGED <<attempt, confirming, lineQuantity, quantity, batchStatus, shelfLife>>
  BY DEF PlaceBusinessOrder, batchVars
<1>2. o \notin confirming /\ attempt[o] = "none"
  BY <1>1 DEF IInv, OnlyRetailPays, ConfirmingOrdersAreDrafts, Business
<1>3. \A l \in Lines : allocated[l] = IF OrderOf[l] = o THEN NoPicks ELSE allocated[l]
  BY <1>1, <1>2 DEF IInv, IdleOrdersHoldNothing, LinesOf
<1>4. allocated \in [Lines -> [Batches -> Quantity]]
  BY DEF IInv, TypeOK
<1>5. /\ allocated' \in [Lines -> [Batches -> Quantity]] /\ hold' \in [Orders -> Hold]
      /\ hold' = [hold EXCEPT ![o] = "permanent"]
      /\ \A l \in Lines : OrderOf[l] # o => allocated'[l] = allocated[l]
      /\ NoOversell => NoOversell'
  BY <1>1, <1>3, <1>4, ReserveGives DEF IInv
<1>6. TypeOK'
  BY <1>1, <1>5 DEF IInv, TypeOK, OrderStatus
<1>7. OnlyRetailPays' /\ PlacedOrdersReserve' /\ AbsentBatchesAreEmpty'
  BY <1>1, <1>5 DEF IInv, TypeOK, OnlyRetailPays, PlacedOrdersReserve, AbsentBatchesAreEmpty
<1>8. ConfirmingOrdersAreDrafts' /\ StockIsKept'
  BY <1>1, <1>2, <1>5
     DEF IInv, TypeOK, ConfirmingOrdersAreDrafts, StockIsKept, ConfirmingHoldsAreLive
<1>9. IdleOrdersHoldNothing'
  BY <1>1, <1>5 DEF IInv, TypeOK, IdleOrdersHoldNothing, LinesOf, NoPicks
<1> QED
  BY <1>6, <1>7, <1>8, <1>9 DEF IInv

LEMMA UpdatePlacedOrderKeeps ==
  ASSUME IInv, NEW o \in Orders, UpdatePlacedOrder(o)
  PROVE  IInv'
<1>1. PICK wanted \in [LinesOf(o) -> Quantity] :
        /\ lineQuantity' = [l \in Lines |-> IF OrderOf[l] = o THEN wanted[l] ELSE lineQuantity[l]]
        /\ ReserveOnTopOf(o, wanted, Released(o), "permanent")
  BY DEF UpdatePlacedOrder, ReplaceLines
<1>2. /\ o \in Business /\ status[o] = "placed"
      /\ UNCHANGED <<status, attempt, confirming, quantity, batchStatus, shelfLife>>
  BY DEF UpdatePlacedOrder, ReplaceLines, batchVars
<1>3. o \notin confirming
  BY <1>2 DEF IInv, ConfirmingOrdersAreDrafts, Business
<1>4. /\ Released(o) \in [Lines -> [Batches -> Quantity]]
      /\ \A l \in Lines : Released(o)[l] = IF OrderOf[l] = o THEN NoPicks ELSE allocated[l]
  BY ReleasedValue DEF IInv
<1>5. /\ allocated' \in [Lines -> [Batches -> Quantity]] /\ hold' \in [Orders -> Hold]
      /\ hold' = [hold EXCEPT ![o] = "permanent"]
      /\ \A l \in Lines : OrderOf[l] # o => allocated'[l] = allocated[l]
      /\ NoOversell => NoOversell'
  BY <1>1, <1>2, <1>4, ReserveGives DEF IInv
<1>6. TypeOK'
  <2>1. lineQuantity' \in [Lines -> Quantity]
    BY <1>1 DEF IInv, TypeOK, LinesOf
  <2> QED
    BY <1>2, <1>5, <2>1 DEF IInv, TypeOK
<1>7. OnlyRetailPays' /\ PlacedOrdersReserve' /\ AbsentBatchesAreEmpty'
  BY <1>2, <1>5 DEF IInv, TypeOK, OnlyRetailPays, PlacedOrdersReserve, AbsentBatchesAreEmpty
<1>8. ConfirmingOrdersAreDrafts' /\ StockIsKept'
  BY <1>2, <1>3, <1>5
     DEF IInv, TypeOK, ConfirmingOrdersAreDrafts, StockIsKept, ConfirmingHoldsAreLive
<1>9. IdleOrdersHoldNothing'
  BY <1>2, <1>5 DEF IInv, TypeOK, IdleOrdersHoldNothing, LinesOf, NoPicks
<1> QED
  BY <1>6, <1>7, <1>8, <1>9 DEF IInv

LEMMA StartRetailPaymentKeeps ==
  ASSUME IInv, NEW o \in Orders, StartRetailPayment(o)
  PROVE  IInv'
<1>1. /\ o \in Retail /\ status[o] = "draft"
      /\ ReserveOnTopOf(o, lineQuantity, Released(o), "live")
      /\ attempt' = [attempt EXCEPT ![o] = "pending"]
      /\ UNCHANGED <<status, confirming, lineQuantity, quantity, batchStatus, shelfLife>>
  BY DEF StartRetailPayment, batchVars
<1>2. /\ Released(o) \in [Lines -> [Batches -> Quantity]]
      /\ \A l \in Lines : Released(o)[l] = IF OrderOf[l] = o THEN NoPicks ELSE allocated[l]
  BY ReleasedValue DEF IInv
<1>3. /\ allocated' \in [Lines -> [Batches -> Quantity]] /\ hold' \in [Orders -> Hold]
      /\ hold' = [hold EXCEPT ![o] = "live"]
      /\ \A l \in Lines : OrderOf[l] # o => allocated'[l] = allocated[l]
      /\ NoOversell => NoOversell'
  BY <1>1, <1>2, ReserveGives DEF IInv
<1>4. TypeOK'
  BY <1>1, <1>3 DEF IInv, TypeOK
<1>5. OnlyRetailPays' /\ PlacedOrdersReserve' /\ AbsentBatchesAreEmpty'
  BY <1>1, <1>3 DEF IInv, TypeOK, OnlyRetailPays, PlacedOrdersReserve, AbsentBatchesAreEmpty
<1>6. ConfirmingOrdersAreDrafts' /\ StockIsKept'
  BY <1>1, <1>3
     DEF IInv, TypeOK, ConfirmingOrdersAreDrafts, StockIsKept, ConfirmingHoldsAreLive
<1>7. IdleOrdersHoldNothing'
  BY <1>1, <1>3 DEF IInv, TypeOK, IdleOrdersHoldNothing, LinesOf, NoPicks
<1> QED
  BY <1>4, <1>5, <1>6, <1>7 DEF IInv

-----------------------------------------------------------------------------
(* Confirming a hold, its lapse, and packing. *)

LEMMA PlacePaidOrderKeeps ==
  ASSUME IInv, NEW o \in Orders, PlacePaidOrder(o)
  PROVE  IInv'
<1>1. /\ o \in confirming
      /\ hold' = [hold EXCEPT ![o] = "permanent"]
      /\ status' = [status EXCEPT ![o] = "placed"]
      /\ attempt' = [attempt EXCEPT ![o] = "succeeded"]
      /\ confirming' = confirming \ {o}
      /\ UNCHANGED <<lineQuantity, allocated, quantity, batchStatus, shelfLife>>
  BY DEF PlacePaidOrder, batchVars
<1>2. o \in Retail
  BY <1>1 DEF IInv, ConfirmingOrdersAreDrafts
<1>3. TypeOK'
  BY <1>1 DEF IInv, TypeOK, OrderStatus, Hold
<1>4. OnlyRetailPays' /\ PlacedOrdersReserve' /\ AbsentBatchesAreEmpty'
  BY <1>1, <1>2 DEF IInv, TypeOK, OnlyRetailPays, PlacedOrdersReserve, AbsentBatchesAreEmpty
<1>5. ConfirmingOrdersAreDrafts' /\ IdleOrdersHoldNothing'
  BY <1>1 DEF IInv, TypeOK, ConfirmingOrdersAreDrafts, IdleOrdersHoldNothing, LinesOf, NoPicks
<1>6. ASSUME HoldsOutliveConfirmation
      PROVE  ConfirmingHoldsAreLive' /\ NoOversell'
  <2>1. hold[o] = "live" /\ NoOversell
    BY <1>1, <1>6 DEF IInv, StockIsKept, ConfirmingHoldsAreLive
  <2>2. ReservedLines' = ReservedLines
    BY <1>1, <2>1, ReservationsAssumption DEF IInv, TypeOK, ReservedLines, CountsAsReserved
  <2>3. \A b \in Batches : Reserved(b)' = Reserved(b)
    BY <1>1, <2>2 DEF Reserved
  <2>4. NoOversell'
    BY <1>1, <2>1, <2>3 DEF NoOversell
  <2>5. ConfirmingHoldsAreLive'
    BY <1>1, <1>6 DEF IInv, TypeOK, StockIsKept, ConfirmingHoldsAreLive
  <2> QED
    BY <2>4, <2>5
<1> QED
  BY <1>3, <1>4, <1>5, <1>6 DEF IInv, StockIsKept

LEMMA HoldLapsesKeeps ==
  ASSUME IInv, NEW o \in Orders, HoldLapses(o)
  PROVE  IInv'
<1>1. /\ hold[o] = "live" /\ (HoldsOutliveConfirmation => o \notin confirming)
      /\ hold' = [hold EXCEPT ![o] = "lapsed"]
      /\ UNCHANGED <<status, attempt, confirming, lineQuantity, allocated, quantity, batchStatus,
                     shelfLife>>
  BY DEF HoldLapses, orderVars, batchVars
<1>2. TypeOK'
  BY <1>1 DEF IInv, TypeOK, Hold
<1>3. OnlyRetailPays' /\ PlacedOrdersReserve' /\ AbsentBatchesAreEmpty'
  BY <1>1 DEF IInv, TypeOK, OnlyRetailPays, PlacedOrdersReserve, AbsentBatchesAreEmpty
<1>4. ConfirmingOrdersAreDrafts' /\ IdleOrdersHoldNothing'
  BY <1>1 DEF IInv, TypeOK, ConfirmingOrdersAreDrafts, IdleOrdersHoldNothing, LinesOf, NoPicks
<1>5. NoOversell => NoOversell'
  <2> SUFFICES ASSUME NoOversell, NEW b \in Batches PROVE Reserved(b)' <= quantity'[b]
    BY DEF NoOversell
  <2>1. ReservedLines' \subseteq ReservedLines
    BY <1>1 DEF IInv, TypeOK, ReservedLines, CountsAsReserved
  <2>2. Reserved(b)' <= Reserved(b)
    BY <1>1, <1>2, <2>1, ReservedShrinks DEF IInv
  <2>3. Reserved(b) \in Nat /\ Reserved(b)' \in Nat /\ quantity[b] \in Nat
    BY <1>2, ReservedType, ReservedTypeNext, ReservationsAssumption DEF IInv, TypeOK, Quantity
  <2> QED
    BY <1>1, <2>2, <2>3 DEF NoOversell
<1>6. StockIsKept'
  BY <1>1, <1>5 DEF IInv, TypeOK, StockIsKept, ConfirmingHoldsAreLive
<1> QED
  BY <1>2, <1>3, <1>4, <1>6 DEF IInv

\* Packing takes from the promises of each batch what it takes from the shelf.
LEMMA PackingTakesItsPromises ==
  ASSUME TypeOK, NEW o \in Orders, CountsAsReserved(o),
         hold' = [hold EXCEPT ![o] = "consumed"], allocated' = allocated, NEW b \in Batches
  PROVE  Reserved(b) = Reserved(b)' + PickedFrom(o, b)
<1> DEFINE f == [l \in Lines |-> allocated[l][b]]
           others == ReservedLines \ LinesOf(o)
<1>1. ReservedLines' = others /\ LinesOf(o) \subseteq ReservedLines
  BY ReservationsAssumption DEF TypeOK, ReservedLines, CountsAsReserved, LinesOf
<1>2. \A l \in Lines : f[l] \in Nat
  BY ReservationsAssumption DEF TypeOK, Quantity
<1>3. Reserved(b)' = Total(f, others) /\ Reserved(b) = Total(f, ReservedLines)
      /\ PickedFrom(o, b) = Total(f, LinesOf(o))
  BY <1>1, Zenon DEF Reserved, PickedFrom
<1> HIDE DEF f
<1>4. /\ IsFiniteSet(others) /\ IsFiniteSet(LinesOf(o)) /\ others \cap LinesOf(o) = {}
      /\ others \cup LinesOf(o) = ReservedLines /\ ReservedLines \subseteq Lines
  BY <1>1, FiniteLines DEF ReservedLines, LinesOf
<1>5. Total(f, others \cup LinesOf(o)) = Total(f, others) + Total(f, LinesOf(o))
  BY <1>2, <1>4, TotalUnion
<1> QED
  BY <1>3, <1>4, <1>5, Zenon

LEMMA PackOrderKeeps ==
  ASSUME IInv, NEW o \in Orders, PackOrder(o)
  PROVE  IInv'
<1>1. /\ status[o] = "placed" /\ \A b \in Batches : CanPick(o, b)
      /\ quantity' = [b \in Batches |-> quantity[b] - PickedFrom(o, b)]
      /\ batchStatus' = [b \in Batches |->
                           IF PickedFrom(o, b) > 0
                           THEN SyncedStatus(b, quantity[b] - PickedFrom(o, b))
                           ELSE batchStatus[b]]
      /\ hold' = [hold EXCEPT ![o] = "consumed"]
      /\ status' = [status EXCEPT ![o] = "packed"]
      /\ UNCHANGED <<attempt, confirming, lineQuantity, allocated, shelfLife>>
  BY DEF PackOrder
<1>2. \A b \in Batches : /\ PickedFrom(o, b) \in Nat /\ quantity[b] \in Quantity
                         /\ PickedFrom(o, b) = 0 \/ PickedFrom(o, b) <= quantity[b]
  BY <1>1, PickedType, ReservationsAssumption DEF IInv, TypeOK, Quantity, CanPick
<1>3. hold[o] = "permanent" /\ o \notin confirming
  BY <1>1 DEF IInv, PlacedOrdersReserve, ConfirmingOrdersAreDrafts
<1>4. TypeOK'
  <2>1. quantity' \in [Batches -> Quantity]
    <3>1. \A b \in Batches : quantity[b] - PickedFrom(o, b) \in Quantity
      BY <1>2, ReservationsAssumption DEF Quantity
    <3> QED
      BY <1>1, <3>1
  <2>2. batchStatus' \in [Batches -> {"absent", "active", "depleted", "closed"}]
    BY <1>1 DEF IInv, TypeOK, SyncedStatus
  <2> QED
    BY <1>1, <2>1, <2>2 DEF IInv, TypeOK, OrderStatus, Hold
<1>5. OnlyRetailPays' /\ PlacedOrdersReserve' /\ ConfirmingOrdersAreDrafts'
  BY <1>1, <1>3 DEF IInv, TypeOK, OnlyRetailPays, PlacedOrdersReserve, ConfirmingOrdersAreDrafts
<1>6. AbsentBatchesAreEmpty'
  <2> SUFFICES ASSUME NEW b \in Batches, batchStatus'[b] = "absent" PROVE quantity'[b] = 0
    BY DEF AbsentBatchesAreEmpty
  <2>1. PickedFrom(o, b) = 0 /\ batchStatus[b] = "absent"
    BY <1>1, <1>2 DEF SyncedStatus
  <2>2. quantity[b] = 0
    BY <2>1 DEF IInv, AbsentBatchesAreEmpty
  <2> QED
    BY <1>1, <2>1, <2>2
<1>7. IdleOrdersHoldNothing'
  BY <1>1 DEF IInv, TypeOK, IdleOrdersHoldNothing, LinesOf, NoPicks
<1>8. NoOversell => NoOversell'
  <2> SUFFICES ASSUME NoOversell, NEW b \in Batches PROVE Reserved(b)' <= quantity'[b]
    BY DEF NoOversell
  <2>6. Reserved(b) = Reserved(b)' + PickedFrom(o, b)
    BY <1>1, <1>3, PackingTakesItsPromises DEF IInv, CountsAsReserved
  <2>7. Reserved(b)' \in Nat /\ quantity[b] \in Nat /\ PickedFrom(o, b) \in Nat
    BY <1>2, <1>4, ReservedTypeNext, ReservationsAssumption DEF Quantity
  <2>8. Reserved(b) <= quantity[b] /\ quantity'[b] = quantity[b] - PickedFrom(o, b)
    BY <1>1 DEF NoOversell
  <2> QED
    BY <2>6, <2>7, <2>8
<1>9. StockIsKept'
  BY <1>1, <1>3, <1>8 DEF IInv, TypeOK, StockIsKept, ConfirmingHoldsAreLive
<1> QED
  BY <1>4, <1>5, <1>6, <1>7, <1>9 DEF IInv

-----------------------------------------------------------------------------
(* Batch operations and midnight. *)

\* What follows when orders and allocations stay as they are.
LEMMA OrdersUntouched ==
  ASSUME IInv, UNCHANGED <<orderVars, allocationVars>>
  PROVE  /\ OnlyRetailPays' /\ PlacedOrdersReserve' /\ ConfirmingOrdersAreDrafts'
         /\ IdleOrdersHoldNothing' /\ (ConfirmingHoldsAreLive => ConfirmingHoldsAreLive')
         /\ UNCHANGED <<status, attempt, confirming, lineQuantity, allocated, hold>>
<1> QED
  BY DEF IInv, orderVars, allocationVars, OnlyRetailPays, PlacedOrdersReserve,
         ConfirmingOrdersAreDrafts, IdleOrdersHoldNothing, ConfirmingHoldsAreLive, LinesOf, NoPicks

LEMMA CreateBatchKeeps ==
  ASSUME IInv, NEW b \in Batches, CreateBatch(b)
  PROVE  IInv'
<1>1. PICK n \in Quantity \ {0}, d \in 1 .. MaxShelfLife :
        quantity' = [quantity EXCEPT ![b] = n] /\ shelfLife' = [shelfLife EXCEPT ![b] = d]
  BY DEF CreateBatch
<1>2. /\ batchStatus[b] = "absent" /\ batchStatus' = [batchStatus EXCEPT ![b] = "active"]
      /\ UNCHANGED <<orderVars, allocationVars>>
  BY DEF CreateBatch
<1>3. TypeOK'
  <2>1. shelfLife' \in [Batches -> 0 .. MaxShelfLife]
    BY <1>1, ReservationsAssumption DEF IInv, TypeOK
  <2> QED
    BY <1>1, <1>2, <2>1, OrdersUntouched DEF IInv, TypeOK
<1>4. AbsentBatchesAreEmpty'
  BY <1>1, <1>2 DEF IInv, TypeOK, AbsentBatchesAreEmpty
<1>5. NoOversell => NoOversell'
  <2> SUFFICES ASSUME NoOversell, NEW c \in Batches PROVE Reserved(c)' <= quantity'[c]
    BY DEF NoOversell
  <2>1. Reserved(c)' = Reserved(c) /\ Reserved(c) <= quantity[c] /\ Reserved(c) \in Nat
    BY <1>2, ReservedUnchanged, ReservedType DEF IInv, NoOversell
  <2>2. c = b => quantity[c] = 0 /\ quantity'[c] = n
    BY <1>1, <1>2 DEF IInv, TypeOK, AbsentBatchesAreEmpty
  <2>3. c # b => quantity'[c] = quantity[c]
    BY <1>1 DEF IInv, TypeOK
  <2> QED
    BY <2>1, <2>2, <2>3, ReservationsAssumption DEF Quantity
<1> QED
  BY <1>2, <1>3, <1>4, <1>5, OrdersUntouched DEF IInv, StockIsKept

LEMMA UpdateBatchKeeps ==
  ASSUME IInv, NEW b \in Batches, UpdateBatch(b)
  PROVE  IInv'
<1>1. PICK n \in Quantity, d \in 0 .. MaxShelfLife :
        /\ n >= Reserved(b)
        /\ quantity' = [quantity EXCEPT ![b] = n]
        /\ batchStatus' = [batchStatus EXCEPT ![b] = SyncedStatus(b, n)]
        /\ shelfLife' = [shelfLife EXCEPT ![b] = d]
  BY DEF UpdateBatch
<1>2. UNCHANGED <<orderVars, allocationVars>>
  BY DEF UpdateBatch
<1>3. SyncedStatus(b, n) \in {"active", "depleted", "closed"}
  BY DEF SyncedStatus
<1>4. TypeOK'
  BY <1>1, <1>2, <1>3, OrdersUntouched DEF IInv, TypeOK
<1>5. AbsentBatchesAreEmpty'
  BY <1>1, <1>3 DEF IInv, TypeOK, AbsentBatchesAreEmpty
<1>6. NoOversell => NoOversell'
  <2> SUFFICES ASSUME NoOversell, NEW c \in Batches PROVE Reserved(c)' <= quantity'[c]
    BY DEF NoOversell
  <2>1. Reserved(c)' = Reserved(c) /\ Reserved(c) <= quantity[c] /\ Reserved(c) \in Nat
    BY <1>2, ReservedUnchanged, ReservedType DEF IInv, NoOversell
  <2>2. quantity'[c] = IF c = b THEN n ELSE quantity[c]
    BY <1>1 DEF IInv, TypeOK
  <2> QED
    BY <1>1, <2>1, <2>2, ReservationsAssumption DEF Quantity
<1> QED
  BY <1>2, <1>4, <1>5, <1>6, OrdersUntouched DEF IInv, StockIsKept

LEMMA CloseBatchKeeps ==
  ASSUME IInv, NEW b \in Batches, CloseBatch(b)
  PROVE  IInv'
<1>1. /\ batchStatus' = [batchStatus EXCEPT ![b] = "closed"]
      /\ UNCHANGED <<orderVars, allocationVars, quantity, shelfLife>>
  BY DEF CloseBatch
<1>2. TypeOK'
  BY <1>1, OrdersUntouched DEF IInv, TypeOK
<1>3. AbsentBatchesAreEmpty'
  BY <1>1 DEF IInv, TypeOK, AbsentBatchesAreEmpty
<1>4. NoOversell => NoOversell'
  BY <1>1, ReservedUnchanged DEF NoOversell
<1> QED
  BY <1>1, <1>2, <1>3, <1>4, OrdersUntouched DEF IInv, StockIsKept

LEMMA NextDayKeeps ==
  ASSUME IInv, NextDay
  PROVE  IInv'
<1>1. /\ shelfLife' = [b \in Batches |-> IF shelfLife[b] > 0 THEN shelfLife[b] - 1 ELSE 0]
      /\ UNCHANGED <<orderVars, allocationVars, quantity, batchStatus>>
  BY DEF NextDay
<1>2. TypeOK'
  <2>1. \A b \in Batches :
          (IF shelfLife[b] > 0 THEN shelfLife[b] - 1 ELSE 0) \in 0 .. MaxShelfLife
    BY ReservationsAssumption DEF IInv, TypeOK
  <2>2. shelfLife' \in [Batches -> 0 .. MaxShelfLife]
    BY <1>1, <2>1
  <2> QED
    BY <1>1, <2>2, OrdersUntouched DEF IInv, TypeOK
<1>3. AbsentBatchesAreEmpty'
  BY <1>1 DEF IInv, AbsentBatchesAreEmpty
<1>4. NoOversell => NoOversell'
  BY <1>1, ReservedUnchanged DEF NoOversell
<1> QED
  BY <1>1, <1>2, <1>3, <1>4, OrdersUntouched DEF IInv, StockIsKept

-----------------------------------------------------------------------------
(* The inductive invariant, and what follows from it. *)

LEMMA InitEstablishes == Init => IInv
<1> SUFFICES ASSUME Init PROVE IInv
  OBVIOUS
<1>1. TypeOK
  BY ReservationsAssumption DEF Init, TypeOK, Quantity, OrderStatus, Hold
<1>2. /\ OnlyRetailPays /\ PlacedOrdersReserve /\ ConfirmingOrdersAreDrafts
      /\ ConfirmingHoldsAreLive /\ AbsentBatchesAreEmpty
  BY DEF Init, OnlyRetailPays, PlacedOrdersReserve, ConfirmingOrdersAreDrafts,
         ConfirmingHoldsAreLive, AbsentBatchesAreEmpty
<1>3. IdleOrdersHoldNothing
  BY DEF Init, IdleOrdersHoldNothing, LinesOf, NoPicks
<1>4. NoOversell
  <2> SUFFICES ASSUME NEW b \in Batches PROVE Reserved(b) <= quantity[b]
    BY DEF NoOversell
  <2> DEFINE f == [l \in Lines |-> allocated[l][b]]
  <2>1. \A l \in ReservedLines : f[l] = 0
    BY DEF Init, ReservedLines
  <2>2. Total(f, ReservedLines) = 0
    BY <2>1, TotalZero
  <2>3. Reserved(b) = 0 /\ quantity[b] = 0
    BY <2>2 DEF Reserved, Init
  <2> QED
    BY <2>3
<1> QED
  BY <1>1, <1>2, <1>3, <1>4 DEF IInv, StockIsKept

LEMMA StepKeeps == IInv /\ [Next]_vars => IInv'
<1> SUFFICES ASSUME IInv, [Next]_vars PROVE IInv'
  OBVIOUS
<1>1. ASSUME NEW o \in Orders, OrderStep(o) PROVE IInv'
  BY <1>1, CreateDraftKeeps, EditDraftKeeps, DiscardDraftKeeps, PlaceBusinessOrderKeeps,
     UpdatePlacedOrderKeeps, CancelOrderKeeps, PackOrderKeeps, DeliverOrderKeeps
     DEF OrderStep
<1>2. ASSUME NEW o \in Orders, PaymentStep(o) PROVE IInv'
  BY <1>2, StartRetailPaymentKeeps, ConfirmationReadKeeps, PlacePaidOrderKeeps,
     FailRetailPaymentKeeps, HoldLapsesKeeps
     DEF PaymentStep
<1>3. ASSUME NEW b \in Batches, BatchStep(b) PROVE IInv'
  BY <1>3, CreateBatchKeeps, UpdateBatchKeeps, CloseBatchKeeps DEF BatchStep
<1>4. CASE UNCHANGED vars
  <2>1. UNCHANGED <<orderVars, allocationVars>> /\ UNCHANGED <<allocationVars, batchVars>>
    BY <1>4 DEF vars
  <2>2. TypeOK'
    BY <2>1, OrdersUntouched, StockUntouched DEF IInv, TypeOK
  <2>3. /\ OnlyRetailPays' /\ PlacedOrdersReserve' /\ ConfirmingOrdersAreDrafts'
        /\ IdleOrdersHoldNothing' /\ AbsentBatchesAreEmpty'
    BY <2>1, OrdersUntouched, StockUntouched
  <2>4. StockIsKept'
    BY <2>1, OrdersUntouched, StockUntouched DEF IInv, StockIsKept
  <2> QED
    BY <2>2, <2>3, <2>4 DEF IInv
<1> QED
  BY <1>1, <1>2, <1>3, <1>4, NextDayKeeps DEF Next

LEMMA InvariantHolds == Spec => []IInv
<1> QED
  BY InitEstablishes, StepKeeps, PTL DEF Spec

\* Every variable keeps its type: an order never takes more from a batch than
\* is in it, and no line is given more of a batch than its order starts with.
THEOREM TypeCorrect == Spec => []TypeOK
<1>1. IInv => TypeOK
  BY DEF IInv
<1> QED
  BY <1>1, InvariantHolds, PTL

\* Cancelled orders, drafts nobody is paying for and deleted orders own
\* nothing, however their reservations came and went.
THEOREM IdleOrdersOwnNothing == Spec => []IdleOrdersHoldNothing
<1>1. IInv => IdleOrdersHoldNothing
  BY DEF IInv
<1> QED
  BY <1>1, InvariantHolds, PTL

\* Stock is never oversold, if holds outlive the transactions that confirm
\* them; without that condition the late_confirmation scenario breaks it.
THEOREM StockIsNeverOversold == ASSUME HoldsOutliveConfirmation PROVE Spec => []NoOversell
<1>1. IInv => NoOversell
  BY DEF IInv, StockIsKept
<1> QED
  BY <1>1, InvariantHolds, PTL

-----------------------------------------------------------------------------
(* Coverage: what an order owns, next to what it asks for.  The invariant  *)
(* above says whose allocations count; the next one says how many there    *)
(* are.                                                                    *)

\* Order o owns exactly the units of its lines, from batches of their offers.
OwnsItsLines(o) == \A l \in LinesOf(o) : Total(allocated[l], Pool[l]) = lineQuantity[l]

\* PlacedOrdersAreCovered and PayingOrdersAreHeld for one order, and what
\* makes them inductive: an order that is placed or being confirmed has
\* lines, the latter is one somebody is paying for, and an order that does
\* not exist has no attempts.
OrderIsCovered(o) ==
  /\ status[o] = "placed" => hold[o] = "permanent" /\ HasLines(o)
  /\ status[o] \in {"packed", "delivered"} => hold[o] = "consumed"
  /\ status[o] \in {"placed", "packed", "delivered"} => OwnsItsLines(o)
  /\ attempt[o] = "pending" /\ status[o] = "draft" =>
       hold[o] \in {"live", "lapsed"} /\ OwnsItsLines(o)
  /\ attempt[o] = "succeeded" => status[o] \notin {"none", "draft"}
  /\ status[o] = "none" => attempt[o] = "none"
  /\ o \in confirming => attempt[o] = "pending" /\ HasLines(o)

\* What a transaction on another order does to order p: nothing.
Untouched(p) ==
  /\ status'[p] = status[p] /\ attempt'[p] = attempt[p] /\ hold'[p] = hold[p]
  /\ p \in confirming' <=> p \in confirming
  /\ \A l \in LinesOf(p) : lineQuantity'[l] = lineQuantity[l] /\ allocated'[l] = allocated[l]

LEMMA UntouchedStaysCovered ==
  ASSUME NEW p \in Orders, OrderIsCovered(p), Untouched(p)
  PROVE  OrderIsCovered(p)'
<1>1. OwnsItsLines(p)' <=> OwnsItsLines(p)
  BY DEF Untouched, OwnsItsLines, LinesOf
<1>2. HasLines(p)' <=> HasLines(p)
  BY DEF Untouched, HasLines, LinesOf
<1> QED
  BY <1>1, <1>2 DEF OrderIsCovered, Untouched

\* Transactions of one order leave all others alone.
LEMMA OthersUntouched ==
  ASSUME IInv, NEW o \in Orders, OrderStep(o) \/ PaymentStep(o), NEW p \in Orders, p # o
  PROVE  Untouched(p)
<1> USE DEF Untouched, orderVars, allocationVars, batchVars
<1>1. \A l \in LinesOf(p) : l \in Lines /\ OrderOf[l] # o
  BY DEF LinesOf
<1>2. TypeOK
  BY DEF IInv
<1>3. \A l \in LinesOf(p) : Released(o)[l] = allocated[l]
  BY <1>1 DEF Released
<1>4. ASSUME NEW wanted, NEW newHold, NEW kept,
             \A l \in LinesOf(p) : kept[l] = allocated[l],
             ReserveOnTopOf(o, wanted, kept, newHold)
      PROVE  hold'[p] = hold[p] /\ \A l \in LinesOf(p) : allocated'[l] = allocated[l]
  BY <1>1, <1>2, <1>4 DEF ReserveOnTopOf, TypeOK
<1>5. CASE CreateDraft(o) \/ EditDraft(o) \/ DiscardDraft(o) \/ DeliverOrder(o)
  BY <1>1, <1>2, <1>5 DEF CreateDraft, EditDraft, DiscardDraft, DeliverOrder, TypeOK
<1>6. CASE PlaceBusinessOrder(o)
  <2>1. ReserveOnTopOf(o, lineQuantity, allocated, "permanent")
    BY <1>6 DEF PlaceBusinessOrder
  <2>2. hold'[p] = hold[p] /\ \A l \in LinesOf(p) : allocated'[l] = allocated[l]
    BY <2>1, <1>4
  <2> QED
    BY <1>2, <1>6, <2>2 DEF PlaceBusinessOrder, TypeOK
<1>7. CASE UpdatePlacedOrder(o)
  <2>1. PICK wanted \in [LinesOf(o) -> Quantity] : ReplaceLines(o, wanted)
    BY <1>7 DEF UpdatePlacedOrder
  <2>2. ReserveOnTopOf(o, wanted, Released(o), "permanent")
    BY <2>1 DEF ReplaceLines
  <2>3. hold'[p] = hold[p] /\ \A l \in LinesOf(p) : allocated'[l] = allocated[l]
    BY <2>2, <1>3, <1>4
  <2>4. \A l \in LinesOf(p) : lineQuantity'[l] = lineQuantity[l]
    BY <1>1, <2>1 DEF ReplaceLines
  <2> QED
    BY <1>2, <2>1, <2>3, <2>4 DEF ReplaceLines
<1>8. CASE CancelOrder(o) \/ FailRetailPayment(o)
  BY <1>2, <1>3, <1>8 DEF CancelOrder, FailRetailPayment, Release, TypeOK
<1>9. CASE PackOrder(o)
  BY <1>2, <1>9 DEF PackOrder, TypeOK
<1>10. CASE StartRetailPayment(o)
  <2>1. ReserveOnTopOf(o, lineQuantity, Released(o), "live")
    BY <1>10 DEF StartRetailPayment
  <2>2. hold'[p] = hold[p] /\ \A l \in LinesOf(p) : allocated'[l] = allocated[l]
    BY <2>1, <1>3, <1>4
  <2> QED
    BY <1>2, <1>10, <2>2 DEF StartRetailPayment, TypeOK
<1>11. CASE ReadLiveHold(o) \/ PlacePaidOrder(o) \/ AbandonConfirmation(o) \/ HoldLapses(o)
  BY <1>2, <1>11 DEF ReadLiveHold, PlacePaidOrder, AbandonConfirmation, HoldLapses, TypeOK
<1> QED
  BY <1>5, <1>6, <1>7, <1>8, <1>9, <1>10, <1>11 DEF OrderStep, PaymentStep

-----------------------------------------------------------------------------
(* What a reservation gives an order that starts from nothing.             *)

\* Each line gets exactly what it wants, from batches that are orderable.
LEMMA ReserveServes ==
  ASSUME TypeOK, NEW o \in Orders, NEW wanted, \A l \in LinesOf(o) : wanted[l] \in Nat,
         NEW newHold \in {"live", "permanent"},
         NEW kept \in [Lines -> [Batches -> Quantity]],
         \A l \in Lines : kept[l] = IF OrderOf[l] = o THEN NoPicks ELSE allocated[l],
         ReserveOnTopOf(o, wanted, kept, newHold),
         NEW l \in LinesOf(o)
  PROVE  /\ Total(allocated'[l], Pool[l]) = wanted[l]
         /\ \A b \in Batches : allocated'[l][b] > 0 => b \in Pool[l] /\ Orderable(b)
<1>1. PICK plan \in [LinesOf(o) -> [Batches -> Quantity]] :
        /\ IsOrderPlan(o, wanted, kept, plan)
        /\ allocated' = [k \in Lines |->
                           IF OrderOf[k] = o
                           THEN [b \in Batches |-> kept[k][b] + plan[k][b]]
                           ELSE kept[k]]
  BY DEF ReserveOnTopOf
<1>2. l \in Lines /\ OrderOf[l] = o /\ Pool[l] \subseteq Batches
  BY ReservationsAssumption DEF LinesOf
<1>3. \A b \in Batches : plan[l][b] \in Nat /\ allocated'[l][b] = plan[l][b]
  BY <1>1, <1>2, ReservationsAssumption DEF NoPicks, Quantity
<1>4. allocated'[l] = plan[l]
  <2>1. plan[l] \in [Batches -> Quantity]
    OBVIOUS
  <2>2. allocated'[l] = [b \in Batches |-> kept[l][b] + plan[l][b]]
    BY <1>1, <1>2
  <2> QED
    BY <1>3, <2>1, <2>2
<1>5. CASE wanted[l] = 0
  <2>1. plan[l] = NoPicks
    BY <1>1, <1>5 DEF IsOrderPlan
  <2>2. \A b \in Pool[l] : plan[l][b] = 0
    BY <1>2, <2>1 DEF NoPicks
  <2>3. Total(plan[l], Pool[l]) = 0
    BY <2>2, TotalZero
  <2> QED
    BY <1>3, <1>4, <1>5, <2>1, <2>3 DEF NoPicks
<1>6. CASE wanted[l] # 0
  <2> DEFINE pool == OrderablePool(l)
             free == [b \in Batches |-> Allocatable(quantity[b], ReservedBefore(l, kept, plan, b))]
  <2>1. IsFefoPlan(plan[l], pool, free, wanted[l], Earlier)
    BY <1>1, <1>6 DEF IsOrderPlan
  <2>2. DOMAIN plan[l] = Batches
    OBVIOUS
  <2>3. \A b \in Batches \ pool : plan[l][b] = 0
    BY <2>1, <2>2 DEF IsFefoPlan
  <2>4. Total(plan[l], pool) = wanted[l]
    BY <2>1 DEF IsFefoPlan
  <2>5. pool \subseteq Pool[l] /\ IsFiniteSet(Pool[l]) /\ IsFiniteSet(pool)
    BY <1>2, ReservationsAssumption, FS_Subset DEF OrderablePool
  <2>6. \A b \in pool : Orderable(b)
    BY DEF OrderablePool
  <2> HIDE DEF pool
  <2>7. Total(plan[l], Pool[l]) = Total(plan[l], pool)
    BY <1>2, <1>3, <2>3, <2>5, TotalWhereTaken
  <2> QED
    BY <1>3, <1>4, <2>3, <2>4, <2>5, <2>6, <2>7
<1> QED
  BY <1>5, <1>6

Coverage == \A o \in Orders : OrderIsCovered(o)

\* The order a transaction is about stays covered.
LEMMA DraftingKeepsCoverage ==
  ASSUME IInv, Coverage, NEW o \in Orders, CreateDraft(o) \/ EditDraft(o) \/ DiscardDraft(o)
  PROVE  OrderIsCovered(o)'
<1>1. OrderIsCovered(o) /\ TypeOK /\ OnlyRetailPays /\ ConfirmingOrdersAreDrafts
  BY DEF IInv, Coverage
<1>2. attempt[o] = "none" /\ o \notin confirming /\ attempt'[o] = attempt[o]
      /\ confirming' = confirming
  BY <1>1 DEF CreateDraft, EditDraft, DiscardDraft, Business, OrderIsCovered,
              OnlyRetailPays, ConfirmingOrdersAreDrafts
<1>3. status'[o] \in {"none", "draft"}
  BY <1>1 DEF CreateDraft, EditDraft, DiscardDraft, TypeOK
<1> QED
  BY <1>2, <1>3 DEF OrderIsCovered

LEMMA PlacingKeepsCoverage ==
  ASSUME IInv, Coverage, NEW o \in Orders, PlaceBusinessOrder(o)
  PROVE  OrderIsCovered(o)'
<1>1. /\ TypeOK /\ OnlyRetailPays /\ ConfirmingOrdersAreDrafts /\ IdleOrdersHoldNothing
      /\ \A l \in LinesOf(o) : l \in Lines /\ lineQuantity[l] \in Nat
  BY ReservationsAssumption DEF IInv, TypeOK, LinesOf, Quantity
<1>2. /\ o \in Business /\ status[o] = "draft" /\ HasLines(o)
      /\ ReserveOnTopOf(o, lineQuantity, allocated, "permanent")
      /\ status' = [status EXCEPT ![o] = "placed"]
      /\ UNCHANGED <<attempt, confirming, lineQuantity>>
  BY DEF PlaceBusinessOrder
<1>3. attempt[o] = "none" /\ o \notin confirming
  BY <1>1, <1>2 DEF OnlyRetailPays, ConfirmingOrdersAreDrafts, Business
<1>4. \A l \in Lines : allocated[l] = IF OrderOf[l] = o THEN NoPicks ELSE allocated[l]
  BY <1>1, <1>2, <1>3 DEF IdleOrdersHoldNothing, LinesOf
<1>5. allocated \in [Lines -> [Batches -> Quantity]]
  BY <1>1 DEF TypeOK
<1>6. \A l \in LinesOf(o) : Total(allocated'[l], Pool[l]) = lineQuantity[l]
  BY <1>1, <1>2, <1>4, <1>5, ReserveServes
<1>7. hold'[o] = "permanent" /\ status'[o] = "placed"
  BY <1>1, <1>2 DEF ReserveOnTopOf, TypeOK
<1> QED
  BY <1>2, <1>3, <1>6, <1>7 DEF OrderIsCovered, OwnsItsLines, HasLines, LinesOf

LEMMA UpdatingKeepsCoverage ==
  ASSUME IInv, Coverage, NEW o \in Orders, UpdatePlacedOrder(o)
  PROVE  OrderIsCovered(o)'
<1>1. TypeOK /\ ConfirmingOrdersAreDrafts /\ OrderIsCovered(o)
  BY DEF IInv, Coverage
<1>2. PICK wanted \in [LinesOf(o) -> Quantity] : ReplaceLines(o, wanted)
  BY DEF UpdatePlacedOrder
<1>3. /\ o \in Business /\ status[o] = "placed"
      /\ \E l \in LinesOf(o) : wanted[l] > 0
      /\ lineQuantity' = [l \in Lines |-> IF OrderOf[l] = o THEN wanted[l] ELSE lineQuantity[l]]
      /\ ReserveOnTopOf(o, wanted, Released(o), "permanent")
      /\ UNCHANGED <<status, attempt, confirming>>
  BY <1>2 DEF ReplaceLines
<1>4. \A l \in LinesOf(o) : l \in Lines /\ OrderOf[l] = o /\ wanted[l] \in Nat
  BY ReservationsAssumption DEF LinesOf, Quantity
<1>5. /\ Released(o) \in [Lines -> [Batches -> Quantity]]
      /\ \A l \in Lines : Released(o)[l] = IF OrderOf[l] = o THEN NoPicks ELSE allocated[l]
  BY <1>1, ReleasedValue
<1>6. \A l \in LinesOf(o) : Total(allocated'[l], Pool[l]) = wanted[l]
  BY <1>1, <1>3, <1>4, <1>5, ReserveServes
<1>7. hold'[o] = "permanent" /\ o \notin confirming
  BY <1>1, <1>3 DEF ReserveOnTopOf, TypeOK, ConfirmingOrdersAreDrafts
<1>8. \A l \in LinesOf(o) : lineQuantity'[l] = wanted[l]
  BY <1>3, <1>4
<1> QED
  BY <1>1, <1>3, <1>6, <1>7, <1>8 DEF OrderIsCovered, OwnsItsLines, HasLines, LinesOf

LEMMA ClosingKeepsCoverage ==
  ASSUME IInv, Coverage, NEW o \in Orders, CancelOrder(o) \/ PackOrder(o) \/ DeliverOrder(o)
  PROVE  OrderIsCovered(o)'
<1>1. TypeOK /\ ConfirmingOrdersAreDrafts /\ OrderIsCovered(o)
  BY DEF IInv, Coverage
<1>2. o \notin confirming /\ UNCHANGED <<attempt, confirming, lineQuantity>>
  BY <1>1 DEF CancelOrder, PackOrder, DeliverOrder, ConfirmingOrdersAreDrafts
<1>3. CASE CancelOrder(o)
  <2>1. status'[o] = "cancelled" /\ status[o] \in {"draft", "placed"}
    BY <1>1, <1>3 DEF CancelOrder, TypeOK
  <2> QED
    BY <1>2, <2>1 DEF OrderIsCovered
<1>4. CASE PackOrder(o) \/ DeliverOrder(o)
  <2>1. /\ status'[o] \in {"packed", "delivered"} /\ allocated' = allocated
        /\ hold'[o] = "consumed" /\ OwnsItsLines(o)
    BY <1>1, <1>4 DEF PackOrder, DeliverOrder, allocationVars, OrderIsCovered, TypeOK
  <2>2. OwnsItsLines(o)'
    BY <1>2, <2>1 DEF OwnsItsLines, LinesOf
  <2> QED
    BY <1>2, <2>1, <2>2 DEF OrderIsCovered
<1> QED
  BY <1>3, <1>4

LEMMA StartingPaymentKeepsCoverage ==
  ASSUME IInv, Coverage, NEW o \in Orders, StartRetailPayment(o)
  PROVE  OrderIsCovered(o)'
<1>1. /\ TypeOK /\ OrderIsCovered(o)
      /\ \A l \in LinesOf(o) : l \in Lines /\ lineQuantity[l] \in Nat
  BY ReservationsAssumption DEF IInv, Coverage, TypeOK, LinesOf, Quantity
<1>2. /\ status[o] = "draft" /\ attempt[o] # "pending"
      /\ ReserveOnTopOf(o, lineQuantity, Released(o), "live")
      /\ attempt' = [attempt EXCEPT ![o] = "pending"]
      /\ UNCHANGED <<status, confirming, lineQuantity>>
  BY DEF StartRetailPayment
<1>3. /\ Released(o) \in [Lines -> [Batches -> Quantity]]
      /\ \A l \in Lines : Released(o)[l] = IF OrderOf[l] = o THEN NoPicks ELSE allocated[l]
  BY <1>1, ReleasedValue
<1>4. \A l \in LinesOf(o) : Total(allocated'[l], Pool[l]) = lineQuantity[l]
  BY <1>1, <1>2, <1>3, ReserveServes
<1>5. hold'[o] = "live" /\ attempt'[o] = "pending" /\ o \notin confirming
  BY <1>1, <1>2 DEF ReserveOnTopOf, TypeOK, OrderIsCovered
<1> QED
  BY <1>2, <1>4, <1>5 DEF OrderIsCovered, OwnsItsLines, LinesOf

LEMMA ConfirmingKeepsCoverage ==
  ASSUME IInv, Coverage, NEW o \in Orders,
         ReadLiveHold(o) \/ PlacePaidOrder(o) \/ AbandonConfirmation(o)
  PROVE  OrderIsCovered(o)'
<1>1. TypeOK /\ ConfirmingOrdersAreDrafts /\ OrderIsCovered(o)
  BY DEF IInv, Coverage
<1>2. UNCHANGED <<lineQuantity, allocated>>
  BY DEF ReadLiveHold, PlacePaidOrder, AbandonConfirmation, allocationVars
<1>3. (OwnsItsLines(o)' <=> OwnsItsLines(o)) /\ (HasLines(o)' <=> HasLines(o))
  BY <1>2 DEF OwnsItsLines, HasLines, LinesOf
<1>4. CASE ReadLiveHold(o) \/ AbandonConfirmation(o)
  <2>1. /\ status' = status /\ attempt' = attempt /\ hold' = hold
        /\ o \in confirming' => attempt[o] = "pending" /\ HasLines(o)
    BY <1>1, <1>4 DEF ReadLiveHold, AbandonConfirmation, allocationVars, OrderIsCovered
  <2> QED
    BY <1>1, <1>3, <2>1 DEF OrderIsCovered
<1>5. CASE PlacePaidOrder(o)
  <2>1. /\ o \in confirming /\ hold'[o] = "permanent" /\ status'[o] = "placed"
        /\ attempt'[o] = "succeeded" /\ o \notin confirming'
    BY <1>1, <1>5 DEF PlacePaidOrder, TypeOK
  <2>2. status[o] = "draft" /\ attempt[o] = "pending" /\ HasLines(o)
    BY <1>1, <2>1 DEF ConfirmingOrdersAreDrafts, OrderIsCovered
  <2>3. OwnsItsLines(o)
    BY <1>1, <2>2 DEF OrderIsCovered
  <2> QED
    BY <1>3, <2>1, <2>2, <2>3 DEF OrderIsCovered
<1> QED
  BY <1>4, <1>5

LEMMA LosingTheHoldKeepsCoverage ==
  ASSUME IInv, Coverage, NEW o \in Orders, FailRetailPayment(o) \/ HoldLapses(o)
  PROVE  OrderIsCovered(o)'
<1>1. TypeOK /\ OrderIsCovered(o)
  BY DEF IInv, Coverage
<1>2. CASE FailRetailPayment(o)
  <2>1. /\ status[o] = "draft" /\ o \notin confirming /\ attempt'[o] = "failed"
        /\ UNCHANGED <<status, confirming>>
    BY <1>1, <1>2 DEF FailRetailPayment, TypeOK
  <2> QED
    BY <2>1 DEF OrderIsCovered
<1>3. CASE HoldLapses(o)
  <2>1. /\ hold[o] = "live" /\ hold'[o] = "lapsed"
        /\ UNCHANGED <<status, attempt, confirming, lineQuantity, allocated>>
    BY <1>1, <1>3 DEF HoldLapses, orderVars, TypeOK
  <2>2. (OwnsItsLines(o)' <=> OwnsItsLines(o)) /\ (HasLines(o)' <=> HasLines(o))
    BY <2>1 DEF OwnsItsLines, HasLines, LinesOf
  <2> QED
    BY <1>1, <2>1, <2>2 DEF OrderIsCovered
<1> QED
  BY <1>2, <1>3

LEMMA CoverageStep ==
  ASSUME IInv, Coverage, [Next]_vars
  PROVE  Coverage'
<1>1. ASSUME NEW o \in Orders, OrderStep(o) \/ PaymentStep(o)
      PROVE  Coverage'
  <2> SUFFICES ASSUME NEW p \in Orders PROVE OrderIsCovered(p)'
    BY DEF Coverage
  <2>1. CASE p = o
    BY <1>1, <2>1, DraftingKeepsCoverage, PlacingKeepsCoverage, UpdatingKeepsCoverage,
       ClosingKeepsCoverage, StartingPaymentKeepsCoverage, ConfirmingKeepsCoverage,
       LosingTheHoldKeepsCoverage
       DEF OrderStep, PaymentStep
  <2>2. CASE p # o
    BY <1>1, <2>2, OthersUntouched, UntouchedStaysCovered DEF Coverage
  <2> QED
    BY <2>1, <2>2
<1>2. CASE (\E b \in Batches : BatchStep(b)) \/ NextDay \/ UNCHANGED vars
  <2>1. \A p \in Orders : Untouched(p)
    BY <1>2 DEF BatchStep, CreateBatch, UpdateBatch, CloseBatch, NextDay, vars, orderVars,
                allocationVars, Untouched
  <2> QED
    BY <2>1, UntouchedStaysCovered DEF Coverage
<1> QED
  BY <1>1, <1>2 DEF Next

LEMMA CoverageHolds == Spec => [](IInv /\ Coverage)
<1>1. Init => Coverage
  BY DEF Init, Coverage, OrderIsCovered
<1>2. IInv /\ Coverage /\ [Next]_vars => Coverage'
  BY CoverageStep
<1> QED
  BY <1>1, <1>2, InvariantHolds, PTL DEF Spec

\* A placed, packed or delivered order owns, from batches its offers
\* represent, exactly the units of each of its lines, permanently until it is
\* packed and consumed from then on; no assumption on clocks is needed.
THEOREM PlacedOrdersAreAlwaysCovered == Spec => []PlacedOrdersAreCovered
<1>1. Coverage => PlacedOrdersAreCovered
  BY DEF Coverage, OrderIsCovered, OwnsItsLines, PlacedOrdersAreCovered
<1> QED
  BY <1>1, CoverageHolds, PTL

\* While a customer is paying, the order owns its whole basket, though its
\* hold may have lapsed; an order marked paid was placed.
THEOREM PayingOrdersAreAlwaysHeld == Spec => []PayingOrdersAreHeld
<1>1. Coverage => PayingOrdersAreHeld
  BY DEF Coverage, OrderIsCovered, OwnsItsLines, PayingOrdersAreHeld
<1> QED
  BY <1>1, CoverageHolds, PTL

-----------------------------------------------------------------------------
(* Stock and promises per batch.                                           *)

\* A reservation adds to the promises of orderable batches only.
LEMMA ReserveGrowsOrderable ==
  ASSUME TypeOK, TypeOK', NEW o \in Orders, NEW wanted, \A l \in LinesOf(o) : wanted[l] \in Nat,
         NEW newHold \in {"live", "permanent"},
         NEW kept \in [Lines -> [Batches -> Quantity]],
         \A l \in Lines : kept[l] = IF OrderOf[l] = o THEN NoPicks ELSE allocated[l],
         ReserveOnTopOf(o, wanted, kept, newHold),
         NEW b \in Batches, ~Orderable(b)
  PROVE  Reserved(b)' <= Reserved(b)
<1> DEFINE f == [l \in Lines |-> allocated'[l][b]]
           g == [l \in Lines |-> allocated[l][b]]
           others == ReservedLines' \ LinesOf(o)
<1>1. /\ ReservedLines \in SUBSET Lines /\ ReservedLines' \in SUBSET Lines
      /\ LinesOf(o) \in SUBSET Lines
  BY DEF ReservedLines, LinesOf
<1>2. \A l \in Lines : f[l] \in Nat /\ g[l] \in Nat
  BY ReservationsAssumption DEF TypeOK, Quantity
<1>3. \A l \in LinesOf(o) : f[l] = 0
  <2> SUFFICES ASSUME NEW l \in LinesOf(o) PROVE f[l] = 0
    OBVIOUS
  <2>1. ~(allocated'[l][b] > 0)
    BY ReserveServes
  <2> QED
    BY <1>1, <1>2, <2>1
<1>4. \A l \in others : l \in ReservedLines /\ f[l] = g[l]
  BY <1>1, ReservationsAssumption
     DEF ReserveOnTopOf, ReservedLines, CountsAsReserved, LinesOf, TypeOK
<1>5. Reserved(b)' = Total(f, ReservedLines') /\ Reserved(b) = Total(g, ReservedLines)
  BY DEF Reserved
<1> HIDE DEF f, g
<1>6. others \subseteq ReservedLines' /\ \A l \in ReservedLines' \ others : f[l] = 0
  BY <1>3
<1>7. Total(f, ReservedLines') = Total(f, others)
  BY <1>1, <1>2, <1>6, FiniteLines, TotalWhereTaken
<1>8. Total(f, others) <= Total(g, ReservedLines)
  BY <1>1, <1>2, <1>4, FiniteLines, TotalMonotone
<1> QED
  BY <1>5, <1>7, <1>8

\* No transaction on an order adds to the promises of a batch that is not
\* orderable - provided a hold that is made permanent is still live.
LEMMA PromisesGrowWhereOrderable ==
  ASSUME IInv, IInv', HoldsOutliveConfirmation, NEW o \in Orders, OrderStep(o) \/ PaymentStep(o),
         NEW b \in Batches, ~Orderable(b)
  PROVE  Reserved(b)' <= Reserved(b)
<1>1. TypeOK /\ TypeOK' /\ IdleOrdersHoldNothing /\ OnlyRetailPays /\ ConfirmingHoldsAreLive
  BY DEF IInv, StockIsKept
<1>2. Reserved(b) \in Nat
  BY <1>1, ReservedType
<1>3. \A l \in LinesOf(o) : l \in Lines /\ lineQuantity[l] \in Nat
  BY <1>1, ReservationsAssumption DEF TypeOK, LinesOf, Quantity
<1>4. /\ Released(o) \in [Lines -> [Batches -> Quantity]]
      /\ \A l \in Lines : Released(o)[l] = IF OrderOf[l] = o THEN NoPicks ELSE allocated[l]
  BY <1>1, ReleasedValue
<1>5. CASE UNCHANGED allocationVars
  BY <1>2, <1>5, ReservedUnchanged
<1>6. CASE PlaceBusinessOrder(o)
  <2>1. /\ o \in Business /\ status[o] = "draft"
        /\ ReserveOnTopOf(o, lineQuantity, allocated, "permanent")
    BY <1>6 DEF PlaceBusinessOrder
  <2>2. \A l \in Lines : allocated[l] = IF OrderOf[l] = o THEN NoPicks ELSE allocated[l]
    BY <1>1, <2>1 DEF IdleOrdersHoldNothing, OnlyRetailPays, Business, LinesOf
  <2>3. allocated \in [Lines -> [Batches -> Quantity]]
    BY <1>1 DEF TypeOK
  <2> QED
    BY <1>1, <1>3, <2>1, <2>2, <2>3, ReserveGrowsOrderable
<1>7. CASE UpdatePlacedOrder(o)
  <2>1. PICK wanted \in [LinesOf(o) -> Quantity] :
          ReserveOnTopOf(o, wanted, Released(o), "permanent")
    BY <1>7 DEF UpdatePlacedOrder, ReplaceLines
  <2>2. \A l \in LinesOf(o) : wanted[l] \in Nat
    BY ReservationsAssumption DEF Quantity
  <2> QED
    BY <1>1, <1>4, <2>1, <2>2, ReserveGrowsOrderable
<1>8. CASE StartRetailPayment(o)
  <2>1. ReserveOnTopOf(o, lineQuantity, Released(o), "live")
    BY <1>8 DEF StartRetailPayment
  <2> QED
    BY <1>1, <1>3, <1>4, <2>1, ReserveGrowsOrderable
<1>9. CASE CancelOrder(o) \/ FailRetailPayment(o)
  <2>1. Release(o)
    BY <1>9 DEF CancelOrder, FailRetailPayment
  <2>2. \A l \in ReservedLines' : l \in ReservedLines /\ allocated'[l] = allocated[l]
    BY <1>1, <2>1, ReleaseGivesBack, ReservationsAssumption
       DEF ReservedLines, CountsAsReserved, TypeOK
  <2> QED
    BY <1>1, <2>2, ReservedShrinks
<1>10. CASE PackOrder(o) \/ HoldLapses(o) \/ PlacePaidOrder(o)
  <2>1. \A l \in Lines : OrderOf[l] \in Orders
    BY ReservationsAssumption
  <2>2. ASSUME allocated' = allocated, NEW new, hold' = [hold EXCEPT ![o] = new],
               new \in {"live", "permanent"} => CountsAsReserved(o)
        PROVE  Reserved(b)' <= Reserved(b)
    <3>1. \A p \in Orders : hold'[p] = IF p = o THEN new ELSE hold[p]
      BY <1>1, <2>2 DEF TypeOK
    <3>2. \A p \in Orders : CountsAsReserved(p)' => CountsAsReserved(p)
      BY <2>2, <3>1 DEF CountsAsReserved
    <3>3. ReservedLines' \subseteq ReservedLines
      BY <2>1, <3>2 DEF ReservedLines
    <3> QED
      BY <1>1, <2>2, <3>3, ReservedShrinks
  <2>3. CASE PackOrder(o)
    BY <2>3, <2>2 DEF PackOrder
  <2>4. CASE HoldLapses(o)
    BY <2>4, <2>2 DEF HoldLapses
  <2>5. CASE PlacePaidOrder(o)
    BY <1>1, <2>5, <2>2 DEF PlacePaidOrder, ConfirmingHoldsAreLive, CountsAsReserved
  <2> QED
    BY <1>10, <2>3, <2>4, <2>5
<1> QED
  BY <1>5, <1>6, <1>7, <1>8, <1>9, <1>10
     DEF OrderStep, PaymentStep, CreateDraft, EditDraft, DiscardDraft, DeliverOrder,
         ReadLiveHold, AbandonConfirmation

\* An open batch is ACTIVE exactly when it has stock; a batch that does not
\* exist has none.
BatchesInSync ==
  \A b \in Batches :
    /\ batchStatus[b] = "active" => quantity[b] > 0
    /\ batchStatus[b] \in {"depleted", "absent"} => quantity[b] = 0

Backing == BatchesInSync /\ (HoldsOutliveConfirmation => ClosedBatchesBackNothing)

\* What a step does to a batch's row: nothing, unless it packs an order or is
\* about batches.
LEMMA OrdersLeaveBatches ==
  ASSUME NEW o \in Orders, OrderStep(o) \/ PaymentStep(o), ~PackOrder(o)
  PROVE  UNCHANGED <<quantity, batchStatus, shelfLife>>
<1> QED
  BY DEF OrderStep, PaymentStep, CreateDraft, EditDraft, DiscardDraft, PlaceBusinessOrder,
         UpdatePlacedOrder, ReplaceLines, CancelOrder, DeliverOrder, StartRetailPayment,
         ReadLiveHold, PlacePaidOrder, AbandonConfirmation, FailRetailPayment, HoldLapses,
         batchVars

-----------------------------------------------------------------------------
(* Overbooking, whatever the clock does.                                   *)

\* No transaction but the completion of a payment promises more of a batch
\* than there is, or adds to what was promised beyond it.
LEMMA OtherStepsDoNotOverbook ==
  ASSUME IInv, IInv', NEW o \in Orders, OrderStep(o) \/ PaymentStep(o), ~PlacePaidOrder(o),
         NEW b \in Batches
  PROVE  Reserved(b)' <= quantity[b] \/ Reserved(b)' <= Reserved(b)
<1>1. TypeOK /\ TypeOK' /\ IdleOrdersHoldNothing /\ OnlyRetailPays
  BY DEF IInv
<1>2. Reserved(b) \in Nat
  BY <1>1, ReservedType
<1>3. /\ Released(o) \in [Lines -> [Batches -> Quantity]]
      /\ \A l \in Lines : Released(o)[l] = IF OrderOf[l] = o THEN NoPicks ELSE allocated[l]
  BY <1>1, ReleasedValue
<1>4. CASE UNCHANGED allocationVars
  BY <1>2, <1>4, ReservedUnchanged
<1>5. CASE PlaceBusinessOrder(o)
  <2>1. /\ o \in Business /\ status[o] = "draft"
        /\ ReserveOnTopOf(o, lineQuantity, allocated, "permanent")
    BY <1>5 DEF PlaceBusinessOrder
  <2>2. \A l \in Lines : allocated[l] = IF OrderOf[l] = o THEN NoPicks ELSE allocated[l]
    BY <1>1, <2>1 DEF IdleOrdersHoldNothing, OnlyRetailPays, Business, LinesOf
  <2>3. allocated \in [Lines -> [Batches -> Quantity]]
    BY <1>1 DEF TypeOK
  <2> QED
    BY <1>1, <2>1, <2>2, <2>3, ReserveGives
<1>6. CASE UpdatePlacedOrder(o)
  <2>1. PICK wanted \in [LinesOf(o) -> Quantity] :
          ReserveOnTopOf(o, wanted, Released(o), "permanent")
    BY <1>6 DEF UpdatePlacedOrder, ReplaceLines
  <2> QED
    BY <1>1, <1>3, <2>1, ReserveGives
<1>7. CASE StartRetailPayment(o)
  <2>1. ReserveOnTopOf(o, lineQuantity, Released(o), "live")
    BY <1>7 DEF StartRetailPayment
  <2> QED
    BY <1>1, <1>3, <2>1, ReserveGives
<1>8. CASE CancelOrder(o) \/ FailRetailPayment(o)
  <2>1. Release(o)
    BY <1>8 DEF CancelOrder, FailRetailPayment
  <2>2. \A l \in ReservedLines' : l \in ReservedLines /\ allocated'[l] = allocated[l]
    BY <1>1, <2>1, ReleaseGivesBack, ReservationsAssumption
       DEF ReservedLines, CountsAsReserved, TypeOK
  <2> QED
    BY <1>1, <2>2, ReservedShrinks
<1>9. CASE PackOrder(o) \/ HoldLapses(o)
  <2>1. allocated' = allocated /\ \A p \in Orders : CountsAsReserved(p)' => CountsAsReserved(p)
    BY <1>1, <1>9 DEF PackOrder, HoldLapses, TypeOK, CountsAsReserved
  <2>2. ReservedLines' \subseteq ReservedLines
    BY <2>1, ReservationsAssumption DEF ReservedLines
  <2> QED
    BY <1>1, <2>1, <2>2, ReservedShrinks
<1> QED
  BY <1>4, <1>5, <1>6, <1>7, <1>8, <1>9
     DEF OrderStep, PaymentStep, CreateDraft, EditDraft, DiscardDraft, DeliverOrder,
         ReadLiveHold, AbandonConfirmation

\* Completing a payment whose hold has lapsed promises its units again.
LEMMA LateConfirmationPromisesAgain ==
  ASSUME TypeOK, NEW o \in Orders, hold[o] = "lapsed",
         hold' = [hold EXCEPT ![o] = "permanent"], allocated' = allocated, NEW b \in Batches
  PROVE  Reserved(b)' = Reserved(b) + PickedFrom(o, b)
<1> DEFINE f == [l \in Lines |-> allocated[l][b]]
<1>1. ReservedLines' = ReservedLines \cup LinesOf(o) /\ ReservedLines \cap LinesOf(o) = {}
  BY ReservationsAssumption DEF TypeOK, ReservedLines, CountsAsReserved, LinesOf
<1>2. \A l \in Lines : f[l] \in Nat
  BY ReservationsAssumption DEF TypeOK, Quantity
<1>3. Reserved(b)' = Total(f, ReservedLines \cup LinesOf(o)) /\ Reserved(b) = Total(f, ReservedLines)
      /\ PickedFrom(o, b) = Total(f, LinesOf(o))
  BY <1>1, Zenon DEF Reserved, PickedFrom
<1> HIDE DEF f
<1>4. /\ IsFiniteSet(ReservedLines) /\ IsFiniteSet(LinesOf(o))
      /\ \A l \in ReservedLines \cup LinesOf(o) : f[l] \in Nat
  BY <1>2, FiniteLines DEF ReservedLines, LinesOf
<1>5. Total(f, ReservedLines \cup LinesOf(o)) = Total(f, ReservedLines) + Total(f, LinesOf(o))
  BY <1>1, <1>4, TotalUnion
<1> QED
  BY <1>3, <1>5, Zenon

LEMMA OverbookingStep ==
  ASSUME IInv, IInv', Coverage, [Next]_vars, NEW b \in Batches,
         Reserved(b)' > quantity'[b],
         Reserved(b)' - quantity'[b] > Reserved(b) - quantity[b]
  PROVE  \E o \in confirming : /\ hold[o] = "lapsed" /\ hold'[o] = "permanent"
                               /\ PickedFrom(o, b) > 0
<1>1. TypeOK /\ TypeOK'
  BY DEF IInv
<1>2. /\ Reserved(b) \in Nat /\ Reserved(b)' \in Nat
      /\ quantity[b] \in Nat /\ quantity'[b] \in Nat
  BY <1>1, ReservedType, ReservedTypeNext, ReservationsAssumption DEF TypeOK, Quantity
<1>3. CASE \E o \in Orders : OrderStep(o) \/ PaymentStep(o)
  <2>1. PICK o \in Orders : OrderStep(o) \/ PaymentStep(o)
    BY <1>3
  <2>2. CASE PackOrder(o)
    <3>1. /\ status[o] = "placed" /\ hold' = [hold EXCEPT ![o] = "consumed"]
          /\ allocated' = allocated /\ quantity'[b] = quantity[b] - PickedFrom(o, b)
      BY <2>2 DEF PackOrder
    <3>2. CountsAsReserved(o)
      BY <3>1 DEF IInv, PlacedOrdersReserve, CountsAsReserved
    <3>3. Reserved(b) = Reserved(b)' + PickedFrom(o, b) /\ PickedFrom(o, b) \in Nat
      BY <1>1, <3>1, <3>2, PackingTakesItsPromises, PickedType
    <3> QED
      BY <1>2, <3>1, <3>3
  <2>3. CASE PlacePaidOrder(o)
    <3>1. /\ o \in confirming /\ hold' = [hold EXCEPT ![o] = "permanent"]
          /\ allocated' = allocated /\ quantity' = quantity
      BY <2>3 DEF PlacePaidOrder, batchVars
    <3>2. hold[o] \in {"live", "lapsed"}
      BY <3>1 DEF IInv, ConfirmingOrdersAreDrafts, Coverage, OrderIsCovered
    <3>3. CASE hold[o] = "live"
      <4>1. \A p \in Orders : CountsAsReserved(p)' <=> CountsAsReserved(p)
        BY <1>1, <3>1, <3>3 DEF CountsAsReserved, TypeOK
      <4>2. ReservedLines' \subseteq ReservedLines
        BY <4>1, ReservationsAssumption DEF ReservedLines
      <4>3. Reserved(b)' <= Reserved(b)
        BY <1>1, <3>1, <4>2, ReservedShrinks
      <4> QED
        BY <1>2, <3>1, <4>3
    <3>4. CASE hold[o] = "lapsed"
      <4>1. Reserved(b)' = Reserved(b) + PickedFrom(o, b) /\ PickedFrom(o, b) \in Nat
        BY <1>1, <3>1, <3>4, LateConfirmationPromisesAgain, PickedType
      <4>2. PickedFrom(o, b) > 0
        BY <1>2, <3>1, <4>1
      <4>3. hold'[o] = "permanent"
        BY <1>1, <3>1 DEF TypeOK
      <4> QED
        BY <3>1, <3>4, <4>2, <4>3
    <3> QED
      BY <3>2, <3>3, <3>4
  <2>4. CASE ~PackOrder(o) /\ ~PlacePaidOrder(o)
    <3>1. Reserved(b)' <= quantity[b] \/ Reserved(b)' <= Reserved(b)
      BY <2>1, <2>4, OtherStepsDoNotOverbook
    <3>2. quantity'[b] = quantity[b]
      BY <2>1, <2>4, OrdersLeaveBatches
    <3> QED
      BY <1>2, <3>1, <3>2
  <2> QED
    BY <2>2, <2>3, <2>4
<1>4. CASE (\E c \in Batches : BatchStep(c)) \/ NextDay \/ UNCHANGED vars
  <2>1. Reserved(b)' = Reserved(b)
    BY <1>4, ReservedUnchanged
       DEF BatchStep, CreateBatch, UpdateBatch, CloseBatch, NextDay, vars
  <2>2. quantity'[b] = quantity[b] \/ quantity'[b] >= Reserved(b) \/ quantity[b] = 0
    BY <1>1, <1>4
       DEF BatchStep, CreateBatch, UpdateBatch, CloseBatch, NextDay, vars, batchVars,
           IInv, AbsentBatchesAreEmpty, TypeOK
  <2> QED
    BY <1>2, <2>1, <2>2
<1> QED
  BY <1>3, <1>4 DEF Next

\* Whatever the clock does, overbooking has one cause: no step promises more
\* of a batch than there is, or adds to what was promised beyond it, except
\* the completion of a payment whose hold lapsed after the completion had
\* read it (make_reservations_permanent_for_order), and then only on batches
\* that hold had units of.
THEOREM OnlyLateConfirmationsCanOverbook == Spec => OnlyLateConfirmationsOverbook
<1>1. (IInv /\ Coverage) /\ (IInv /\ Coverage)' /\ [Next]_vars =>
        [\A b \in Batches :
           (/\ Reserved(b)' > quantity'[b]
            /\ Reserved(b)' - quantity'[b] > Reserved(b) - quantity[b]) =>
              \E o \in confirming : /\ hold[o] = "lapsed" /\ hold'[o] = "permanent"
                                    /\ PickedFrom(o, b) > 0]_vars
  BY OverbookingStep
<1> QED
  BY <1>1, CoverageHolds, PTL DEF Spec, OnlyLateConfirmationsOverbook

-----------------------------------------------------------------------------
(* Batches and the stock ledger. *)

LEMMA SyncStep ==
  ASSUME IInv, IInv', BatchesInSync, [Next]_vars
  PROVE  BatchesInSync'
<1>1. TypeOK /\ TypeOK'
  BY DEF IInv
<1>2. CASE UNCHANGED <<quantity, batchStatus>>
  BY <1>2 DEF BatchesInSync
<1>3. ASSUME NEW o \in Orders, PackOrder(o)
      PROVE  BatchesInSync'
  <2> SUFFICES ASSUME NEW b \in Batches
               PROVE  /\ batchStatus'[b] = "active" => quantity'[b] > 0
                      /\ batchStatus'[b] \in {"depleted", "absent"} => quantity'[b] = 0
    BY DEF BatchesInSync
  <2>1. /\ quantity'[b] = quantity[b] - PickedFrom(o, b)
        /\ batchStatus'[b] = IF PickedFrom(o, b) > 0
                             THEN SyncedStatus(b, quantity[b] - PickedFrom(o, b))
                             ELSE batchStatus[b]
    BY <1>3 DEF PackOrder
  <2>2. PickedFrom(o, b) \in Nat /\ quantity[b] \in Nat /\ quantity'[b] \in Nat
    BY <1>1, PickedType, ReservationsAssumption DEF TypeOK, Quantity
  <2>3. CASE PickedFrom(o, b) > 0
    BY <2>1, <2>2, <2>3 DEF SyncedStatus
  <2>4. CASE PickedFrom(o, b) = 0
    BY <2>1, <2>2, <2>4 DEF BatchesInSync
  <2> QED
    BY <2>2, <2>3, <2>4
<1>4. ASSUME NEW b \in Batches, CreateBatch(b) \/ UpdateBatch(b) \/ CloseBatch(b)
      PROVE  BatchesInSync'
  <2>1. CASE CreateBatch(b)
    BY <1>1, <2>1, ReservationsAssumption DEF CreateBatch, BatchesInSync, TypeOK, Quantity
  <2>2. CASE UpdateBatch(b)
    BY <1>1, <2>2, ReservationsAssumption
       DEF UpdateBatch, SyncedStatus, BatchesInSync, TypeOK, Quantity
  <2>3. CASE CloseBatch(b)
    BY <1>1, <2>3 DEF CloseBatch, BatchesInSync, TypeOK
  <2> QED
    BY <1>4, <2>1, <2>2, <2>3
<1>5. ASSUME NEW o \in Orders, OrderStep(o) \/ PaymentStep(o), ~PackOrder(o)
      PROVE  UNCHANGED <<quantity, batchStatus>>
  BY <1>5, OrdersLeaveBatches
<1> QED
  BY <1>2, <1>3, <1>4, <1>5 DEF Next, BatchStep, NextDay, vars, batchVars

LEMMA ClosedStep ==
  ASSUME IInv, IInv', HoldsOutliveConfirmation, ClosedBatchesBackNothing, [Next]_vars
  PROVE  ClosedBatchesBackNothing'
<1> SUFFICES ASSUME NEW b \in Batches, batchStatus'[b] = "closed"
             PROVE  Reserved(b)' = 0
  BY DEF ClosedBatchesBackNothing
<1>1. TypeOK /\ TypeOK' /\ Reserved(b) \in Nat /\ Reserved(b)' \in Nat
  BY ReservedType, ReservedTypeNext DEF IInv
<1>2. ASSUME NEW o \in Orders, OrderStep(o) \/ PaymentStep(o)
      PROVE  Reserved(b)' = 0
  <2>1. batchStatus[b] = "closed"
    <3>1. CASE PackOrder(o)
      BY <1>1, <3>1 DEF PackOrder, SyncedStatus, TypeOK
    <3>2. CASE ~PackOrder(o)
      BY <1>2, <3>2, OrdersLeaveBatches
    <3> QED
      BY <3>1, <3>2
  <2>2. Reserved(b) = 0 /\ ~Orderable(b)
    BY <2>1 DEF ClosedBatchesBackNothing, Orderable
  <2>3. Reserved(b)' <= Reserved(b)
    BY <1>2, <2>2, PromisesGrowWhereOrderable
  <2> QED
    BY <1>1, <2>2, <2>3
<1>3. ASSUME (\E c \in Batches : BatchStep(c)) \/ NextDay \/ UNCHANGED vars
      PROVE  Reserved(b)' = 0
  <2>1. Reserved(b)' = Reserved(b)
    BY <1>3, ReservedUnchanged
       DEF BatchStep, CreateBatch, UpdateBatch, CloseBatch, NextDay, vars
  <2>2. batchStatus[b] = "closed" \/ Reserved(b) = 0
    BY <1>1, <1>3
       DEF BatchStep, CreateBatch, UpdateBatch, CloseBatch, NextDay, vars, batchVars,
           SyncedStatus, TypeOK
  <2> QED
    BY <2>1, <2>2 DEF ClosedBatchesBackNothing
<1> QED
  BY <1>2, <1>3 DEF Next

LEMMA BackingHolds == Spec => [](IInv /\ Coverage /\ Backing)
<1>1. Init => Backing
  <2> SUFFICES ASSUME Init PROVE Backing
    OBVIOUS
  <2>1. BatchesInSync /\ ClosedBatchesBackNothing
    BY DEF Init, BatchesInSync, ClosedBatchesBackNothing
  <2> QED
    BY <2>1 DEF Backing
<1>2. IInv /\ IInv' /\ Backing /\ [Next]_vars => Backing'
  BY SyncStep, ClosedStep DEF Backing
<1> QED
  BY <1>1, <1>2, CoverageHolds, InvariantHolds, PTL DEF Spec

\* What an order picks from a batch is part of what is reserved of it, as
\* long as the order's allocations count.
LEMMA PicksAreReserved ==
  ASSUME TypeOK, NEW o \in Orders, CountsAsReserved(o), NEW b \in Batches
  PROVE  PickedFrom(o, b) <= Reserved(b)
<1> DEFINE f == [l \in Lines |-> allocated[l][b]]
<1>1. LinesOf(o) \subseteq ReservedLines /\ ReservedLines \in SUBSET Lines
  BY DEF LinesOf, ReservedLines
<1>2. \A l \in Lines : f[l] \in Nat /\ f[l] <= f[l]
  BY ReservationsAssumption DEF TypeOK, Quantity
<1>3. PickedFrom(o, b) = Total(f, LinesOf(o)) /\ Reserved(b) = Total(f, ReservedLines)
  BY DEF PickedFrom, Reserved
<1> HIDE DEF f
<1>4. Total(f, LinesOf(o)) <= Total(f, ReservedLines)
  BY <1>1, <1>2, FiniteLines, TotalMonotone
<1> QED
  BY <1>3, <1>4

LEMMA PackableFromInvariant ==
  ASSUME IInv, Coverage, Backing, HoldsOutliveConfirmation
  PROVE  PlacedOrdersCanBePacked
<1> SUFFICES ASSUME NEW o \in Orders, status[o] = "placed"
             PROVE  /\ \E b \in Batches : PickedFrom(o, b) > 0
                    /\ \A b \in Batches : CanPick(o, b)
  BY DEF PlacedOrdersCanBePacked
<1>1. TypeOK /\ NoOversell /\ BatchesInSync /\ ClosedBatchesBackNothing
  BY DEF IInv, StockIsKept, Backing
<1>2. CountsAsReserved(o) /\ HasLines(o) /\ OwnsItsLines(o)
  BY DEF Coverage, OrderIsCovered, CountsAsReserved
<1>3. ASSUME NEW b \in Batches, PickedFrom(o, b) > 0
      PROVE  batchStatus[b] = "active" /\ PickedFrom(o, b) <= quantity[b]
  <2>1. PickedFrom(o, b) <= Reserved(b) /\ Reserved(b) <= quantity[b]
    BY <1>1, <1>2, PicksAreReserved DEF NoOversell
  <2>2. PickedFrom(o, b) \in Nat /\ Reserved(b) \in Nat /\ quantity[b] \in Nat
    BY <1>1, PickedType, ReservedType, ReservationsAssumption DEF TypeOK, Quantity
  <2>3. Reserved(b) # 0 /\ quantity[b] # 0
    BY <1>3, <2>1, <2>2
  <2>4. batchStatus[b] \notin {"closed", "depleted", "absent"}
    BY <1>1, <2>3 DEF ClosedBatchesBackNothing, BatchesInSync
  <2> QED
    BY <1>1, <2>1, <2>2, <2>4 DEF TypeOK
<1>4. PICK l \in LinesOf(o) : lineQuantity[l] > 0
  BY <1>2 DEF HasLines
<1>5. l \in Lines /\ Pool[l] \subseteq Batches /\ Total(allocated[l], Pool[l]) = lineQuantity[l]
  BY <1>2, ReservationsAssumption DEF LinesOf, OwnsItsLines
<1>6. \E b \in Pool[l] : allocated[l][b] # 0
  <2> SUFFICES ASSUME \A b \in Pool[l] : allocated[l][b] = 0 PROVE FALSE
    OBVIOUS
  <2>1. Total(allocated[l], Pool[l]) = 0
    BY TotalZero
  <2> QED
    BY <1>4, <1>5, <2>1
<1>7. PICK b \in Batches : allocated[l][b] # 0
  BY <1>5, <1>6
<1>8. PickedFrom(o, b) > 0
  <2> DEFINE f == [k \in Lines |-> allocated[k][b]]
  <2>1. \A k \in Lines : f[k] \in Nat /\ f[k] <= f[k]
    BY <1>1, ReservationsAssumption DEF TypeOK, Quantity
  <2>2. f[l] > 0 /\ f[l] \in Nat
    BY <1>5, <1>7, <2>1
  <2>3. PickedFrom(o, b) = Total(f, LinesOf(o)) /\ LinesOf(o) \subseteq Lines
    BY DEF PickedFrom, LinesOf
  <2> HIDE DEF f
  <2>4. IsFiniteSet(LinesOf(o)) /\ {l} \subseteq LinesOf(o)
    BY <2>3, FiniteLines
  <2>5. Total(f, {l}) <= Total(f, LinesOf(o))
    BY <2>1, <2>3, <2>4, TotalMonotone
  <2>6. Total(f, {l}) = f[l]
    BY <2>2, TotalSingle
  <2>7. PickedFrom(o, b) \in Nat
    BY <1>1, PickedType
  <2> QED
    BY <2>2, <2>3, <2>5, <2>6, <2>7
<1> QED
  BY <1>3, <1>8 DEF CanPick

\* A closed batch backs no order: whatever happens after close_batch found it
\* unreserved, nothing becomes reserved on it.
THEOREM ClosedBatchesStayIdle ==
  ASSUME HoldsOutliveConfirmation PROVE Spec => []ClosedBatchesBackNothing
<1>1. Backing => ClosedBatchesBackNothing
  BY DEF Backing
<1> QED
  BY <1>1, BackingHolds, PTL

\* pack_order never meets a closed, depleted or short batch: at any time every
\* placed order can be packed from the batches it has reserved.
THEOREM PlacedOrdersArePackable ==
  ASSUME HoldsOutliveConfirmation PROVE Spec => []PlacedOrdersCanBePacked
<1>1. IInv /\ Coverage /\ Backing => PlacedOrdersCanBePacked
  BY PackableFromInvariant
<1> QED
  BY <1>1, BackingHolds, PTL

-----------------------------------------------------------------------------
(* What a step may never do.                                               *)

\* How a transaction on an order can change what a line owns: a reservation
\* from nothing, or a release that leaves its order without a hold.
LEMMA WhoChangesALine ==
  ASSUME IInv, NEW o \in Orders, OrderStep(o) \/ PaymentStep(o),
         NEW l \in LinesOf(o), allocated'[l] # allocated[l]
  PROVE  \/ hold'[o] = "none"
         \/ \E wanted, kept : \E newHold \in {"live", "permanent"} :
              /\ kept \in [Lines -> [Batches -> Quantity]]
              /\ \A k \in Lines : kept[k] = IF OrderOf[k] = o THEN NoPicks ELSE allocated[k]
              /\ ReserveOnTopOf(o, wanted, kept, newHold)
<1>1. TypeOK /\ IdleOrdersHoldNothing /\ OnlyRetailPays
  BY DEF IInv
<1>2. /\ Released(o) \in [Lines -> [Batches -> Quantity]]
      /\ \A k \in Lines : Released(o)[k] = IF OrderOf[k] = o THEN NoPicks ELSE allocated[k]
  BY <1>1, ReleasedValue
<1>3. CASE PlaceBusinessOrder(o)
  <2>1. /\ o \in Business /\ status[o] = "draft"
        /\ ReserveOnTopOf(o, lineQuantity, allocated, "permanent")
    BY <1>3 DEF PlaceBusinessOrder
  <2>2. \A k \in Lines : allocated[k] = IF OrderOf[k] = o THEN NoPicks ELSE allocated[k]
    BY <1>1, <2>1 DEF IdleOrdersHoldNothing, OnlyRetailPays, Business, LinesOf
  <2>3. allocated \in [Lines -> [Batches -> Quantity]]
    BY <1>1 DEF TypeOK
  <2> QED
    BY <2>1, <2>2, <2>3
<1>4. CASE UpdatePlacedOrder(o)
  <2>1. PICK wanted \in [LinesOf(o) -> Quantity] :
          ReserveOnTopOf(o, wanted, Released(o), "permanent")
    BY <1>4 DEF UpdatePlacedOrder, ReplaceLines
  <2> QED
    BY <1>2, <2>1
<1>5. CASE StartRetailPayment(o)
  <2>1. ReserveOnTopOf(o, lineQuantity, Released(o), "live")
    BY <1>5 DEF StartRetailPayment
  <2> QED
    BY <1>2, <2>1
<1>6. CASE CancelOrder(o) \/ FailRetailPayment(o)
  BY <1>1, <1>6 DEF CancelOrder, FailRetailPayment, Release, TypeOK
<1>7. ~(\/ CreateDraft(o) \/ EditDraft(o) \/ DiscardDraft(o) \/ PackOrder(o) \/ DeliverOrder(o)
        \/ ReadLiveHold(o) \/ PlacePaidOrder(o) \/ AbandonConfirmation(o) \/ HoldLapses(o))
  BY DEF CreateDraft, EditDraft, DiscardDraft, PackOrder, DeliverOrder, ReadLiveHold,
         PlacePaidOrder, AbandonConfirmation, HoldLapses, allocationVars
<1> QED
  BY <1>3, <1>4, <1>5, <1>6, <1>7 DEF OrderStep, PaymentStep

\* A reservation that takes from batch b of an offer has left nothing free in
\* a batch c of the same offer that expires earlier.
LEMMA ReserveFollowsExpiry ==
  ASSUME TypeOK, TypeOK', NEW o \in Orders, NEW wanted, NEW newHold \in {"live", "permanent"},
         NEW kept \in [Lines -> [Batches -> Quantity]],
         \A k \in Lines : kept[k] = IF OrderOf[k] = o THEN NoPicks ELSE allocated[k],
         ReserveOnTopOf(o, wanted, kept, newHold),
         NEW l \in LinesOf(o), NEW b \in OrderablePool(l), NEW c \in OrderablePool(l),
         allocated'[l][b] > 0, shelfLife[c] < shelfLife[b]
  PROVE  Reserved(c)' >= quantity[c]
<1>1. PICK plan \in [LinesOf(o) -> [Batches -> Quantity]] :
        /\ IsOrderPlan(o, wanted, kept, plan)
        /\ allocated' = [k \in Lines |->
                           IF OrderOf[k] = o
                           THEN [d \in Batches |-> kept[k][d] + plan[k][d]]
                           ELSE kept[k]]
        /\ hold' = [hold EXCEPT ![o] = newHold]
  BY DEF ReserveOnTopOf
<1>2. l \in Lines /\ OrderOf[l] = o /\ b \in Batches /\ c \in Batches
  BY ReservationsAssumption DEF LinesOf, OrderablePool
<1>3. \A k \in Lines : /\ OrderOf[k] = o <=> k \in LinesOf(o)
                       /\ OrderOf[k] = o => /\ kept[k][b] = 0 /\ kept[k][c] = 0
                                            /\ plan[k][b] \in Nat /\ plan[k][c] \in Nat
                       /\ kept[k][c] \in Nat
  BY <1>2, ReservationsAssumption DEF LinesOf, NoPicks, Quantity
<1> DEFINE S == ReservedLines \cup LinesOf(o)
           f == [k \in Lines |-> allocated'[k][c]]
           g == [k \in Lines |-> IF OrderOf[k] = o /\ k < l THEN kept[k][c] + plan[k][c]
                                 ELSE kept[k][c]]
           n == plan[l][c]
           h == [k \in Lines |-> IF k = l THEN g[k] + n ELSE g[k]]
           before == ReservedBefore(l, kept, plan, c)
<1>4. S \in SUBSET Lines /\ l \in S
  BY <1>2 DEF ReservedLines, LinesOf
<1>5. ReservedLines' = S
  BY <1>1, ReservationsAssumption DEF ReservedLines, CountsAsReserved, LinesOf, TypeOK
<1>6. \A k \in Lines : g[k] \in Nat /\ h[k] \in Nat /\ f[k] \in Nat
  <2>1. \A k \in Lines : f[k] \in Nat
    BY <1>2, ReservationsAssumption DEF TypeOK, Quantity
  <2>2. \A k \in Lines : g[k] \in Nat
    BY <1>3
  <2> QED
    BY <1>2, <1>3, <2>1, <2>2
<1>7. \A k \in Lines : f[k] >= h[k]
  <2> SUFFICES ASSUME NEW k \in Lines PROVE f[k] >= h[k]
    OBVIOUS
  <2>1. CASE OrderOf[k] # o
    BY <1>1, <1>2, <1>3, <2>1
  <2>2. CASE OrderOf[k] = o
    <3>1. f[k] = kept[k][c] + plan[k][c] /\ kept[k][c] = 0 /\ plan[k][c] \in Nat
      BY <1>1, <1>2, <1>3, <2>2
    <3>2. l < l <=> FALSE
      BY <1>2, ReservationsAssumption
    <3>3. h[k] \in {0, plan[k][c]}
      BY <1>2, <3>1, <3>2, <2>2
    <3> QED
      BY <3>1, <3>3
  <2> QED
    BY <2>1, <2>2
<1>8. n \in Nat /\ h[l] = g[l] + n /\ \A k \in S \ {l} : h[k] = g[k]
  BY <1>2, <1>3, <1>4
<1>9. before = Total(g, S)
  BY <1>2 DEF ReservedBefore
<1>10. Reserved(c)' = Total(f, S)
  BY <1>5, Zenon DEF Reserved
<1>11. n = Allocatable(quantity[c], before)
  <2>1. plan[l][b] > 0
    <3>1. allocated'[l][b] = kept[l][b] + plan[l][b]
      BY <1>1, <1>2
    <3> QED
      BY <1>2, <1>3, <3>1
  <2>2. plan[l] # NoPicks
    BY <1>2, <2>1 DEF NoPicks
  <2>3. IsFefoPlan(plan[l], OrderablePool(l),
                   [d \in Batches |-> Allocatable(quantity[d], ReservedBefore(l, kept, plan, d))],
                   wanted[l], Earlier)
    BY <1>1, <2>2 DEF IsOrderPlan
  <2>4. <<c, b>> \in Earlier
    BY <1>2 DEF Earlier, ExpiresBefore
  <2> QED
    BY <1>2, <2>1, <2>3, <2>4 DEF IsFefoPlan
<1> HIDE DEF S, f, g, n, h, before
<1>12. IsFiniteSet(S)
  BY <1>4, FiniteLines
<1>13. before \in Nat /\ quantity[c] \in Nat
  <2>1. before \in Nat
    BY <1>4, <1>6, <1>9, <1>12, TotalType
  <2> QED
    BY <1>2, <2>1, ReservationsAssumption DEF TypeOK, Quantity
<1>14. Total(h, S) = before + n
  BY <1>4, <1>6, <1>8, <1>9, <1>12, TotalOneMore
<1>15. Total(h, S) <= Total(f, S)
  BY <1>4, <1>6, <1>7, <1>12, TotalMonotone
<1>16. before + n >= quantity[c]
  BY <1>11, <1>13 DEF Allocatable
<1>17. Total(f, S) \in Nat
  BY <1>4, <1>6, <1>12, TotalType
<1> QED
  BY <1>8, <1>10, <1>13, <1>14, <1>15, <1>16, <1>17

\* First expired, first out, for every step, clock and pool: a line that
\* becomes reserved takes units of a batch only when every orderable batch of
\* its offer that expires earlier has no free unit left afterwards.
THEOREM StockLeavesFirstExpiredFirst == Spec => FirstExpiredFirstOut
<1> DEFINE Fefo(l) ==
      LET o == OrderOf[l]
      IN  (allocated'[l] # allocated[l] /\ hold'[o] \in {"live", "permanent"}) =>
            \A b, c \in OrderablePool(l) :
              (allocated'[l][b] > 0 /\ shelfLife[c] < shelfLife[b]) =>
                Reserved(c)' >= quantity[c]
<1>1. ASSUME IInv, IInv', [Next]_vars PROVE [\A l \in Lines : Fefo(l)]_vars
  <2> SUFFICES ASSUME NEW l \in Lines, allocated'[l] # allocated[l],
                      hold'[OrderOf[l]] \in {"live", "permanent"},
                      NEW b \in OrderablePool(l), NEW c \in OrderablePool(l),
                      allocated'[l][b] > 0, shelfLife[c] < shelfLife[b]
               PROVE  Reserved(c)' >= quantity[c]
    OBVIOUS
  <2> DEFINE o == OrderOf[l]
  <2>1. o \in Orders /\ l \in LinesOf(o) /\ TypeOK /\ TypeOK'
    BY <1>1, ReservationsAssumption DEF LinesOf, IInv
  <2>2. PICK p \in Orders : OrderStep(p) \/ PaymentStep(p)
    BY <1>1 DEF Next, BatchStep, CreateBatch, UpdateBatch, CloseBatch, NextDay, vars,
                allocationVars
  <2>3. p = o
    BY <1>1, <2>1, <2>2, OthersUntouched DEF Untouched
  <2> HIDE DEF o
  <2>4. PICK wanted, kept : \E newHold \in {"live", "permanent"} :
          /\ kept \in [Lines -> [Batches -> Quantity]]
          /\ \A k \in Lines : kept[k] = IF OrderOf[k] = o THEN NoPicks ELSE allocated[k]
          /\ ReserveOnTopOf(o, wanted, kept, newHold)
    BY <1>1, <2>1, <2>2, <2>3, WhoChangesALine DEF o
  <2> QED
    BY <2>1, <2>4, ReserveFollowsExpiry
<1>2. [\A l \in Lines : Fefo(l)]_vars =>
        [\A l \in Lines :
           LET o == OrderOf[l]
           IN  (allocated'[l] # allocated[l] /\ hold'[o] \in {"live", "permanent"}) =>
                 \A b, c \in OrderablePool(l) :
                   (allocated'[l][b] > 0 /\ shelfLife[c] < shelfLife[b]) =>
                     Reserved(c)' >= quantity[c]]_vars
  OBVIOUS
<1> QED
  BY <1>1, <1>2, InvariantHolds, PTL DEF Spec, FirstExpiredFirstOut

-----------------------------------------------------------------------------
(* Seen per batch, every transaction is a step of the stock ledger.        *)

\* A transaction that leaves the batch rows alone rebooks promises at most.
LEMMA OrderStepRebooks ==
  ASSUME IInv, IInv', HoldsOutliveConfirmation,
         NEW o \in Orders, OrderStep(o) \/ PaymentStep(o), ~PackOrder(o)
  PROVE  Ledger!Rebook
<1> DEFINE promised == [b \in Batches |-> Reserved(b)]
<1>1. TypeOK /\ TypeOK' /\ NoOversell'
  BY DEF IInv, StockIsKept
<1>2. UNCHANGED <<quantity, batchStatus, shelfLife>>
  BY OrdersLeaveBatches
<1>3. \A b \in Batches : Reserved(b) \in Nat /\ Reserved(b)' \in Nat
  BY <1>1, ReservedType, ReservedTypeNext
<1>4. promised' = [b \in Batches |-> Reserved(b)'] /\ promised' \in [Batches -> Nat]
  BY <1>3
<1>5. \A b \in Batches : Reserved(b)' <= quantity[b]
  BY <1>1, <1>2 DEF NoOversell
<1>6. \A b \in Batches : Reserved(b)' > Reserved(b) => batchStatus[b] = "active"
  <2> SUFFICES ASSUME NEW b \in Batches, Reserved(b)' > Reserved(b)
               PROVE  batchStatus[b] = "active"
    OBVIOUS
  <2>1. ~(Reserved(b)' <= Reserved(b))
    BY <1>3
  <2>2. Orderable(b)
    BY <2>1, PromisesGrowWhereOrderable
  <2> QED
    BY <2>2 DEF Orderable
<1> QED
  BY <1>2, <1>4, <1>5, <1>6 DEF Ledger!Rebook

\* Packing issues from each batch what it takes from the promises.
LEMMA PackingIssues ==
  ASSUME IInv, IInv', HoldsOutliveConfirmation, NEW o \in Orders, PackOrder(o)
  PROVE  Ledger!Issue
<1> DEFINE promised == [b \in Batches |-> Reserved(b)]
           phase == [b \in Batches |-> IF batchStatus[b] \in {"active", "depleted"}
                                       THEN "open" ELSE batchStatus[b]]
<1>1. TypeOK /\ TypeOK'
  BY DEF IInv
<1>2. /\ status[o] = "placed" /\ \A b \in Batches : CanPick(o, b)
      /\ quantity' = [b \in Batches |-> quantity[b] - PickedFrom(o, b)]
      /\ batchStatus' = [b \in Batches |->
                           IF PickedFrom(o, b) > 0
                           THEN SyncedStatus(b, quantity[b] - PickedFrom(o, b))
                           ELSE batchStatus[b]]
      /\ hold' = [hold EXCEPT ![o] = "consumed"] /\ allocated' = allocated
  BY DEF PackOrder
<1>3. CountsAsReserved(o)
  BY <1>2 DEF IInv, PlacedOrdersReserve, CountsAsReserved
<1>4. \A b \in Batches :
        /\ Reserved(b) \in Nat /\ Reserved(b)' \in Nat /\ PickedFrom(o, b) \in Nat
        /\ quantity[b] \in Nat /\ quantity'[b] \in Nat
        /\ Reserved(b) = Reserved(b)' + PickedFrom(o, b)
        /\ quantity'[b] = quantity[b] - PickedFrom(o, b)
        /\ PickedFrom(o, b) > 0 => batchStatus[b] = "active"
  <2>1. \A b \in Batches :
          Reserved(b) \in Nat /\ Reserved(b)' \in Nat /\ PickedFrom(o, b) \in Nat
    BY <1>1, ReservedType, ReservedTypeNext, PickedType
  <2>2. \A b \in Batches : Reserved(b) = Reserved(b)' + PickedFrom(o, b)
    BY <1>1, <1>2, <1>3, PackingTakesItsPromises
  <2>3. \A b \in Batches : quantity[b] \in Nat /\ quantity'[b] \in Nat
    BY <1>1, ReservationsAssumption DEF TypeOK, Quantity
  <2> QED
    BY <1>2, <2>1, <2>2, <2>3 DEF CanPick
<1>5. /\ quantity' \in [Batches -> Nat]
      /\ promised' = [b \in Batches |-> Reserved(b)'] /\ promised' \in [Batches -> Nat]
  BY <1>1, <1>4, ReservationsAssumption DEF TypeOK, Quantity
<1>6. UNCHANGED phase
  <2>1. \A b \in Batches : \/ batchStatus'[b] = batchStatus[b]
                           \/ {batchStatus[b], batchStatus'[b]} \subseteq {"active", "depleted"}
    BY <1>2, <1>4 DEF SyncedStatus
  <2> QED
    BY <2>1
<1>7. \A b \in Batches :
        /\ quantity'[b] <= quantity[b]
        /\ quantity[b] - quantity'[b] = promised[b] - promised'[b]
        /\ quantity'[b] < quantity[b] => phase[b] = "open"
  <2> SUFFICES ASSUME NEW b \in Batches
               PROVE  /\ quantity'[b] <= quantity[b]
                      /\ quantity[b] - quantity'[b] = promised[b] - promised'[b]
                      /\ quantity'[b] < quantity[b] => phase[b] = "open"
    OBVIOUS
  <2>1. promised[b] = Reserved(b) /\ promised'[b] = Reserved(b)'
    BY <1>5
  <2>2. quantity'[b] < quantity[b] => PickedFrom(o, b) > 0
    BY <1>4
  <2> HIDE DEF promised
  <2> QED
    BY <1>4, <2>1, <2>2
<1> QED
  BY <1>5, <1>6, <1>7 DEF Ledger!Issue

\* Batch operations are the ledger's.
LEMMA BatchStepRefines ==
  ASSUME IInv, IInv', NEW b \in Batches, BatchStep(b)
  PROVE  Ledger!Receive(b) \/ Ledger!Correct(b) \/ Ledger!Close(b)
<1> DEFINE promised == [c \in Batches |-> Reserved(c)]
           phase == [c \in Batches |-> IF batchStatus[c] \in {"active", "depleted"}
                                       THEN "open" ELSE batchStatus[c]]
<1>1. TypeOK
  BY DEF IInv
<1>2. UNCHANGED promised /\ promised[b] = Reserved(b)
  BY ReservedUnchanged DEF BatchStep, CreateBatch, UpdateBatch, CloseBatch
<1>3. CASE CreateBatch(b)
  <2>1. PICK n \in Quantity \ {0} : quantity' = [quantity EXCEPT ![b] = n]
    BY <1>3 DEF CreateBatch
  <2>2. quantity'[b] = n /\ n \in Nat \ {0}
    BY <1>1, <2>1, ReservationsAssumption DEF TypeOK, Quantity
  <2>3. phase[b] = "absent" /\ phase' = [phase EXCEPT ![b] = "open"]
    BY <1>1, <1>3 DEF CreateBatch, TypeOK
  <2> QED
    BY <1>2, <2>1, <2>2, <2>3 DEF Ledger!Receive
<1>4. CASE UpdateBatch(b)
  <2>1. PICK n \in Quantity : /\ n >= Reserved(b) /\ quantity' = [quantity EXCEPT ![b] = n]
                              /\ batchStatus' = [batchStatus EXCEPT ![b] = SyncedStatus(b, n)]
    BY <1>4 DEF UpdateBatch
  <2>2. quantity'[b] = n /\ n \in Nat
    BY <1>1, <2>1, ReservationsAssumption DEF TypeOK, Quantity
  <2>3. phase[b] = "open" /\ UNCHANGED phase
    BY <1>1, <1>4, <2>1 DEF UpdateBatch, SyncedStatus, TypeOK
  <2> QED
    BY <1>2, <2>1, <2>2, <2>3 DEF Ledger!Correct
<1>5. CASE CloseBatch(b)
  <2>1. phase[b] = "open" /\ phase' = [phase EXCEPT ![b] = "closed"]
    BY <1>1, <1>5 DEF CloseBatch, TypeOK
  <2> QED
    BY <1>2, <1>5, <2>1 DEF CloseBatch, Ledger!Close
<1> QED
  BY <1>3, <1>4, <1>5 DEF BatchStep

LEMMA EveryStepKeepsTheLedger ==
  ASSUME IInv, IInv', HoldsOutliveConfirmation, [Next]_vars
  PROVE  [Ledger!Next]_(Ledger!vars)
<1>1. ASSUME NEW o \in Orders, OrderStep(o) \/ PaymentStep(o)
      PROVE  Ledger!Next
  BY <1>1, OrderStepRebooks, PackingIssues DEF Ledger!Next
<1>2. ASSUME NEW b \in Batches, BatchStep(b)
      PROVE  Ledger!Next
  BY <1>2, BatchStepRefines DEF Ledger!Next
<1>3. CASE NextDay \/ UNCHANGED vars
  <2>1. UNCHANGED allocationVars /\ UNCHANGED <<quantity, batchStatus>>
    BY <1>3 DEF NextDay, vars, batchVars
  <2> QED
    BY <2>1, ReservedUnchanged DEF Ledger!vars
<1> QED
  BY <1>1, <1>2, <1>3 DEF Next

LEMMA InitialLedger == Init => Ledger!Init
<1> SUFFICES ASSUME Init PROVE Ledger!Init
  OBVIOUS
<1>1. \A b \in Batches : Reserved(b) = 0
  <2> SUFFICES ASSUME NEW b \in Batches PROVE Reserved(b) = 0
    OBVIOUS
  <2>1. \A l \in ReservedLines : [k \in Lines |-> allocated[k][b]][l] = 0
    BY DEF Init, ReservedLines
  <2> QED
    BY <2>1, TotalZero DEF Reserved
<1> QED
  BY <1>1 DEF Init, Ledger!Init

\* Orders, payments, clocks and batch corrections together implement the
\* stock ledger: units are received, corrected down to what is promised at
\* most, promised where there is open stock, issued against their promise, and
\* a batch is closed for good when nothing of it is promised.
THEOREM ReservationsKeepTheLedger ==
  ASSUME HoldsOutliveConfirmation PROVE Spec => KeepsStockLedger
<1>1. IInv /\ IInv' /\ [Next]_vars => [Ledger!Next]_(Ledger!vars)
  BY EveryStepKeepsTheLedger
<1> QED
  BY <1>1, InitialLedger, InvariantHolds, PTL DEF Spec, KeepsStockLedger, Ledger!Spec
=============================================================================
