----------------------------- MODULE Offers_proofs -----------------------------
(***************************************************************************)
(* The catalogues and the pools agree, for any number of batches, special  *)
(* prices and units: every unit stands behind one offer, the business      *)
(* catalogue and the edit form show what an order can have, and the retail *)
(* catalogue shows what the checkout accepts.                              *)
(***************************************************************************)
EXTENDS Offers, FefoPlan_proofs

-----------------------------------------------------------------------------
(* Totals. *)

\* The total of sums is the sum of the totals.
LEMMA TotalSum ==
  ASSUME NEW S, IsFiniteSet(S), NEW f, NEW g, NEW h,
         \A x \in S : f[x] \in Nat /\ g[x] \in Nat /\ h[x] = f[x] + g[x]
  PROVE  Total(h, S) = Total(f, S) + Total(g, S)
<1> DEFINE Adds(U) == Total(h, U) = Total(f, U) + Total(g, U)
           bad == {U \in FiniteSubsetsOf(S) : ~Adds(U)}
<1> SUFFICES ASSUME S \in bad PROVE FALSE
  BY DEF FiniteSubsetsOf
<1>1. PICK U \in bad : \A V \in bad : <<V, U>> \notin StrictSubsetOrdering(S)
  <2>1. bad \subseteq FiniteSubsetsOf(S) /\ bad # {}
    OBVIOUS
  <2> QED
    BY <2>1, FS_StrictSubsetOrderingWellFounded, WFMin
<1>2. U \subseteq S /\ IsFiniteSet(U) /\ ~Adds(U)
  BY DEF FiniteSubsetsOf
<1>3. U # {}
  <2>1. Total(h, {}) = 0 /\ Total(f, {}) = 0 /\ Total(g, {}) = 0
    BY TotalZero
  <2>2. Adds({})
    BY <2>1
  <2> HIDE DEF Adds
  <2> QED
    BY <1>2, <2>2
<1>4. PICK y \in U : TRUE
  BY <1>3
<1> DEFINE V == U \ {y}
<1>5. IsFiniteSet(V) /\ V \subseteq S /\ <<V, U>> \in StrictSubsetOrdering(S)
  BY <1>2, FS_Difference DEF StrictSubsetOrdering
<1>6. Adds(V)
  <2>1. V \notin bad /\ V \in FiniteSubsetsOf(S)
    BY <1>1, <1>5 DEF FiniteSubsetsOf
  <2> HIDE DEF Adds, V
  <2> QED
    BY <2>1
<1>7. /\ U = V \cup {y} /\ V \cap {y} = {} /\ IsFiniteSet({y})
      /\ \A x \in V \cup {y} : f[x] \in Nat /\ g[x] \in Nat /\ h[x] \in Nat
  <2>1. y \in U /\ IsFiniteSet({y})
    BY <1>4, FS_Singleton
  <2>2. \A x \in S : f[x] \in Nat /\ g[x] \in Nat /\ h[x] \in Nat
    OBVIOUS
  <2> QED
    BY <1>2, <2>1, <2>2
<1> HIDE DEF V, bad
<1>8. /\ Total(f, U) = Total(f, V) + Total(f, {y})
      /\ Total(g, U) = Total(g, V) + Total(g, {y})
      /\ Total(h, U) = Total(h, V) + Total(h, {y})
  BY <1>5, <1>7, TotalUnion
<1>9. y \in S /\ Total(f, {y}) = f[y] /\ Total(g, {y}) = g[y] /\ Total(h, {y}) = h[y]
  BY <1>2, <1>7, TotalSingle
<1>10. Total(f, V) \in Nat /\ Total(g, V) \in Nat
  BY <1>5, <1>7, TotalType
<1>11. Total(h, U) = Total(f, U) + Total(g, U)
  BY <1>6, <1>8, <1>9, <1>10
<1> QED
  BY <1>2, <1>11

-----------------------------------------------------------------------------
(* Types. *)

LEMMA OffersFacts ==
  /\ IsFiniteSet(Offers) /\ IsFiniteSet(Batches) /\ MaxUnits \in Nat
  /\ Standard \in Offers /\ Standard \notin Batches /\ Special \subseteq Batches
  /\ Offers = {Standard} \cup Special /\ Standard \notin Special
<1>1. IsFiniteSet(Special) /\ IsFiniteSet({Standard})
  BY OffersAssumption, FS_Subset, FS_Singleton
<1>2. IsFiniteSet({Standard} \cup Special)
  BY <1>1, FS_Union
<1> QED
  BY <1>2, OffersAssumption DEF Offers, Standard

LEMMA HeldType ==
  ASSUME held \in [Offers -> [Batches -> 0 .. MaxUnits]], NEW b \in Batches
  PROVE  HeldIn(b) \in Nat
<1> DEFINE column == [f \in Offers |-> held[f][b]]
<1>1. \A f \in Offers : column[f] \in Nat
  BY OffersFacts
<1> HIDE DEF column
<1>2. Total(column, Offers) \in Nat
  BY <1>1, OffersFacts, TotalType
<1> QED
  BY <1>2 DEF HeldIn, column

LEMMA NothingIsHeld ==
  /\ NothingHeld \in [Offers -> [Batches -> 0 .. MaxUnits]]
  /\ held = NothingHeld => \A b \in Batches : HeldIn(b) = 0
<1>1. 0 \in 0 .. MaxUnits
  BY OffersFacts
<1>2. ASSUME held = NothingHeld, NEW b \in Batches
      PROVE  HeldIn(b) = 0
  <2>1. \A f \in Offers : [g \in Offers |-> held[g][b]][f] = 0
    BY <1>2 DEF NothingHeld
  <2>2. Total([g \in Offers |-> held[g][b]], Offers) = 0
    BY <2>1, TotalZero
  <2> QED
    BY <2>2 DEF HeldIn
<1> QED
  BY <1>1, <1>2 DEF NothingHeld

\* A unit that is free is on the shelf and nobody's.
LEMMA FreeUnits ==
  ASSUME TypeOK, NEW b \in Batches
  PROVE  /\ HeldIn(b) \in Nat /\ taken[b] \in Nat /\ Reserved(b) \in Nat
         /\ physical[b] \in Nat /\ Reserved(b) = HeldIn(b) + taken[b]
         /\ Free(b) \in Nat /\ Free(b) = physical[b] - Reserved(b)
<1>1. HeldIn(b) \in Nat
  BY HeldType DEF TypeOK
<1>2. taken[b] \in Nat /\ physical[b] \in Nat /\ Reserved(b) <= physical[b]
  BY OffersFacts DEF TypeOK
<1>3. Reserved(b) \in Nat /\ Reserved(b) = HeldIn(b) + taken[b]
  BY <1>1, <1>2 DEF Reserved
<1>4. Free(b) = IF Reserved(b) < physical[b] THEN physical[b] - Reserved(b) ELSE 0
  BY DEF Free, Allocatable
<1> QED
  BY <1>1, <1>2, <1>3, <1>4

\* What a step must see to for the types: the three state functions, and that
\* no batch is reserved beyond what is there.
LEMMA TypesByPart ==
  ASSUME active' \in BOOLEAN, enabled' \in [Channels -> SUBSET Offers],
         priced' \in [Channels -> SUBSET Offers], orderable' \subseteq Batches,
         physical' \in [Batches -> 0 .. MaxUnits], taken' \in [Batches -> 0 .. MaxUnits],
         held' \in [Offers -> [Batches -> 0 .. MaxUnits]],
         \A b \in Batches : HeldIn(b)' + taken'[b] <= physical'[b]
  PROVE  TypeOK'
<1> QED
  BY DEF TypeOK, Reserved

LEMMA PricingKeepsTypes ==
  ASSUME TypeOK, EditProduct \/ \E b \in Special : UpdateBatchPricing(b)
  PROVE  TypeOK'
<1>1. UNCHANGED <<physical, orderable, held, taken>> /\ active' \in BOOLEAN
  BY DEF EditProduct, UpdateBatchPricing, stockVars, TypeOK
<1>2. PICK f \in Offers, on \in SUBSET Channels, amount \in SUBSET Channels :
        /\ enabled' = [c \in Channels |->
             IF c \in on THEN enabled[c] \cup {f} ELSE enabled[c] \ {f}]
        /\ priced' = [c \in Channels |->
             IF c \in amount THEN priced[c] \cup {f} ELSE priced[c] \ {f}]
  <2>1. CASE EditProduct
    BY <2>1, OffersFacts, Zenon DEF EditProduct
  <2>2. CASE \E b \in Special : UpdateBatchPricing(b)
    <3>1. Special \subseteq Offers
      BY OffersFacts
    <3> QED
      BY <2>2, <3>1, Zenon DEF UpdateBatchPricing
  <2> QED
    BY <2>1, <2>2
<1>3. /\ enabled' \in [Channels -> SUBSET Offers] /\ priced' \in [Channels -> SUBSET Offers]
  BY <1>2 DEF TypeOK
<1>4. \A b \in Batches : HeldIn(b)' = HeldIn(b)
  BY <1>1 DEF HeldIn
<1> QED
  BY <1>1, <1>3, <1>4 DEF TypeOK, Reserved

LEMMA StockKeepsTypes ==
  ASSUME TypeOK, NEW b \in Batches, CorrectBatch(b) \/ BestBeforeNears(b)
  PROVE  TypeOK'
<1>1. UNCHANGED <<active, enabled, priced, held, taken>>
      /\ \A c \in Batches : HeldIn(c)' = HeldIn(c)
  BY DEF CorrectBatch, BestBeforeNears, pricingVars, HeldIn
<1>2. PICK n \in 0 .. MaxUnits : physical' = [physical EXCEPT ![b] = n] /\ Reserved(b) <= n
  <2>1. CASE CorrectBatch(b)
    <3>1. PICK k \in Reserved(b) .. MaxUnits : physical' = [physical EXCEPT ![b] = k]
      BY <2>1 DEF CorrectBatch
    <3>2. Reserved(b) \in Nat
      BY FreeUnits
    <3>3. k \in 0 .. MaxUnits /\ Reserved(b) <= k
      BY <3>2, OffersFacts
    <3> QED
      BY <3>1, <3>3
  <2>2. CASE BestBeforeNears(b)
    <3>1. physical' = [physical EXCEPT ![b] = physical[b]]
      BY <2>2 DEF BestBeforeNears, TypeOK
    <3> QED
      BY <3>1 DEF TypeOK
  <2> QED
    BY <2>1, <2>2
<1>3. orderable' \subseteq Batches
  BY DEF CorrectBatch, BestBeforeNears, TypeOK
<1>4. physical' \in [Batches -> 0 .. MaxUnits]
  BY <1>2 DEF TypeOK
<1>5. \A c \in Batches : HeldIn(c)' + taken'[c] <= physical'[c]
  BY <1>1, <1>2 DEF TypeOK, Reserved
<1> QED
  BY <1>1, <1>3, <1>4, <1>5 DEF TypeOK, Reserved

LEMMA OrderKeepsTypes ==
  ASSUME TypeOK, PlaceOrder \/ CancelOrder \/ PackOrder
  PROVE  TypeOK'
<1>1. UNCHANGED <<active, enabled, priced, orderable, taken>>
  BY DEF PlaceOrder, CancelOrder, PackOrder, pricingVars, stockVars
<1>2. CASE PlaceOrder
  <2>1. PICK plan \in [Offers -> [Batches -> 0 .. MaxUnits]] :
          /\ \A b \in Batches : Total([f \in Offers |-> plan[f][b]], Offers) <= Free(b)
          /\ held' = plan
    BY <1>2 DEF PlaceOrder
  <2>2. UNCHANGED physical /\ held = NothingHeld
    BY <1>2 DEF PlaceOrder, stockVars
  <2>3. ASSUME NEW b \in Batches
        PROVE  HeldIn(b)' + taken'[b] <= physical'[b]
    <3>1. HeldIn(b) = 0
      BY <2>2, NothingIsHeld
    <3>2. Free(b) = physical[b] - taken[b] /\ taken[b] \in Nat /\ physical[b] \in Nat
      BY <3>1, FreeUnits
    <3>3. HeldIn(b)' <= Free(b)
      <4>1. Total([f \in Offers |-> plan[f][b]], Offers) <= Free(b)
        BY <2>1
      <4>2. HeldIn(b)' = Total([f \in Offers |-> plan[f][b]], Offers)
        BY <2>1 DEF HeldIn
      <4> QED
        BY <4>1, <4>2
    <3>4. HeldIn(b)' \in Nat
      <4>1. \A f \in Offers : [g \in Offers |-> plan[g][b]][f] \in Nat
        BY OffersFacts
      <4>2. Total([g \in Offers |-> plan[g][b]], Offers) \in Nat
        BY <4>1, OffersFacts, TotalType
      <4> QED
        BY <2>1, <4>2 DEF HeldIn
    <3> QED
      BY <1>1, <2>2, <3>2, <3>3, <3>4
  <2> QED
    BY <1>1, <2>1, <2>2, <2>3 DEF TypeOK, Reserved
<1>3. CASE CancelOrder \/ PackOrder
  <2>1. held' = NothingHeld
    BY <1>3 DEF CancelOrder, PackOrder
  <2>2. \A b \in Batches : HeldIn(b)' = 0
    <3>1. ASSUME NEW b \in Batches
          PROVE  HeldIn(b)' = 0
      <4>1. \A f \in Offers : [g \in Offers |-> held'[g][b]][f] = 0
        BY <2>1 DEF NothingHeld
      <4>2. Total([g \in Offers |-> held'[g][b]], Offers) = 0
        BY <4>1, TotalZero
      <4> QED
        BY <4>2 DEF HeldIn
    <3> QED
      BY <3>1
  <2>3. physical' \in [Batches -> 0 .. MaxUnits] /\ \A b \in Batches : taken'[b] <= physical'[b]
    <3>1. CASE CancelOrder
      <4>1. UNCHANGED physical
        BY <3>1 DEF CancelOrder, stockVars
      <4>2. \A b \in Batches : taken[b] <= physical[b]
        BY FreeUnits DEF TypeOK
      <4> QED
        BY <1>1, <4>1, <4>2 DEF TypeOK
    <3>2. CASE PackOrder
      <4>1. physical' = [b \in Batches |-> physical[b] - HeldIn(b)]
        BY <3>2 DEF PackOrder
      <4>2. ASSUME NEW b \in Batches
            PROVE  physical[b] - HeldIn(b) \in 0 .. MaxUnits /\ taken[b] <= physical[b] - HeldIn(b)
        <5>1. /\ HeldIn(b) \in Nat /\ taken[b] \in Nat /\ physical[b] \in 0 .. MaxUnits
              /\ HeldIn(b) + taken[b] <= physical[b]
          BY FreeUnits DEF TypeOK
        <5> QED
          BY <5>1, OffersFacts
      <4> QED
        BY <1>1, <4>1, <4>2
    <3> QED
      BY <1>3, <3>1, <3>2
  <2>4. \A b \in Batches : HeldIn(b)' + taken'[b] <= physical'[b]
    BY <1>1, <2>2, <2>3, OffersFacts DEF TypeOK
  <2>5. held' \in [Offers -> [Batches -> 0 .. MaxUnits]]
    BY <2>1, NothingIsHeld
  <2> QED
    BY <1>1, <2>3, <2>4, <2>5 DEF TypeOK, Reserved
<1> QED
  BY <1>2, <1>3

LEMMA OthersKeepTypes ==
  ASSUME TypeOK, NEW b \in Batches, OthersReserve(b) \/ OthersRelease(b) \/ OthersPack(b)
  PROVE  TypeOK'
<1>1. UNCHANGED <<active, enabled, priced, orderable, held>>
      /\ \A c \in Batches : HeldIn(c)' = HeldIn(c) /\ HeldIn(c) \in Nat
  BY FreeUnits
  DEF OthersReserve, OthersRelease, OthersPack, pricingVars, stockVars, HeldIn
<1>2. /\ HeldIn(b) \in Nat /\ taken[b] \in 0 .. MaxUnits /\ physical[b] \in 0 .. MaxUnits
      /\ HeldIn(b) + taken[b] <= physical[b] /\ Free(b) = physical[b] - (HeldIn(b) + taken[b])
  BY FreeUnits DEF TypeOK
<1>3. PICK t \in 0 .. MaxUnits, n \in 0 .. MaxUnits :
        /\ taken' = [taken EXCEPT ![b] = t] /\ physical' = [physical EXCEPT ![b] = n]
        /\ HeldIn(b) + t <= n
  <2>1. CASE OthersReserve(b)
    <3>1. /\ taken' = [taken EXCEPT ![b] = taken[b] + 1]
          /\ physical' = [physical EXCEPT ![b] = physical[b]] /\ Free(b) > 0
      BY <2>1 DEF OthersReserve, stockVars, TypeOK
    <3>2. taken[b] + 1 \in 0 .. MaxUnits /\ HeldIn(b) + (taken[b] + 1) <= physical[b]
      BY <1>2, <3>1, OffersFacts
    <3> QED
      BY <1>2, <3>1, <3>2
  <2>2. CASE OthersRelease(b)
    <3>1. /\ taken' = [taken EXCEPT ![b] = taken[b] - 1]
          /\ physical' = [physical EXCEPT ![b] = physical[b]] /\ taken[b] > 0
      BY <2>2 DEF OthersRelease, stockVars, TypeOK
    <3>2. taken[b] - 1 \in 0 .. MaxUnits /\ HeldIn(b) + (taken[b] - 1) <= physical[b]
      BY <1>2, <3>1, OffersFacts
    <3> QED
      BY <1>2, <3>1, <3>2
  <2>3. CASE OthersPack(b)
    <3>1. /\ taken' = [taken EXCEPT ![b] = taken[b] - 1]
          /\ physical' = [physical EXCEPT ![b] = physical[b] - 1] /\ taken[b] > 0
      BY <2>3 DEF OthersPack
    <3>2. /\ taken[b] - 1 \in 0 .. MaxUnits /\ physical[b] - 1 \in 0 .. MaxUnits
          /\ HeldIn(b) + (taken[b] - 1) <= physical[b] - 1
      BY <1>2, <3>1, OffersFacts
    <3> QED
      BY <3>1, <3>2
  <2> QED
    BY <2>1, <2>2, <2>3
<1>4. \A c \in Batches : HeldIn(c)' + taken'[c] <= physical'[c]
  BY <1>1, <1>3, FreeUnits DEF TypeOK
<1> QED
  BY <1>1, <1>3, <1>4 DEF TypeOK, Reserved

LEMMA InitTypes == Init => TypeOK
<1> SUFFICES ASSUME Init PROVE TypeOK
  OBVIOUS
<1>1. held \in [Offers -> [Batches -> 0 .. MaxUnits]] /\ \A b \in Batches : HeldIn(b) = 0
  BY NothingIsHeld DEF Init
<1>2. SUBSET {Standard} \subseteq SUBSET Offers
  BY OffersFacts
<1>3. enabled \in [Channels -> SUBSET Offers] /\ priced \in [Channels -> SUBSET Offers]
  BY <1>2 DEF Init
<1> QED
  BY <1>1, <1>3, OffersFacts DEF Init, TypeOK, Reserved

\* Every price, batch and reservation has a legal value, and no batch is
\* reserved beyond what is there.
THEOREM TypeCorrect == Spec => []TypeOK
<1>1. TypeOK /\ [Next]_offersVars => TypeOK'
  <2> SUFFICES ASSUME TypeOK, [Next]_offersVars PROVE TypeOK'
    OBVIOUS
  <2>1. CASE UNCHANGED offersVars
    BY <2>1 DEF offersVars, pricingVars, stockVars, TypeOK, Reserved, HeldIn
  <2>2. CASE Next
    BY <2>2, PricingKeepsTypes, StockKeepsTypes, OrderKeepsTypes, OthersKeepTypes DEF Next
  <2> QED
    BY <2>1, <2>2
<1> QED
  BY <1>1, InitTypes, PTL DEF Spec

-----------------------------------------------------------------------------
(* Pools. *)

FreeIn == [b \in Batches |-> Free(b)]

LEMMA PoolFacts ==
  ASSUME TypeOK
  PROVE  /\ OrderableBatches \subseteq Batches
         /\ \A S \in SUBSET Batches : IsFiniteSet(S)
         /\ \A b \in Batches : FreeIn[b] = Free(b) /\ FreeIn[b] \in Nat
         /\ \A c \in Channels, f \in Offers : OfferPool(c, f) \subseteq OrderableBatches
         /\ \A c \in Channels : OwnOffer(c) \subseteq Special
<1>1. OrderableBatches \subseteq Batches
  BY DEF TypeOK, OrderableBatches
<1>2. \A S \in SUBSET Batches : IsFiniteSet(S)
  BY OffersFacts, FS_Subset
<1>3. \A b \in Batches : FreeIn[b] = Free(b) /\ FreeIn[b] \in Nat
  BY FreeUnits DEF FreeIn
<1> QED
  BY <1>1, <1>2, <1>3 DEF OfferPool, OwnOffer

\* list_orderable_batches_for_offer: while the product-wide offer is on sale,
\* a batch on the shelf is sold by its own offer or by that one, never by
\* both and never by neither.
THEOREM OneOfferPerBatch == Spec => []EveryBatchHasOneOffer
<1>1. TypeOK => EveryBatchHasOneOffer
  <2> SUFFICES ASSUME TypeOK, NEW c \in Channels, active, Standard \in enabled[c],
                      NEW b \in OrderableBatches
               PROVE  \E f \in {Standard} \cup OwnOffer(c) :
                        \A g \in {Standard} \cup OwnOffer(c) : (b \in OfferPool(c, g)) = (g = f)
    BY DEF EveryBatchHasOneOffer
  <2>1. b \in Batches /\ b # Standard /\ OwnOffer(c) \subseteq enabled[c]
        /\ Standard \notin OwnOffer(c)
    BY PoolFacts, OffersFacts DEF OwnOffer
  <2>2. \A g \in OwnOffer(c) : (b \in OfferPool(c, g)) = (g = b)
    BY <2>1 DEF OfferPool
  <2>3. (b \in OfferPool(c, Standard)) = (b \notin OwnOffer(c))
    BY <2>1 DEF OfferPool
  <2>4. CASE b \in OwnOffer(c)
    BY <2>1, <2>2, <2>3, <2>4
  <2>5. CASE b \notin OwnOffer(c)
    <3>1. \A g \in {Standard} \cup OwnOffer(c) : (b \in OfferPool(c, g)) = (g = Standard)
      BY <2>1, <2>2, <2>3, <2>5
    <3> QED
      BY <3>1
  <2> QED
    BY <2>4, <2>5
<1> QED
  BY <1>1, TypeCorrect, PTL

-----------------------------------------------------------------------------
(* The business catalogue and the edit form. *)

\* The product's units are those free in its orderable batches.
LEMMA ProductUnitsAreFree ==
  ASSUME TypeOK
  PROVE  ProductUnits = Total(FreeIn, OrderableBatches) /\ ProductUnits \in Nat
<1> DEFINE S == OrderableBatches
           claims == [b \in Batches |-> Reserved(b)]
<1>1. S \subseteq Batches /\ IsFiniteSet(S)
  BY PoolFacts
<1>2. \A b \in S : /\ FreeIn[b] \in Nat /\ claims[b] \in Nat
                   /\ physical[b] = FreeIn[b] + claims[b]
  BY <1>1, PoolFacts, FreeUnits
<1> HIDE DEF claims, S
<1>3. Total(physical, S) = Total(FreeIn, S) + Total(claims, S)
  BY <1>1, <1>2, TotalSum
<1>4. Total(FreeIn, S) \in Nat /\ Total(claims, S) \in Nat
  BY <1>1, <1>2, TotalType
<1>5. ProductUnits = Allocatable(Total(physical, S), Total(claims, S))
  BY DEF ProductUnits, S, claims
<1>6. ProductUnits = Total(FreeIn, S)
  BY <1>3, <1>4, <1>5 DEF Allocatable
<1> QED
  BY <1>4, <1>6 DEF S

\* A batch offer has its batch's units, the product-wide one the rest.
LEMMA UnitsPerOffer ==
  ASSUME TypeOK
  PROVE  /\ StandardUnits = Total(FreeIn, OrderableBatches \ OwnOffer("business"))
         /\ \A b \in Batches :
              BatchUnits(b) = Total(FreeIn, OrderableBatches \cap {b}) /\ BatchUnits(b) \in Nat
<1> DEFINE own == OwnOffer("business")
           shown == [b \in Batches |-> BatchUnits(b)]
           S == OrderableBatches
<1>1. /\ S \subseteq Batches /\ own \subseteq Batches
      /\ \A b \in Batches : FreeIn[b] \in Nat /\ FreeIn[b] = Free(b)
      /\ \A U \in SUBSET Batches : IsFiniteSet(U)
  BY PoolFacts, OffersFacts DEF Channels
<1>2. /\ \A b \in S : shown[b] = FreeIn[b]
      /\ \A b \in Batches \ S : shown[b] = 0
      /\ \A b \in Batches : shown[b] = BatchUnits(b)
  BY <1>1 DEF BatchUnits
<1>3. ASSUME NEW b \in Batches
      PROVE  BatchUnits(b) = Total(FreeIn, S \cap {b}) /\ BatchUnits(b) \in Nat
  <2>1. CASE b \in S
    <3>1. S \cap {b} = {b} /\ Total(FreeIn, {b}) = FreeIn[b]
      BY <1>1, <2>1, TotalSingle
    <3> QED
      BY <1>1, <2>1, <3>1 DEF BatchUnits
  <2>2. CASE b \notin S
    <3>1. S \cap {b} = {}
      BY <2>2
    <3>2. Total(FreeIn, {}) = 0
      BY TotalZero
    <3> QED
      BY <2>2, <3>1, <3>2 DEF BatchUnits
  <2> QED
    BY <2>1, <2>2
<1> HIDE DEF shown, S, own
<1>4. Total(shown, own) = Total(FreeIn, own \cap S)
  <2>1. \A b \in own : shown[b] \in Nat
    BY <1>1, <1>2, <1>3
  <2>2. Total(shown, own) = Total(shown, own \cap S)
    <3>1. own \cap S \subseteq own /\ IsFiniteSet(own) /\ \A b \in own \ (own \cap S) : shown[b] = 0
      BY <1>1, <1>2
    <3> QED
      BY <2>1, <3>1, TotalWhereTaken
  <2>3. Total(shown, own \cap S) = Total(FreeIn, own \cap S)
    BY <1>2, TotalEqual
  <2> QED
    BY <2>2, <2>3
<1>5. Total(FreeIn, S) = Total(FreeIn, S \ own) + Total(FreeIn, own \cap S)
  <2>1. /\ IsFiniteSet(S \ own) /\ IsFiniteSet(own \cap S) /\ (S \ own) \cap (own \cap S) = {}
        /\ S = (S \ own) \cup (own \cap S)
        /\ \A b \in (S \ own) \cup (own \cap S) : FreeIn[b] \in Nat
    BY <1>1
  <2>2. Total(FreeIn, (S \ own) \cup (own \cap S))
          = Total(FreeIn, S \ own) + Total(FreeIn, own \cap S)
    BY <2>1, TotalUnion
  <2> QED
    BY <2>1, <2>2
<1>6. Total(FreeIn, S \ own) \in Nat /\ Total(FreeIn, own \cap S) \in Nat
  <2>1. \A U \in SUBSET Batches : Total(FreeIn, U) \in Nat
    BY <1>1, TotalType
  <2> QED
    BY <1>1, <2>1
<1>7. StandardUnits = Allocatable(Total(FreeIn, S), Total(shown, own))
  BY ProductUnitsAreFree DEF StandardUnits, S, shown, own
<1>8. StandardUnits = Total(FreeIn, S \ own)
  BY <1>4, <1>5, <1>6, <1>7 DEF Allocatable
<1> QED
  BY <1>3, <1>8 DEF S, own

LEMMA CatalogueIsTakeable == TypeOK => BusinessCatalogueIsTakeable
<1> SUFFICES ASSUME TypeOK, NEW f \in Offers
             PROVE  BusinessUnits(f) = IF BusinessEligible(f) THEN Takeable("business", f) ELSE 0
  BY DEF BusinessCatalogueIsTakeable
<1> DEFINE S == OrderableBatches
           own == OwnOffer("business")
           pool == OfferPool("business", f)
<1>1. /\ S \subseteq Batches /\ pool \subseteq S /\ own \subseteq Special
      /\ \A b \in Batches : FreeIn[b] \in Nat
      /\ \A U \in SUBSET Batches : IsFiniteSet(U)
  BY PoolFacts DEF Channels
<1>2. Takeable("business", f) = Total(FreeIn, pool) /\ Total(FreeIn, pool) \in Nat
  <2>1. Total(FreeIn, pool) \in Nat
    BY <1>1, TotalType
  <2> QED
    BY <2>1 DEF Takeable, FreeIn
<1>3. ProductUnits = 0 => Total(FreeIn, pool) = 0
  <2>1. Total(FreeIn, pool) <= Total(FreeIn, S)
    BY <1>1, TotalMonotone
  <2> QED
    BY <1>2, <2>1, ProductUnitsAreFree
<1>4. CASE f = Standard
  <2>1. BusinessEligible(f) <=> active /\ f \in enabled["business"]
    BY <1>4 DEF BusinessEligible
  <2>2. BusinessEligible(f) => pool = S \ own
    BY <1>1, <1>4, <2>1 DEF OfferPool
  <2>3. BusinessEligible(f) => StandardUnits = Total(FreeIn, pool)
    BY <2>2, UnitsPerOffer
  <2> QED
    BY <1>2, <1>3, <1>4, <2>1, <2>3 DEF BusinessUnits
<1>5. CASE f # Standard
  <2>1. f \in Special /\ f \in Batches
    BY <1>5, OffersFacts
  <2>2. BusinessEligible(f) <=> active /\ f \in own
    BY <1>5, <2>1 DEF BusinessEligible, OwnOffer
  <2>3. BusinessEligible(f) => pool = S \cap {f}
    BY <1>5, <2>2 DEF OfferPool, OwnOffer
  <2>4. BusinessEligible(f) => BatchUnits(f) = Total(FreeIn, pool)
    BY <2>1, <2>3, UnitsPerOffer
  <2> QED
    BY <1>2, <1>3, <1>5, <2>2, <2>4 DEF BusinessUnits
<1> QED
  BY <1>4, <1>5

\* business/selectors.py and pricing/selectors.py count the same units: the
\* catalogue shows for each offer what placement finds in its pool.
THEOREM CatalogueIsExact == Spec => []BusinessCatalogueIsTakeable
<1> QED
  BY CatalogueIsTakeable, TypeCorrect, PTL

\* The order's units in a batch of an offer's pool are that line's.
LEMMA PoolIsOneLines ==
  ASSUME TypeOK,
         \A g \in Offers, b \in Batches :
           held[g][b] > 0 => BusinessEligible(g) /\ b \in OfferPool("business", g),
         NEW f \in Offers, BusinessEligible(f), NEW b \in OfferPool("business", f)
  PROVE  b \in Batches /\ HeldIn(b) = held[f][b]
<1> DEFINE column == [g \in Offers |-> held[g][b]]
<1>1. b \in Batches
  BY PoolFacts DEF Channels
<1>2. \A g \in Offers : column[g] = held[g][b] /\ column[g] \in Nat
  BY <1>1, OffersFacts DEF TypeOK
<1>3. ASSUME NEW g \in Offers \ {f}
      PROVE  column[g] = 0
  <2> SUFFICES ASSUME column[g] # 0 PROVE FALSE
    OBVIOUS
  <2>1. BusinessEligible(g) /\ b \in OfferPool("business", g)
    BY <1>1, <1>2
  <2>2. \A h \in Offers : h # Standard /\ BusinessEligible(h) => h \in OwnOffer("business")
    BY OffersFacts DEF BusinessEligible, OwnOffer
  <2>3. \A h \in Offers : h # Standard /\ b \in OfferPool("business", h) => b = h
    BY DEF OfferPool
  <2>4. b \in OfferPool("business", Standard) => b \notin OwnOffer("business")
    BY DEF OfferPool
  <2> QED
    BY <2>1, <2>2, <2>3, <2>4
<1> HIDE DEF column
<1>4. Total(column, Offers) = Total(column, {f})
  BY <1>2, <1>3, OffersFacts, TotalWhereTaken
<1>5. Total(column, {f}) = column[f]
  BY <1>2, TotalSingle
<1> QED
  BY <1>1, <1>2, <1>4, <1>5 DEF HeldIn, column

\* business/offer_choices.py: an edit form offers for each line its own units
\* and what is free, which is what the pool has without this order.
THEOREM EditFormsAreExact == Spec => []EditFormIsExact
<1>1. TypeOK => EditFormIsExact
  <2> SUFFICES ASSUME TypeOK,
                      \A g \in Offers, b \in Batches :
                        held[g][b] > 0 => BusinessEligible(g) /\ b \in OfferPool("business", g),
                      NEW f \in Offers
               PROVE  FormUnits(f) =
                        IF BusinessEligible(f)
                        THEN Total([b \in Batches |-> physical[b] - taken[b]],
                                   OfferPool("business", f))
                        ELSE 0
    BY DEF EditFormIsExact
  <2>1. BusinessUnits(f) = IF BusinessEligible(f) THEN Takeable("business", f) ELSE 0
    BY CatalogueIsTakeable DEF BusinessCatalogueIsTakeable
  <2>2. CASE ~BusinessEligible(f)
    BY <2>1, <2>2 DEF FormUnits
  <2>3. CASE BusinessEligible(f)
    <3> DEFINE pool == OfferPool("business", f)
               line == held[f]
               rest == [b \in Batches |-> physical[b] - taken[b]]
    <3>1. pool \subseteq Batches /\ IsFiniteSet(pool) /\ IsFiniteSet(Batches)
          /\ \A b \in pool : FreeIn[b] \in Nat /\ FreeIn[b] = Free(b)
      BY PoolFacts, OffersFacts DEF Channels
    <3>2. \A b \in Batches : line[b] \in Nat
      BY OffersFacts DEF TypeOK
    <3>3. \A b \in pool : rest[b] = FreeIn[b] + line[b]
      <4> SUFFICES ASSUME NEW b \in pool PROVE rest[b] = FreeIn[b] + line[b]
        OBVIOUS
      <4>1. b \in Batches /\ HeldIn(b) = line[b]
        BY <2>3, PoolIsOneLines
      <4>2. /\ taken[b] \in Nat /\ physical[b] \in Nat /\ line[b] \in Nat
            /\ FreeIn[b] = physical[b] - (HeldIn(b) + taken[b])
        BY <3>1, <3>2, <4>1, FreeUnits
      <4> QED
        BY <4>1, <4>2
    <3>4. \A b \in Batches \ pool : line[b] = 0
      BY <3>2
    <3>5. Takeable("business", f) = Total(FreeIn, pool)
      BY DEF Takeable, FreeIn
    <3>6. LineUnits(f) = Total(line, Batches)
      BY DEF LineUnits
    <3> HIDE DEF pool, line, rest
    <3>7. Total(line, Batches) = Total(line, pool)
      BY <3>1, <3>2, <3>4, TotalWhereTaken
    <3>8. Total(rest, pool) = Total(FreeIn, pool) + Total(line, pool)
      <4>1. \A b \in pool : FreeIn[b] \in Nat /\ line[b] \in Nat /\ rest[b] = FreeIn[b] + line[b]
        BY <3>1, <3>2, <3>3
      <4> QED
        BY <3>1, <4>1, TotalSum
    <3>9. FormUnits(f) = Total(rest, pool)
      BY <2>1, <2>3, <3>5, <3>6, <3>7, <3>8 DEF FormUnits
    <3> QED
      BY <2>3, <3>9 DEF rest, pool
  <2> QED
    BY <2>2, <2>3
<1> QED
  BY <1>1, TypeCorrect, PTL

-----------------------------------------------------------------------------
(* The retail catalogue. *)

\* retail/catalog_selectors.py and retail/services.py: what is shown can be
\* checked out, an accepted batch offer is shown, and payment finds no unit
\* that the catalogue did not count.
THEOREM RetailCatalogueIsHonest == Spec => []RetailCatalogueMatchesCheckout
<1>1. TypeOK => RetailCatalogueMatchesCheckout
  <2> SUFFICES ASSUME TypeOK, NEW f \in Offers
               PROVE  /\ RetailUnits(f) > 0 => CheckoutResolves(f)
                      /\ f # Standard /\ CheckoutResolves(f) => RetailUnits(f) > 0
                      /\ CheckoutResolves(f) => Takeable("retail", f) <= RetailUnits(f)
    BY DEF RetailCatalogueMatchesCheckout
  <2> DEFINE pool == RetailPool(f)
  <2>1. /\ pool \subseteq OrderableBatches /\ pool \subseteq Batches /\ IsFiniteSet(pool)
        /\ \A b \in pool : /\ physical[b] \in Nat /\ physical[b] > 0
                           /\ FreeIn[b] \in Nat /\ FreeIn[b] <= physical[b]
    <3>1. pool \subseteq OrderableBatches /\ pool \subseteq Batches /\ IsFiniteSet(pool)
      BY PoolFacts, FS_EmptySet DEF RetailPool, Channels
    <3>2. \A b \in pool : physical[b] > 0
      BY <3>1 DEF OrderableBatches
    <3> QED
      BY <3>1, <3>2, PoolFacts, FreeUnits
  <2>2. RetailUnits(f) = Total(physical, pool)
    BY DEF RetailUnits
  <2>3. RetailUnits(f) > 0 => CheckoutResolves(f)
    <3> SUFFICES ASSUME RetailUnits(f) > 0 PROVE CheckoutResolves(f)
      OBVIOUS
    <3>1. pool # {}
      <4>1. Total(physical, {}) = 0
        BY TotalZero
      <4> HIDE DEF pool
      <4> QED
        BY <2>2, <4>1
    <3>2. active /\ f \in enabled["retail"] \cap priced["retail"]
      BY <3>1 DEF RetailPool, OfferPool
    <3> QED
      BY <3>1, <3>2 DEF CheckoutResolves
  <2>4. f # Standard /\ CheckoutResolves(f) => RetailUnits(f) > 0
    <3> SUFFICES ASSUME f # Standard, CheckoutResolves(f) PROVE RetailUnits(f) > 0
      OBVIOUS
    <3>1. PICK b \in pool : TRUE
      BY DEF CheckoutResolves
    <3> HIDE DEF pool
    <3>2. Total(physical, {b}) <= Total(physical, pool)
      BY <2>1, TotalMonotone
    <3>3. Total(physical, {b}) = physical[b]
      BY <2>1, TotalSingle
    <3>4. Total(physical, pool) \in Nat
      BY <2>1, TotalType
    <3> QED
      BY <2>1, <2>2, <3>2, <3>3, <3>4
  <2>5. CheckoutResolves(f) => Takeable("retail", f) <= RetailUnits(f)
    <3> SUFFICES ASSUME CheckoutResolves(f) PROVE Takeable("retail", f) <= RetailUnits(f)
      OBVIOUS
    <3>1. Takeable("retail", f) = Total(FreeIn, pool)
      BY DEF CheckoutResolves, Takeable, FreeIn, RetailPool
    <3> HIDE DEF pool
    <3>2. Total(FreeIn, pool) <= Total(physical, pool)
      BY <2>1, TotalMonotone
    <3> QED
      BY <2>2, <3>1, <3>2
  <2> QED
    BY <2>3, <2>4, <2>5
<1> QED
  BY <1>1, TypeCorrect, PTL
=============================================================================
