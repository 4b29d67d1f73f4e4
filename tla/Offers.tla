------------------------------- MODULE Offers -------------------------------
(***************************************************************************)
(* What may be bought, and from which batches: the commercial prices of    *)
(* one product (pricing/), its batches (inventory/selectors.py) and what   *)
(* the two catalogues and the order forms make of them (business/,         *)
(* retail/).  An offer is either the product-wide one of a channel or a    *)
(* batch's own.                                                            *)
(*                                                                         *)
(* The pool an offer draws from (pricing/selectors.py) and the number of   *)
(* units the business catalogue shows for it (business/selectors.py) are   *)
(* computed independently of each other; here they meet.                   *)
(*                                                                         *)
(* Reservations are those of one business order under edit (by line) and   *)
(* those of everybody else (by batch).  How a line's units are spread over *)
(* the batches of its pool is module Reservations' business.               *)
(***************************************************************************)
EXTENDS FefoPlan

CONSTANTS
  Batches,   \* the product's batches
  Special,   \* those for which staff may set a special price
  MaxUnits   \* bound on a batch's units

Standard == 0
Offers == {Standard} \cup Special
Channels == {"business", "retail"}

ASSUME OffersAssumption ==
  /\ Batches \subseteq Nat \ {Standard} /\ IsFiniteSet(Batches)
  /\ Special \subseteq Batches /\ MaxUnits \in Nat

VARIABLES
  active,     \* Product.active
  enabled,    \* CommercialPrice.enabled, by channel
  priced,     \* offers that have an EUR amount, by channel
  physical,   \* InventoryBatch.quantity
  orderable,  \* batches that are ACTIVE and not too close to their best-before date
  held,       \* units the order's line of an offer has reserved in a batch
  taken       \* units others have reserved in a batch

pricingVars == <<active, enabled, priced>>
stockVars == <<physical, orderable>>
offersVars == <<pricingVars, stockVars, held, taken>>

NothingHeld == [f \in Offers |-> [b \in Batches |-> 0]]
HeldIn(b) == Total([f \in Offers |-> held[f][b]], Offers)
Reserved(b) == HeldIn(b) + taken[b]
LineUnits(f) == Total(held[f], Batches)

\* An order's line may hold units of any batch, and no batch is reserved
\* beyond what is there.
TypeOK ==
  /\ active \in BOOLEAN
  /\ enabled \in [Channels -> SUBSET Offers]
  /\ priced \in [Channels -> SUBSET Offers]
  /\ physical \in [Batches -> 0 .. MaxUnits]
  /\ orderable \subseteq Batches
  /\ held \in [Offers -> [Batches -> 0 .. MaxUnits]]
  /\ taken \in [Batches -> 0 .. MaxUnits]
  /\ \A b \in Batches : Reserved(b) <= physical[b]

\* The form that created the product has set the product-wide prices.
Init ==
  /\ active = TRUE
  /\ enabled \in [Channels -> SUBSET {Standard}]
  /\ priced \in [Channels -> SUBSET {Standard}]
  /\ physical = [b \in Batches |-> 0]
  /\ orderable = {}
  /\ held = NothingHeld
  /\ taken = [b \in Batches |-> 0]

-----------------------------------------------------------------------------
(* Pools: pricing/selectors.py, inventory/selectors.py. *)

\* list_orderable_batches_for_product.
OrderableBatches == {b \in orderable : physical[b] > 0}

\* Batches with an own offer in the channel that is enabled and priced.
OwnOffer(c) == Special \cap enabled[c] \cap priced[c]

\* Fault: the multi-valued exclude() the code's note warns of: the enabled row of
\* the batch and its row in the channel need not be the same one.
PoolExcludingAnyRow(c, f) ==
  IF f \notin enabled[c] \/ ~active THEN {}
  ELSE OrderableBatches \cap
    (IF f = Standard
     THEN {b \in Batches : ~((\E d \in Channels : b \in enabled[d]) /\ b \in priced[c])}
     ELSE {f})

\* list_orderable_batches_for_offer.
OfferPool(c, f) ==
  IF f \notin enabled[c] \/ ~active THEN {}
  ELSE OrderableBatches \cap (IF f = Standard THEN Batches \ OwnOffer(c) ELSE {f})

Free(b) == Allocatable(physical[b], Reserved(b))

\* What a reservation for the offer finds in its pool.
Takeable(c, f) == Total([b \in Batches |-> Free(b)], OfferPool(c, f))

\* _validate_business_offer: the product-wide offer may be unpriced.
BusinessEligible(f) ==
  active /\ f \in enabled["business"] /\ (f = Standard \/ f \in priced["business"])

-----------------------------------------------------------------------------
(* The business catalogue: business/selectors.py. *)

\* orderable_quantity_by_product_id, over the product's totals.
ProductUnits ==
  Allocatable(Total(physical, OrderableBatches),
              Total([b \in Batches |-> Reserved(b)], OrderableBatches))

\* orderable_quantity_by_batch_pk.
BatchUnits(b) == IF b \in OrderableBatches THEN Free(b) ELSE 0

\* Fault: the units of a batch offer stay in the product-wide number.
WholeProductUnits == ProductUnits

\* What is left of the product's units for the product-wide offer.
StandardUnits ==
  Allocatable(ProductUnits, Total([b \in Batches |-> BatchUnits(b)], OwnOffer("business")))

\* list_business_catalog_products: units shown for an offer, 0 when it is not
\* in the catalogue.
BusinessUnits(f) ==
  IF ~active \/ ProductUnits = 0 THEN 0
  ELSE IF f = Standard THEN (IF f \in enabled["business"] THEN StandardUnits ELSE 0)
  ELSE IF f \in OwnOffer("business") THEN BatchUnits(f) ELSE 0

\* Fault: the order's own units are not given back.
FreeUnitsOnly(f) == BusinessUnits(f)

\* build_business_offer_choice_context for an order under edit.
FormUnits(f) ==
  BusinessUnits(f) + (IF BusinessEligible(f) THEN LineUnits(f) ELSE 0)

-----------------------------------------------------------------------------
(* The retail catalogue and checkout: retail/selectors.py,                 *)
(* retail/catalog_selectors.py, retail/services.py.                        *)

\* list_batches_for_retail_price.
RetailPool(f) == IF f \in enabled["retail"] \cap priced["retail"]
                 THEN OfferPool("retail", f) ELSE {}

\* list_retail_catalog_products: physical units, reserved ones included.
RetailUnits(f) == Total(physical, RetailPool(f))

\* Fault: a batch offer is resolved without looking at its batch.
CheckoutResolvesAnyBatch(f) == active /\ f \in enabled["retail"] \cap priced["retail"]

\* _resolve_retail_line: stock is looked at for batch offers alone, and there
\* only whether the batch is on sale.
CheckoutResolves(f) ==
  /\ active /\ f \in enabled["retail"] \cap priced["retail"]
  /\ f # Standard => RetailPool(f) # {}

-----------------------------------------------------------------------------
(* Staff: prices. *)

\* The product's form: update_product and update_product_standard_pricing for
\* both channels, in one transaction.
EditProduct ==
  /\ active' \in BOOLEAN
  /\ \E on \in SUBSET Channels, amount \in SUBSET Channels :
       /\ enabled' = [c \in Channels |->
            IF c \in on THEN enabled[c] \cup {Standard} ELSE enabled[c] \ {Standard}]
       /\ priced' = [c \in Channels |->
            IF c \in amount THEN priced[c] \cup {Standard} ELSE priced[c] \ {Standard}]
  /\ UNCHANGED <<stockVars, held, taken>>

\* update_batch_special_pricing, in the transaction of the batch's form.
UpdateBatchPricing(b) ==
  /\ \E on \in SUBSET Channels, amount \in SUBSET Channels :
       /\ enabled' = [c \in Channels |->
            IF c \in on THEN enabled[c] \cup {b} ELSE enabled[c] \ {b}]
       /\ priced' = [c \in Channels |->
            IF c \in amount THEN priced[c] \cup {b} ELSE priced[c] \ {b}]
  /\ UNCHANGED <<active, stockVars, held, taken>>

-----------------------------------------------------------------------------
(* Stock. *)

\* Fault: a correction does not ask for reservations.
CorrectBelowReserved(b) ==
  /\ \E n \in 0 .. MaxUnits, o \in {orderable \cup {b}, orderable \ {b}} :
       physical' = [physical EXCEPT ![b] = n] /\ orderable' = o
  /\ UNCHANGED <<pricingVars, held, taken>>

\* update_batch: new quantity and best-before date; create_batch is the first.
CorrectBatch(b) ==
  /\ \E n \in Reserved(b) .. MaxUnits, o \in {orderable \cup {b}, orderable \ {b}} :
       physical' = [physical EXCEPT ![b] = n] /\ orderable' = o
  /\ UNCHANGED <<pricingVars, held, taken>>

\* A day passes, and the batch's best-before date reaches the cutoff.
BestBeforeNears(b) ==
  /\ b \in orderable
  /\ orderable' = orderable \ {b}
  /\ UNCHANGED <<pricingVars, physical, held, taken>>

-----------------------------------------------------------------------------
(* Orders. *)

\* The order is placed: prepare_business_order_for_placement reserves each
\* line in its offer's pool.
PlaceOrder ==
  /\ held = NothingHeld
  /\ \E plan \in [Offers -> [Batches -> 0 .. MaxUnits]] :
       /\ plan # NothingHeld
       /\ \A f \in Offers, b \in Batches :
            plan[f][b] > 0 => BusinessEligible(f) /\ b \in OfferPool("business", f)
       /\ \A b \in Batches : Total([f \in Offers |-> plan[f][b]], Offers) <= Free(b)
       /\ held' = plan
  /\ UNCHANGED <<pricingVars, stockVars, taken>>

\* cancel_order.
CancelOrder ==
  /\ held # NothingHeld
  /\ held' = NothingHeld
  /\ UNCHANGED <<pricingVars, stockVars, taken>>

\* pack_order: the reserved units leave the shelf.
PackOrder ==
  /\ held # NothingHeld
  /\ physical' = [b \in Batches |-> physical[b] - HeldIn(b)]
  /\ held' = NothingHeld
  /\ UNCHANGED <<pricingVars, orderable, taken>>

\* Other orders, of either channel, come, go and are packed.
OthersReserve(b) ==
  /\ b \in OrderableBatches /\ Free(b) > 0
  /\ \E c \in Channels, f \in Offers : b \in OfferPool(c, f)
  /\ taken' = [taken EXCEPT ![b] = @ + 1]
  /\ UNCHANGED <<pricingVars, stockVars, held>>

OthersRelease(b) ==
  /\ taken[b] > 0
  /\ taken' = [taken EXCEPT ![b] = @ - 1]
  /\ UNCHANGED <<pricingVars, stockVars, held>>

OthersPack(b) ==
  /\ taken[b] > 0
  /\ taken' = [taken EXCEPT ![b] = @ - 1]
  /\ physical' = [physical EXCEPT ![b] = @ - 1]
  /\ UNCHANGED <<pricingVars, orderable, held>>

-----------------------------------------------------------------------------
Next ==
  \/ EditProduct
  \/ \E b \in Special : UpdateBatchPricing(b)
  \/ \E b \in Batches : CorrectBatch(b) \/ BestBeforeNears(b)
  \/ PlaceOrder \/ CancelOrder \/ PackOrder
  \/ \E b \in Batches : OthersReserve(b) \/ OthersRelease(b) \/ OthersPack(b)

Spec == Init /\ [][Next]_offersVars

-----------------------------------------------------------------------------
(* Correctness. *)

\* What the business catalogue shows for an offer is exactly what placement
\* would find for it in its pool.
BusinessCatalogueIsTakeable ==
  \A f \in Offers :
    BusinessUnits(f) = IF BusinessEligible(f) THEN Takeable("business", f) ELSE 0

\* "the same units are not represented by two selectable offers", nor by none:
\* while the product-wide offer is on sale, every orderable batch stands behind
\* exactly one of the channel's offers on sale.
EveryBatchHasOneOffer ==
  \A c \in Channels :
    active /\ Standard \in enabled[c] =>
      \A b \in OrderableBatches :
        \E f \in {Standard} \cup OwnOffer(c) :
          \A g \in {Standard} \cup OwnOffer(c) : (b \in OfferPool(c, g)) = (g = f)

\* business/offer_choices.py: "current catalog availability already subtracts
\* that reservation".  An edit form offers for each line what the edit can
\* have, the order's reservations being released first - as long as every unit
\* of the order is in the pool its line's offer has now, and that is on sale.
EditFormIsExact ==
  (\A f \in Offers, b \in Batches :
     held[f][b] > 0 => BusinessEligible(f) /\ b \in OfferPool("business", f)) =>
    \A f \in Offers :
      FormUnits(f) =
        IF BusinessEligible(f)
        THEN Total([b \in Batches |-> physical[b] - taken[b]], OfferPool("business", f))
        ELSE 0

\* Retail: what the catalogue shows the checkout accepts, a batch offer it
\* accepts is shown, and no unit that a payment could reserve is missing.
RetailCatalogueMatchesCheckout ==
  \A f \in Offers :
    /\ RetailUnits(f) > 0 => CheckoutResolves(f)
    /\ f # Standard /\ CheckoutResolves(f) => RetailUnits(f) > 0
    /\ CheckoutResolves(f) => Takeable("retail", f) <= RetailUnits(f)
=============================================================================
