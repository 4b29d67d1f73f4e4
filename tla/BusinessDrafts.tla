--------------------------- MODULE BusinessDrafts ---------------------------
(***************************************************************************)
(* The draft order of one business customer: business/services.py with the *)
(* draft operations of orders/services.py, called by the portal's views,   *)
(* by the repeat-order service and, next to them, by staff who enter an    *)
(* order for the customer (ops_portal/orders/services.py).                 *)
(*                                                                         *)
(* Requests of several portal sessions interleave.  What a request reads   *)
(* without a lock (the catalogue, the draft shown by a view, the absence   *)
(* of a draft) is kept in its record until the request uses it.  A request *)
(* that has locked the draft and read a line of it holds the lock until it *)
(* commits; all others then wait.                                          *)
(*                                                                         *)
(* All offers belong to one product.  Where stock comes from is the        *)
(* business of modules Offers and Reservations, and it moves at any time:  *)
(* here each reading of the catalogue may give any number of units, and a  *)
(* placement may find enough stock or not.                                 *)
(***************************************************************************)
EXTENDS FefoPlan

CONSTANTS
  Sessions,  \* portal requests of the customer's users
  Clerks,    \* staff requests that create an order for the customer
  Orders,    \* order rows, numbered in creation order
  Offers,    \* the business offers of the product
  Standard,  \* the product's standard offer
  Limit,     \* MAX_QUANTITY_PER_PRODUCT_PER_ORDER
  MaxUnits   \* bound on the units the catalogue shows for an offer

ASSUME DraftsAssumption ==
  /\ Orders \subseteq Nat \ {0} /\ IsFiniteSet(Orders)
  /\ IsFiniteSet(Offers) /\ Standard \in Offers
  /\ Limit \in Nat \ {0} /\ MaxUnits \in Nat

VARIABLES
  status,    \* Order.status ("none": not created, "deleted": discarded)
  quantity,  \* OrderLine.quantity_in_units (0: no such line)
  request,   \* what each portal request is doing and what it has read
  clerk      \* the draft each staff request has created and not yet placed

vars == <<status, quantity, request, clerk>>

NoOrder == 0

\* A line is "selected" when it has a BusinessOfferSelection (the portal adds
\* such lines) and "bare" when it has none (staff enter such lines).
LineKeys == Offers \X {"selected", "bare"}
NoLines == [l \in LineKeys |-> 0]

Item == [offer : Offers, units : 1 .. Limit]
Nothing == [offer |-> Standard, units |-> 1]
Idle == [step |-> "idle", item |-> Nothing, shown |-> 0, order |-> NoOrder,
         had |-> 0, todo |-> {}]

\* Line l of order o, to be repeated.
Sources == [order : Orders, line : LineKeys]
RequestState ==
  [step : {"idle", "chosen", "unopened", "beaten", "locked", "repeating", "viewed", "failed"},
   item : Item, shown : 0 .. MaxUnits, order : Orders \cup {NoOrder},
   had : 0 .. Limit, todo : SUBSET Sources]

TypeOK ==
  /\ status \in [Orders -> {"none", "draft", "placed", "cancelled", "deleted"}]
  /\ quantity \in [Orders -> [LineKeys -> 0 .. Limit]]
  /\ request \in [Sessions -> RequestState]
  /\ clerk \in [Clerks -> Orders \cup {NoOrder}]

Init ==
  /\ status = [o \in Orders |-> "none"]
  /\ quantity = [o \in Orders |-> NoLines]
  /\ request = [s \in Sessions |-> Idle]
  /\ clerk = [c \in Clerks |-> NoOrder]

-----------------------------------------------------------------------------
(* What the requests read. *)

Draft(o) == status[o] = "draft"
HasDraft == \E o \in Orders : Draft(o)

\* select_for_update: a draft locked by a request keeps all others waiting.
Unlocked(o) == \A s \in Sessions : request[s].step = "locked" => request[s].order # o

UnitsIn(lines) == Total(lines, LineKeys)
IsNextRow(o) == status[o] = "none" /\ \A p \in Orders : p < o => status[p] # "none"

\* After a request's own work: back to the rest of a repeated order, or done.
Finish(r) ==
  IF r.todo = {} THEN Idle ELSE [Idle EXCEPT !.step = "repeating", !.todo = r.todo]

-----------------------------------------------------------------------------
(* add_catalog_offer_to_draft_order. *)

\* The catalogue is read before anything is locked.
ChooseOffer(s) ==
  /\ request[s].step \in {"idle", "failed"}
  /\ \E i \in Item, n \in 1 .. MaxUnits :
       request' = [request EXCEPT ![s] =
                     [Idle EXCEPT !.step = "chosen", !.item = i, !.shown = n]]
  /\ UNCHANGED <<status, quantity, clerk>>

LockedOn(r, o) ==
  [r EXCEPT !.step = "locked", !.order = o,
            !.had = quantity[o][<<r.item.offer, "selected">>]]

\* Fault: the draft is read without select_for_update.
FindDraftWithoutLock(s) ==
  /\ request[s].step = "chosen"
  /\ request' = [request EXCEPT ![s] =
                   IF HasDraft THEN LockedOn(@, CHOOSE o \in Orders : Draft(o))
                   ELSE [@ EXCEPT !.step = "unopened"]]
  /\ UNCHANGED <<status, quantity, clerk>>

\* get_or_create_customer_draft_order, first query: lock the draft and go on
\* to the line of the offer, or see that there is none.
FindDraft(s) ==
  /\ request[s].step = "chosen"
  /\ \/ \E o \in Orders :
          /\ Draft(o) /\ Unlocked(o)
          /\ request' = [request EXCEPT ![s] = LockedOn(@, o)]
     \/ /\ ~HasDraft
        /\ request' = [request EXCEPT ![s].step = "unopened"]
  /\ UNCHANGED <<status, quantity, clerk>>

\* Fault: the limit is compared with the line alone.
AcceptableByLine(r, others) ==
  r.had + r.item.units <= r.shown /\ r.had + r.item.units <= Limit

\* The two checks of an addition, `others` being the units of the product's
\* other lines in the draft.
Acceptable(r, others) ==
  /\ r.had + r.item.units <= r.shown
  /\ others + r.had + r.item.units <= Limit

\* Fault: no unique constraint stops the second draft.
OpenSecondDraft(s) ==
  LET r == request[s]
  IN  /\ r.step = "unopened" /\ Acceptable(r, 0)
      /\ \E o \in Orders :
           /\ IsNextRow(o)
           /\ status' = [status EXCEPT ![o] = "draft"]
           /\ quantity' = [quantity EXCEPT ![o][<<r.item.offer, "selected">>] = r.item.units]
      /\ request' = [request EXCEPT ![s] = Finish(r)]
      /\ UNCHANGED clerk

\* Its insert succeeds, and the line is added to the new draft; a refusal
\* rolls the new row back.
OpenDraft(s) ==
  LET r == request[s]
  IN  /\ r.step = "unopened" /\ ~HasDraft
      /\ \/ /\ Acceptable(r, 0)
            /\ \E o \in Orders :
                 /\ IsNextRow(o)
                 /\ status' = [status EXCEPT ![o] = "draft"]
                 /\ quantity' = [quantity EXCEPT ![o][<<r.item.offer, "selected">>] =
                                   r.item.units]
         \/ ~Acceptable(r, 0) /\ UNCHANGED <<status, quantity>>
      /\ request' = [request EXCEPT ![s] = Finish(r)]
      /\ UNCHANGED clerk

\* Its insert violates unique_business_draft_order_per_customer.
LoseRace(s) ==
  /\ request[s].step = "unopened" /\ HasDraft
  /\ request' = [request EXCEPT ![s].step = "beaten"]
  /\ UNCHANGED <<status, quantity, clerk>>

\* The second query finds the winner's draft.
JoinWinner(s) ==
  /\ request[s].step = "beaten"
  /\ \E o \in Orders :
       /\ Draft(o) /\ Unlocked(o)
       /\ request' = [request EXCEPT ![s] = LockedOn(@, o)]
  /\ UNCHANGED <<status, quantity, clerk>>

\* Fault: the second query skips a draft that is locked (skip_locked).
MissLockedWinner(s) ==
  /\ request[s].step = "beaten"
  /\ \A o \in Orders : ~(Draft(o) /\ Unlocked(o))
  /\ request' = [request EXCEPT ![s] = [Idle EXCEPT !.step = "failed"]]
  /\ UNCHANGED <<status, quantity, clerk>>

\* The second query finds nothing: Order.DoesNotExist, which no caller handles.
MissWinner(s) ==
  /\ request[s].step = "beaten" /\ ~HasDraft
  /\ request' = [request EXCEPT ![s] = [Idle EXCEPT !.step = "failed"]]
  /\ UNCHANGED <<status, quantity, clerk>>

\* The checks and the write, up to the commit.
FinishAdd(s) ==
  LET r == request[s]
      line == <<r.item.offer, "selected">>
      others == Total(quantity[r.order], LineKeys \ {line})
  IN  /\ r.step = "locked"
      /\ quantity' = IF Acceptable(r, others)
                     THEN [quantity EXCEPT ![r.order][line] = r.had + r.item.units]
                     ELSE quantity
      /\ request' = [request EXCEPT ![s] = Finish(r)]
      /\ UNCHANGED <<status, clerk>>

-----------------------------------------------------------------------------
(* repeat_order_into_draft: the lines of a placed order are added one by   *)
(* one, each in a transaction of its own, those the catalogue cannot serve *)
(* left out.                                                               *)

\* A bare line is repeated as the standard offer.
Repeated(source) ==
  LET l == source.line
  IN  [offer |-> IF l[2] = "bare" THEN Standard ELSE l[1],
       units |-> quantity[source.order][l]]

LinesOf(o) == {source \in Sources : source.order = o /\ quantity[o][source.line] > 0}

StartRepeat(s) ==
  /\ request[s].step \in {"idle", "failed"}
  /\ \E o \in Orders :
       /\ status[o] \in {"placed", "cancelled"}
       /\ \E served \in SUBSET LinesOf(o) :
            request' = [request EXCEPT ![s] = Finish([Idle EXCEPT !.todo = served])]
  /\ UNCHANGED <<status, quantity, clerk>>

\* The next line is added like any choice, if the catalogue still has it.
RepeatNext(s) ==
  LET r == request[s]
  IN  /\ r.step = "repeating"
      /\ \E source \in r.todo, n \in 0 .. MaxUnits :
           LET rest == [r EXCEPT !.todo = @ \ {source}]
           IN  request' = [request EXCEPT ![s] =
                 IF n = 0 THEN Finish(rest)
                 ELSE [rest EXCEPT !.step = "chosen", !.item = Repeated(source),
                                   !.shown = n]]
      /\ UNCHANGED <<status, quantity, clerk>>

-----------------------------------------------------------------------------
(* The portal's other operations.  The view finds the draft (and the line) *)
(* without a lock; the service locks the order it was given.               *)

View(s) ==
  /\ request[s].step \in {"idle", "failed"}
  /\ \E o \in Orders :
       /\ Draft(o)
       /\ request' = [request EXCEPT ![s] =
                        [Idle EXCEPT !.step = "viewed", !.order = o]]
  /\ UNCHANGED <<status, quantity, clerk>>

Acting(s) == request[s].step = "viewed" /\ Unlocked(request[s].order)
Done(s) == request' = [request EXCEPT ![s] = Idle]

OtherLines(o, l) == Total(quantity[o], LineKeys \ {l})

\* Fault: the status is not looked at again under the lock.
SetLineQuantityAnyStatus(s) ==
  LET o == request[s].order
  IN  /\ Acting(s)
      /\ \E l \in LineKeys, n \in 1 .. Limit :
           /\ quantity[o][l] > 0 /\ OtherLines(o, l) + n <= Limit
           /\ quantity' = [quantity EXCEPT ![o][l] = n]
      /\ Done(s)
      /\ UNCHANGED <<status, clerk>>

\* Fault: the number is added to the line's.
SetLineQuantityByAdding(s) ==
  LET o == request[s].order
  IN  /\ Acting(s) /\ Draft(o)
      /\ \E l \in LineKeys, n \in 1 .. Limit :
           /\ quantity[o][l] > 0 /\ OtherLines(o, l) + n <= Limit
           /\ quantity' = [quantity EXCEPT ![o][l] = @ + n]
      /\ Done(s)
      /\ UNCHANGED <<status, clerk>>

\* set_draft_line_quantity, for a number the catalogue can serve.
SetLineQuantity(s) ==
  LET o == request[s].order
  IN  /\ Acting(s) /\ Draft(o)
      /\ \E l \in LineKeys, n \in 1 .. Limit :
           /\ quantity[o][l] > 0 /\ OtherLines(o, l) + n <= Limit
           /\ quantity' = [quantity EXCEPT ![o][l] = n]
      /\ Done(s)
      /\ UNCHANGED <<status, clerk>>

\* remove_draft_line.
RemoveLine(s) ==
  LET o == request[s].order
  IN  /\ Acting(s) /\ Draft(o)
      /\ \E l \in LineKeys :
           quantity[o][l] > 0 /\ quantity' = [quantity EXCEPT ![o][l] = 0]
      /\ Done(s)
      /\ UNCHANGED <<status, clerk>>

\* discard_draft_order: row and lines are deleted.
DiscardDraft(s) ==
  LET o == request[s].order
  IN  /\ Acting(s) /\ Draft(o)
      /\ status' = [status EXCEPT ![o] = "deleted"]
      /\ quantity' = [quantity EXCEPT ![o] = NoLines]
      /\ Done(s)
      /\ UNCHANGED clerk

\* Placement: prepare_business_order_for_placement wants at least one line, and
\* enough stock, which is not modelled here.
Place(o) ==
  /\ Draft(o) /\ UnitsIn(quantity[o]) > 0
  /\ status' = [status EXCEPT ![o] = "placed"]

\* place_order.
PlaceDraft(s) ==
  /\ Acting(s) /\ Place(request[s].order)
  /\ Done(s)
  /\ UNCHANGED <<quantity, clerk>>

\* The service refuses (InvalidOrderOperation, short stock, row gone).
Refuse(s) ==
  /\ Acting(s)
  /\ Done(s)
  /\ UNCHANGED <<status, quantity, clerk>>

-----------------------------------------------------------------------------
(* Staff. *)

\* ops create_order, first transaction: the form has checked the lines
\* against the offers' units and the limit, and the draft is committed.  When
\* the customer has a draft the insert fails, and with it the request.
StaffCreateDraft(c) ==
  /\ clerk[c] = NoOrder /\ ~HasDraft
  /\ \E o \in Orders, wanted \in [Offers -> 0 .. Limit] :
       /\ IsNextRow(o)
       /\ Total(wanted, Offers) \in 1 .. Limit
       /\ status' = [status EXCEPT ![o] = "draft"]
       /\ quantity' = [quantity EXCEPT ![o] =
                         [l \in LineKeys |-> IF l[2] = "bare" THEN wanted[l[1]] ELSE 0]]
       /\ clerk' = [clerk EXCEPT ![c] = o]
  /\ UNCHANGED request

\* Its second transaction places the draft, whatever it has become; when
\* that fails the draft stays.
StaffPlaceDraft(c) ==
  /\ clerk[c] # NoOrder /\ Unlocked(clerk[c])
  /\ Place(clerk[c]) \/ UNCHANGED status
  /\ clerk' = [clerk EXCEPT ![c] = NoOrder]
  /\ UNCHANGED <<quantity, request>>

\* cancel_order of a draft.
StaffCancelDraft(o) ==
  /\ Draft(o) /\ Unlocked(o)
  /\ status' = [status EXCEPT ![o] = "cancelled"]
  /\ UNCHANGED <<quantity, request, clerk>>

-----------------------------------------------------------------------------
AddStep(s) ==
  \/ ChooseOffer(s) \/ FindDraft(s) \/ OpenDraft(s) \/ LoseRace(s)
  \/ JoinWinner(s) \/ MissWinner(s) \/ FinishAdd(s)

ViewStep(s) ==
  \/ View(s) \/ SetLineQuantity(s) \/ RemoveLine(s)
  \/ DiscardDraft(s) \/ PlaceDraft(s) \/ Refuse(s)

Next ==
  \/ \E s \in Sessions : AddStep(s) \/ StartRepeat(s) \/ RepeatNext(s) \/ ViewStep(s)
  \/ \E c \in Clerks : StaffCreateDraft(c) \/ StaffPlaceDraft(c)
  \/ \E o \in Orders : StaffCancelDraft(o)

Spec == Init /\ [][Next]_vars

-----------------------------------------------------------------------------
(* Correctness. *)

\* A customer never has two drafts, whoever opens them and in whatever order:
\* the portal's sessions and staff share one.
OneDraft == \A o, p \in Orders : Draft(o) /\ Draft(p) => o = p

\* An addition is never lost and loses none: when it commits, its line grows
\* by exactly the units asked for over what the line holds at that moment, or
\* the draft stays as it is.
NoAddIsLost ==
  [][\A s \in Sessions :
       LET r == request[s]
           line == <<r.item.offer, "selected">>
       IN  r.step = "locked" /\ request'[s] # r =>
             quantity' \in {quantity,
                            [quantity EXCEPT ![r.order][line] = @ + r.item.units]}]_vars

\* No draft ever holds more than MAX_QUANTITY_PER_PRODUCT_PER_ORDER units of
\* a product over all its lines, whichever requests built it together.
DraftsKeepTheLimit == \A o \in Orders : Draft(o) => UnitsIn(quantity[o]) <= Limit

\* ... and a request that loses the race for the draft ends up with the
\* winner's, unless that one has been placed, cancelled or discarded: it never
\* fails while every draft opened so far is still open.
LosersJoinTheWinner ==
  /\ OneDraft
  /\ (\E s \in Sessions : request[s].step = "failed") =>
       \E o \in Orders : status[o] \notin {"none", "draft"}

\* What a customer placed is not edited from a page loaded earlier: no request
\* about drafts, of the portal or of staff, changes or deletes an order that is
\* no longer a draft.  (Editing a placed order, packing, delivering and
\* cancelling it are operations of Reservations and PickChecklist, which take
\* no part here.)
ClosedOrdersAreFinal ==
  [][\A o \in Orders : status[o] \in {"placed", "cancelled"} =>
       quantity'[o] = quantity[o] /\ status'[o] = status[o]]_vars
=============================================================================
