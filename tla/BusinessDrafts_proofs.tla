------------------------- MODULE BusinessDrafts_proofs -------------------------
(***************************************************************************)
(* What module BusinessDrafts guarantees for any number of sessions, staff *)
(* requests, orders and offers and any limit: types, one draft, the limit  *)
(* per product, that no addition is lost, that the loser of a race joins   *)
(* the winner, and that closed orders stay as they were placed.            *)
(***************************************************************************)
EXTENDS BusinessDrafts, FefoPlan_proofs

-----------------------------------------------------------------------------
(* Units of a draft.                                                       *)

LEMMA FiniteKeys == IsFiniteSet(LineKeys) /\ \A l \in LineKeys : IsFiniteSet(LineKeys \ {l})
<1>1. IsFiniteSet({"selected", "bare"})
  <2>1. {"selected", "bare"} = {"selected"} \cup {"bare"}
    OBVIOUS
  <2>2. IsFiniteSet({"selected"}) /\ IsFiniteSet({"bare"})
    BY FS_Singleton
  <2>3. IsFiniteSet({"selected"} \cup {"bare"})
    BY <2>2, FS_Union
  <2> QED
    BY <2>1, <2>3
<1>2. IsFiniteSet(LineKeys)
  BY <1>1, FS_Product, DraftsAssumption, Zenon DEF LineKeys
<1> QED
  BY <1>2, FS_Difference

\* The units of a draft are those of one line and those of the others.
LEMMA UnitsByLine ==
  ASSUME NEW lines, NEW l \in LineKeys, \A k \in LineKeys : lines[k] \in Nat
  PROVE  /\ UnitsIn(lines) = lines[l] + Total(lines, LineKeys \ {l})
         /\ Total(lines, LineKeys \ {l}) \in Nat
<1>1. /\ IsFiniteSet({l}) /\ IsFiniteSet(LineKeys \ {l})
      /\ {l} \cap (LineKeys \ {l}) = {} /\ LineKeys = {l} \cup (LineKeys \ {l})
  BY FiniteKeys, FS_Singleton
<1>2. Total(lines, {l} \cup (LineKeys \ {l})) = Total(lines, {l}) + Total(lines, LineKeys \ {l})
  BY <1>1, TotalUnion
<1>3. Total(lines, {l}) = lines[l]
  BY TotalSingle
<1>4. UnitsIn(lines) = Total(lines, {l} \cup (LineKeys \ {l}))
  BY <1>1, Zenon DEF UnitsIn
<1>5. Total(lines, LineKeys \ {l}) \in Nat
  BY <1>1, TotalType
<1> QED
  BY <1>2, <1>3, <1>4, <1>5

\* Writing n to one line leaves the units of the other lines.
LEMMA UnitsAfterWrite ==
  ASSUME NEW lines \in [LineKeys -> Nat], NEW l \in LineKeys, NEW n \in Nat
  PROVE  UnitsIn([lines EXCEPT ![l] = n]) = n + Total(lines, LineKeys \ {l})
<1> DEFINE new == [lines EXCEPT ![l] = n]
<1>1. /\ \A k \in LineKeys : new[k] \in Nat
      /\ new[l] = n /\ \A k \in LineKeys \ {l} : new[k] = lines[k]
  OBVIOUS
<1> HIDE DEF new
<1>2. UnitsIn(new) = new[l] + Total(new, LineKeys \ {l})
  BY <1>1, UnitsByLine
<1>3. Total(new, LineKeys \ {l}) = Total(lines, LineKeys \ {l})
  BY <1>1, TotalEqual
<1> QED
  BY <1>1, <1>2, <1>3 DEF new

LEMMA NoLinesHaveNoUnits == UnitsIn(NoLines) = 0 /\ NoLines \in [LineKeys -> {0}]
<1> QED
  BY TotalZero DEF NoLines, UnitsIn

\* The first line of a new draft is all there is in it.
LEMMA UnitsOfFirstLine ==
  ASSUME NEW l \in LineKeys, NEW n \in Nat
  PROVE  UnitsIn([NoLines EXCEPT ![l] = n]) = n
<1>1. NoLines \in [LineKeys -> Nat] /\ \A k \in LineKeys \ {l} : NoLines[k] = 0
  BY DEF NoLines
<1>2. Total(NoLines, LineKeys \ {l}) = 0
  BY <1>1, TotalZero
<1>3. UnitsIn([NoLines EXCEPT ![l] = n]) = n + Total(NoLines, LineKeys \ {l})
  BY <1>1, UnitsAfterWrite, Zenon
<1> QED
  BY <1>2, <1>3

\* Lines that staff enter hold the units of the form, offer by offer.
LEMMA UnitsEnteredByStaff ==
  ASSUME NEW wanted \in [Offers -> Nat]
  PROVE  UnitsIn([l \in LineKeys |-> IF l[2] = "bare" THEN wanted[l[1]] ELSE 0])
           <= Total(wanted, Offers)
<1> DEFINE lines == [l \in LineKeys |-> IF l[2] = "bare" THEN wanted[l[1]] ELSE 0]
           A == UnitsOf(wanted, Offers)
           B == UnitsOf(lines, LineKeys)
           tag == [u \in A |-> <<<<u[1], "bare">>, u[2]>>]
<1>1. IsFiniteSet(A)
  BY DraftsAssumption, TotalType
<1>2. \A u \in A : tag[u] \in B
  <2> SUFFICES ASSUME NEW u \in A PROVE tag[u] \in B
    OBVIOUS
  <2>1. PICK x \in Offers : \E i \in 1 .. wanted[x] : u = <<x, i>>
    BY UnitsMember
  <2>2. PICK i \in 1 .. wanted[x] : u = <<x, i>>
    BY <2>1
  <2>3. <<x, "bare">> \in LineKeys /\ lines[<<x, "bare">>] = wanted[x]
    BY DEF LineKeys
  <2>4. tag[u] = <<<<x, "bare">>, i>>
    BY <2>2
  <2> HIDE DEF lines
  <2> QED
    BY <2>2, <2>3, <2>4, UnitsMember
<1>3. \A v \in B : \E u \in A : tag[u] = v
  <2> SUFFICES ASSUME NEW v \in B PROVE \E u \in A : tag[u] = v
    OBVIOUS
  <2> HIDE DEF lines
  <2>1. PICK l \in LineKeys : \E i \in 1 .. lines[l] : v = <<l, i>>
    BY UnitsMember
  <2> USE DEF lines
  <2>2. PICK i \in 1 .. lines[l] : v = <<l, i>>
    BY <2>1
  <2>3. PICK x \in Offers, k \in {"selected", "bare"} : l = <<x, k>>
    BY DEF LineKeys
  <2>4. k = "bare" /\ lines[l] = wanted[x]
    <3>1. l[1] = x /\ l[2] = k
      BY <2>3
    <3>2. lines[l] = IF k = "bare" THEN wanted[x] ELSE 0
      BY <2>1, <3>1
    <3>3. i \in Int /\ 1 <= i /\ i <= lines[l]
      BY <2>2, <3>2
    <3> QED
      BY <3>2, <3>3
  <2>5. <<x, i>> \in A
    BY <2>2, <2>4, UnitsMember
  <2>6. tag[<<x, i>>] = v
    BY <2>2, <2>3, <2>4, <2>5
  <2> QED
    BY <2>5, <2>6
<1>4. tag \in Surjection(A, B)
  <2> HIDE DEF A, B
  <2>1. tag \in [A -> B]
    BY <1>2
  <2> QED
    BY <1>3, <2>1 DEF Surjection
<1> HIDE DEF A, B, tag
<1>5. Cardinality(B) <= Cardinality(A)
  BY <1>1, <1>4, FS_Surjection
<1> QED
  BY <1>5 DEF UnitsIn, Total, A, B

-----------------------------------------------------------------------------
(* The inductive invariant: besides the properties, what a request knows   *)
(* of the orders while it is in a step.                                    *)

SomeOpened == \E o \in Orders : status[o] # "none"
SomeClosed == \E o \in Orders : status[o] \notin {"none", "draft"}

\* A lock is on a draft, and what was read of its line is still there; a
\* request is beaten only by a draft that was opened and fails only when one
\* was closed; what it repeats are lines of closed orders.
RequestIsSound(r) ==
  /\ r.step = "locked" =>
       /\ r.order \in Orders /\ Draft(r.order)
       /\ r.had = quantity[r.order][<<r.item.offer, "selected">>]
  /\ r.step = "viewed" => r.order \in Orders
  /\ r.step = "beaten" => SomeOpened
  /\ r.step = "failed" => SomeClosed
  /\ \A source \in r.todo :
       /\ status[source.order] \in {"placed", "cancelled"}
       /\ quantity[source.order][source.line] > 0

RequestsAreSound == \A s \in Sessions : RequestIsSound(request[s])

OneLockPerDraft ==
  \A s, t \in Sessions :
    request[s].step = "locked" /\ request[t].step = "locked"
      /\ request[s].order = request[t].order => s = t

UnopenedAreEmpty == \A o \in Orders : status[o] = "none" => quantity[o] = NoLines

OrdersInv == OneDraft /\ DraftsKeepTheLimit /\ UnopenedAreEmpty
RequestsInv == RequestsAreSound /\ OneLockPerDraft
IInv == TypeOK /\ OrdersInv /\ RequestsInv

\* How orders age in a step: closed ones stay as they are, and none becomes
\* unopened or open again.
Ageing ==
  \A o \in Orders :
    /\ status[o] \in {"placed", "cancelled"} =>
         quantity'[o] = quantity[o] /\ status'[o] = status[o]
    /\ status[o] # "none" => status'[o] # "none"
    /\ status[o] \notin {"none", "draft"} => status'[o] \notin {"none", "draft"}

\* A request the step is not about, and whose locked draft it does not touch.
Waiting(t) ==
  /\ request'[t] = request[t]
  /\ request[t].step = "locked" =>
       /\ status'[request[t].order] = status[request[t].order]
       /\ quantity'[request[t].order] = quantity[request[t].order]

-----------------------------------------------------------------------------
(* Records of requests.                                                    *)

LEMMA IdleIsRequest == Idle \in RequestState /\ Idle.step = "idle" /\ Idle.todo = {}
<1> QED
  BY DraftsAssumption DEF Idle, Nothing, RequestState, Item

\* After its own work a request is idle or goes on with what is to be repeated.
LEMMA FinishedRequest ==
  ASSUME NEW r \in RequestState
  PROVE  /\ Finish(r) \in RequestState /\ Finish(r).step \in {"idle", "repeating"}
         /\ Finish(r).todo = r.todo
<1>1. r.todo \in SUBSET Sources
  BY DEF RequestState
<1>2. CASE r.todo = {}
  BY <1>2, IdleIsRequest DEF Finish
<1>3. CASE r.todo # {}
  <2> DEFINE again == [Idle EXCEPT !.step = "repeating", !.todo = r.todo]
  <2>1. again \in RequestState /\ again.step = "repeating" /\ again.todo = r.todo
    BY <1>1, IdleIsRequest DEF RequestState
  <2> QED
    BY <1>3, <2>1 DEF Finish
<1> QED
  BY <1>2, <1>3

LEMMA LockedRequest ==
  ASSUME TypeOK, NEW r \in RequestState, NEW o \in Orders
  PROVE  /\ LockedOn(r, o) \in RequestState /\ LockedOn(r, o).step = "locked"
         /\ LockedOn(r, o).order = o /\ LockedOn(r, o).todo = r.todo
         /\ LockedOn(r, o).item = r.item
         /\ LockedOn(r, o).had = quantity[o][<<r.item.offer, "selected">>]
<1>1. r.item \in Item /\ r.item.offer \in Offers
  BY DEF RequestState, Item
<1>2. <<r.item.offer, "selected">> \in LineKeys
  BY <1>1 DEF LineKeys
<1>3. quantity[o][<<r.item.offer, "selected">>] \in 0 .. Limit
  BY <1>2 DEF TypeOK
<1> QED
  BY <1>3 DEF LockedOn, RequestState

-----------------------------------------------------------------------------
(* Frames: one order is written, one request moves.                        *)

\* A step that writes one order, unopened or open: it opens it only when there
\* is no draft, and leaves it within the limit.
Writes(o) ==
  /\ status[o] \in {"none", "draft"}
  /\ status'[o] \in {"draft", "placed", "cancelled", "deleted"}
  /\ status'[o] = "draft" =>
       UnitsIn(quantity'[o]) <= Limit /\ (status[o] = "draft" \/ ~HasDraft)
  /\ \A p \in Orders \ {o} : status'[p] = status[p] /\ quantity'[p] = quantity[p]
  /\ status' \in [Orders -> {"none", "draft", "placed", "cancelled", "deleted"}]
  /\ quantity' \in [Orders -> [LineKeys -> 0 .. Limit]]

LEMMA OneOrderWritten ==
  ASSUME IInv, NEW o \in Orders, Writes(o)
  PROVE  OrdersInv' /\ Ageing
<1> USE DEF Writes
<1>1. OneDraft'
  BY DEF IInv, OrdersInv, OneDraft, Draft, HasDraft
<1>2. DraftsKeepTheLimit'
  BY DEF IInv, OrdersInv, DraftsKeepTheLimit, Draft
<1>3. UnopenedAreEmpty'
  BY DEF IInv, OrdersInv, UnopenedAreEmpty
<1>4. Ageing
  BY DEF Ageing
<1> QED
  BY <1>1, <1>2, <1>3, <1>4 DEF OrdersInv

LEMMA NoOrderWritten ==
  ASSUME IInv, UNCHANGED <<status, quantity>>
  PROVE  OrdersInv' /\ Ageing
<1> QED
  BY DEF IInv, OrdersInv, OneDraft, DraftsKeepTheLimit, UnopenedAreEmpty, Draft, Ageing

LEMMA WaitingStaysSound ==
  ASSUME IInv, Ageing, NEW t \in Sessions, Waiting(t)
  PROVE  RequestIsSound(request[t])'
<1> DEFINE r == request[t]
<1>1. RequestIsSound(r) /\ r \in RequestState /\ r' = r
  BY DEF IInv, RequestsInv, RequestsAreSound, TypeOK, Waiting
<1>2. \A source \in r.todo : source.order \in Orders
  BY <1>1 DEF RequestState, Sources
<1>3. (SomeOpened => SomeOpened') /\ (SomeClosed => SomeClosed')
  BY DEF Ageing, SomeOpened, SomeClosed
<1>4. r.step = "locked" =>
        /\ r.order \in Orders /\ status'[r.order] = "draft"
        /\ r.had = quantity'[r.order][<<r.item.offer, "selected">>]
  BY <1>1 DEF RequestIsSound, Waiting, Draft
<1>5. \A source \in r.todo : /\ status'[source.order] \in {"placed", "cancelled"}
                             /\ quantity'[source.order][source.line] > 0
  BY <1>1, <1>2 DEF RequestIsSound, Ageing
<1> HIDE DEF r
<1>6. RequestIsSound(r)'
  BY <1>1, <1>3, <1>4, <1>5 DEF RequestIsSound, Draft
<1> QED
  BY <1>6 DEF r

\* A step of one request, next to which all others wait.
LEMMA OneRequestMoves ==
  ASSUME IInv, Ageing, NEW s \in Sessions, NEW new \in RequestState,
         request' = [request EXCEPT ![s] = new], RequestIsSound(request[s])',
         \A t \in Sessions \ {s} : Waiting(t),
         new.step = "locked" => Unlocked(new.order)
  PROVE  request' \in [Sessions -> RequestState] /\ RequestsInv'
<1>1. /\ request' \in [Sessions -> RequestState] /\ request'[s] = new
      /\ \A t \in Sessions \ {s} : request'[t] = request[t]
  BY DEF IInv, TypeOK
<1>2. RequestsAreSound'
  BY WaitingStaysSound DEF RequestsAreSound
<1>3. OneLockPerDraft'
  BY <1>1 DEF IInv, RequestsInv, OneLockPerDraft, Unlocked
<1> QED
  BY <1>1, <1>2, <1>3 DEF RequestsInv

LEMMA NoRequestMoves ==
  ASSUME IInv, Ageing, UNCHANGED request, \A t \in Sessions : Waiting(t)
  PROVE  RequestsInv'
<1>1. RequestsAreSound'
  BY WaitingStaysSound DEF RequestsAreSound
<1>2. OneLockPerDraft'
  BY DEF IInv, RequestsInv, OneLockPerDraft
<1> QED
  BY <1>1, <1>2 DEF RequestsInv

-----------------------------------------------------------------------------
(* Steps that read.                                                        *)

LEMMA ReadingKeeps ==
  ASSUME IInv, NEW s \in Sessions, NEW new \in RequestState, RequestIsSound(new),
         request' = [request EXCEPT ![s] = new], new.step = "locked" => Unlocked(new.order),
         UNCHANGED <<status, quantity, clerk>>
  PROVE  IInv' /\ Ageing
<1>1. OrdersInv' /\ Ageing
  BY NoOrderWritten
<1>2. request'[s] = new /\ \A t \in Sessions \ {s} : Waiting(t)
  BY DEF IInv, TypeOK, Waiting
<1>3. RequestIsSound(request[s])'
  BY <1>2 DEF RequestIsSound, SomeOpened, SomeClosed, Draft
<1>4. request' \in [Sessions -> RequestState] /\ RequestsInv'
  BY <1>1, <1>2, <1>3, OneRequestMoves
<1> QED
  BY <1>1, <1>4 DEF IInv, TypeOK

LEMMA ChoosingKeeps ==
  ASSUME IInv, NEW s \in Sessions, ChooseOffer(s) \/ View(s)
  PROVE  IInv' /\ Ageing
<1>1. CASE ChooseOffer(s)
  <2>1. PICK i \in Item, n \in 1 .. MaxUnits :
          request' = [request EXCEPT ![s] =
                        [Idle EXCEPT !.step = "chosen", !.item = i, !.shown = n]]
    BY <1>1 DEF ChooseOffer
  <2> DEFINE new == [Idle EXCEPT !.step = "chosen", !.item = i, !.shown = n]
  <2>2. n \in 0 .. MaxUnits
    BY DraftsAssumption
  <2>3. new \in RequestState /\ new.step = "chosen" /\ new.todo = {}
    BY <2>2, IdleIsRequest DEF RequestState
  <2>4. RequestIsSound(new)
    BY <2>3 DEF RequestIsSound
  <2> QED
    BY <1>1, <2>1, <2>3, <2>4, ReadingKeeps DEF ChooseOffer
<1>2. CASE View(s)
  <2>1. PICK o \in Orders :
          request' = [request EXCEPT ![s] = [Idle EXCEPT !.step = "viewed", !.order = o]]
    BY <1>2 DEF View
  <2> DEFINE new == [Idle EXCEPT !.step = "viewed", !.order = o]
  <2>2. new \in RequestState /\ new.step = "viewed" /\ new.todo = {} /\ new.order = o
    BY IdleIsRequest, DraftsAssumption DEF RequestState
  <2>3. RequestIsSound(new)
    BY <2>2 DEF RequestIsSound
  <2> QED
    BY <1>2, <2>1, <2>2, <2>3, ReadingKeeps DEF View
<1> QED
  BY <1>1, <1>2

LEMMA LockingKeeps ==
  ASSUME IInv, NEW s \in Sessions, NEW o \in Orders, Draft(o), Unlocked(o),
         request' = [request EXCEPT ![s] = LockedOn(@, o)],
         UNCHANGED <<status, quantity, clerk>>
  PROVE  IInv' /\ Ageing
<1> DEFINE r == request[s]
           new == LockedOn(r, o)
<1>1. r \in RequestState /\ RequestIsSound(r) /\ TypeOK
  BY DEF IInv, TypeOK, RequestsInv, RequestsAreSound
<1>2. /\ new \in RequestState /\ new.step = "locked" /\ new.order = o /\ new.todo = r.todo
      /\ new.item = r.item /\ new.had = quantity[o][<<r.item.offer, "selected">>]
  BY <1>1, LockedRequest
<1>3. request' = [request EXCEPT ![s] = new]
  BY <1>1 DEF TypeOK
<1> HIDE DEF new, r
<1>4. RequestIsSound(new)
  BY <1>1, <1>2 DEF RequestIsSound
<1> QED
  BY <1>2, <1>3, <1>4, ReadingKeeps

LEMMA FindingKeeps ==
  ASSUME IInv, NEW s \in Sessions,
         FindDraft(s) \/ JoinWinner(s) \/ LoseRace(s) \/ MissWinner(s)
  PROVE  IInv' /\ Ageing
<1>1. request[s] \in RequestState /\ RequestIsSound(request[s]) /\ TypeOK
  BY DEF IInv, TypeOK, RequestsInv, RequestsAreSound
<1>2. UNCHANGED <<status, quantity, clerk>>
  BY DEF FindDraft, JoinWinner, LoseRace, MissWinner
<1>3. CASE \E o \in Orders : /\ Draft(o) /\ Unlocked(o)
                             /\ request' = [request EXCEPT ![s] = LockedOn(@, o)]
  BY <1>2, <1>3, LockingKeeps
<1>4. ASSUME NEW step \in {"unopened", "beaten"}, request' = [request EXCEPT ![s].step = step],
             step = "beaten" => HasDraft
      PROVE  IInv' /\ Ageing
  <2> DEFINE new == [request[s] EXCEPT !.step = step]
  <2>1. /\ new \in RequestState /\ new.step = step /\ new.todo = request[s].todo
        /\ request' = [request EXCEPT ![s] = new]
    BY <1>1, <1>4 DEF TypeOK, RequestState
  <2> HIDE DEF new
  <2>2. RequestIsSound(new)
    BY <1>1, <1>4, <2>1 DEF RequestIsSound, SomeOpened, HasDraft, Draft
  <2> QED
    BY <1>2, <1>4, <2>1, <2>2, ReadingKeeps
<1>5. CASE MissWinner(s)
  <2> DEFINE new == [Idle EXCEPT !.step = "failed"]
  <2>1. new \in RequestState /\ new.step = "failed" /\ new.todo = {}
    BY IdleIsRequest DEF RequestState
  <2>2. request[s].step = "beaten" /\ ~HasDraft /\ request' = [request EXCEPT ![s] = new]
    BY <1>5 DEF MissWinner
  <2> HIDE DEF new
  <2>3. SomeClosed
    BY <1>1, <2>2 DEF RequestIsSound, SomeOpened, SomeClosed, HasDraft, Draft
  <2>4. RequestIsSound(new)
    BY <2>1, <2>3 DEF RequestIsSound
  <2> QED
    BY <1>2, <2>1, <2>2, <2>4, ReadingKeeps
<1> QED
  BY <1>3, <1>4, <1>5 DEF FindDraft, JoinWinner, LoseRace

LEMMA RepeatingKeeps ==
  ASSUME IInv, NEW s \in Sessions, StartRepeat(s) \/ RepeatNext(s)
  PROVE  IInv' /\ Ageing
<1>1. request[s] \in RequestState /\ RequestIsSound(request[s]) /\ TypeOK
  BY DEF IInv, TypeOK, RequestsInv, RequestsAreSound
<1>2. UNCHANGED <<status, quantity, clerk>>
  BY DEF StartRepeat, RepeatNext
<1>3. ASSUME NEW r \in RequestState, request' = [request EXCEPT ![s] = Finish(r)],
             \A source \in r.todo : /\ status[source.order] \in {"placed", "cancelled"}
                                    /\ quantity[source.order][source.line] > 0
      PROVE  IInv' /\ Ageing
  <2>1. /\ Finish(r) \in RequestState /\ Finish(r).step \in {"idle", "repeating"}
        /\ Finish(r).todo = r.todo
    BY FinishedRequest
  <2>2. RequestIsSound(Finish(r))
    BY <1>3, <2>1 DEF RequestIsSound
  <2> QED
    BY <1>2, <1>3, <2>1, <2>2, ReadingKeeps
<1>4. CASE StartRepeat(s)
  <2>1. PICK o \in Orders : \E served \in SUBSET LinesOf(o) :
          /\ status[o] \in {"placed", "cancelled"}
          /\ request' = [request EXCEPT ![s] = Finish([Idle EXCEPT !.todo = served])]
    BY <1>4 DEF StartRepeat
  <2>2. PICK served \in SUBSET LinesOf(o) :
          request' = [request EXCEPT ![s] = Finish([Idle EXCEPT !.todo = served])]
    BY <2>1
  <2> DEFINE r == [Idle EXCEPT !.todo = served]
  <2>3. r \in RequestState /\ r.todo = served
    BY IdleIsRequest DEF RequestState, LinesOf
  <2>4. \A source \in served : /\ status[source.order] \in {"placed", "cancelled"}
                               /\ quantity[source.order][source.line] > 0
    BY <2>1 DEF LinesOf
  <2> HIDE DEF r
  <2> QED
    BY <1>3, <2>2, <2>3, <2>4 DEF r
<1>5. CASE RepeatNext(s)
  <2>1. PICK source \in request[s].todo, n \in 0 .. MaxUnits :
          request' = [request EXCEPT ![s] =
            IF n = 0 THEN Finish([request[s] EXCEPT !.todo = @ \ {source}])
            ELSE [[request[s] EXCEPT !.todo = @ \ {source}]
                    EXCEPT !.step = "chosen", !.item = Repeated(source), !.shown = n]]
    BY <1>5 DEF RepeatNext
  <2> DEFINE rest == [request[s] EXCEPT !.todo = @ \ {source}]
  <2>2. rest \in RequestState /\ rest.todo = request[s].todo \ {source}
    BY <1>1 DEF RequestState
  <2>3. source \in Sources /\ quantity[source.order][source.line] > 0
    BY <1>1 DEF RequestState, RequestIsSound
  <2>4. Repeated(source) \in Item
    <3>1. source.order \in Orders /\ source.line \in LineKeys /\ source.line[1] \in Offers
      BY <2>3 DEF Sources, LineKeys
    <3>2. quantity[source.order][source.line] \in 0 .. Limit
      BY <1>1, <3>1 DEF TypeOK
    <3>3. quantity[source.order][source.line] \in 1 .. Limit
      BY <2>3, <3>2, DraftsAssumption
    <3> QED
      BY <3>1, <3>3, DraftsAssumption DEF Repeated, Item
  <2> HIDE DEF rest
  <2>5. \A other \in rest.todo : /\ status[other.order] \in {"placed", "cancelled"}
                                 /\ quantity[other.order][other.line] > 0
    BY <1>1, <2>2 DEF RequestIsSound
  <2>6. CASE n = 0
    BY <1>3, <2>1, <2>2, <2>5, <2>6 DEF rest
  <2>7. CASE n # 0
    <3> DEFINE new == [rest EXCEPT !.step = "chosen", !.item = Repeated(source), !.shown = n]
    <3>1. new \in RequestState /\ new.step = "chosen" /\ new.todo = rest.todo
      BY <2>2, <2>4 DEF RequestState
    <3>2. request' = [request EXCEPT ![s] = new]
      BY <2>1, <2>7 DEF rest
    <3> HIDE DEF new
    <3>3. RequestIsSound(new)
      BY <2>5, <3>1 DEF RequestIsSound
    <3> QED
      BY <1>2, <3>1, <3>2, <3>3, ReadingKeeps
  <2> QED
    BY <2>6, <2>7
<1> QED
  BY <1>4, <1>5

-----------------------------------------------------------------------------
(* Steps that write.                                                       *)

\* A request that writes an order nobody else has locked, and is done.
LEMMA WritingKeeps ==
  ASSUME IInv, NEW s \in Sessions, NEW new \in RequestState, new.step \in {"idle", "repeating"},
         new.todo \subseteq request[s].todo, request' = [request EXCEPT ![s] = new],
         NEW o \in Orders, Writes(o), UNCHANGED clerk,
         \A t \in Sessions \ {s} : request[t].step = "locked" => request[t].order # o
  PROVE  IInv' /\ Ageing
<1>1. OrdersInv' /\ Ageing
  BY OneOrderWritten
<1>2. /\ request[s] \in RequestState /\ RequestIsSound(request[s])
      /\ request'[s] = new /\ \A t \in Sessions \ {s} : request'[t] = request[t]
  BY DEF IInv, TypeOK, RequestsInv, RequestsAreSound
<1>3. \A t \in Sessions \ {s} : Waiting(t)
  <2> SUFFICES ASSUME NEW t \in Sessions \ {s} PROVE Waiting(t)
    OBVIOUS
  <2>1. request[t].step = "locked" => request[t].order \in Orders \ {o}
    BY DEF IInv, RequestsInv, RequestsAreSound, RequestIsSound
  <2> QED
    BY <1>2, <2>1 DEF Waiting, Writes
<1>4. \A source \in new.todo : /\ source.order \in Orders
                               /\ status[source.order] \in {"placed", "cancelled"}
                               /\ quantity[source.order][source.line] > 0
  BY <1>2 DEF RequestState, Sources, RequestIsSound
<1>5. \A source \in new.todo : /\ status'[source.order] \in {"placed", "cancelled"}
                               /\ quantity'[source.order][source.line] > 0
  BY <1>1, <1>4 DEF Ageing
<1>6. RequestIsSound(request[s])'
  BY <1>2, <1>5 DEF RequestIsSound
<1>7. request' \in [Sessions -> RequestState] /\ RequestsInv'
  BY <1>1, <1>3, <1>6, OneRequestMoves
<1> QED
  BY <1>1, <1>7 DEF IInv, TypeOK, Writes

LEMMA OpenDraftKeeps ==
  ASSUME IInv, NEW s \in Sessions, OpenDraft(s)
  PROVE  IInv' /\ Ageing
<1> DEFINE r == request[s]
           line == <<r.item.offer, "selected">>
<1>1. /\ r \in RequestState /\ RequestIsSound(r) /\ r.item \in Item /\ line \in LineKeys
      /\ r.item.units \in 1 .. Limit
  BY DEF IInv, TypeOK, RequestsInv, RequestsAreSound, RequestState, Item, LineKeys
<1>2. Finish(r) \in RequestState /\ Finish(r).step \in {"idle", "repeating"}
      /\ Finish(r).todo = r.todo
  BY <1>1, FinishedRequest
<1>3. ~HasDraft /\ request' = [request EXCEPT ![s] = Finish(r)] /\ UNCHANGED clerk
  BY DEF OpenDraft
<1>4. CASE UNCHANGED <<status, quantity>>
  <2>1. RequestIsSound(Finish(r))
    BY <1>1, <1>2 DEF RequestIsSound
  <2> HIDE DEF r
  <2> QED
    BY <1>2, <1>3, <1>4, <2>1, ReadingKeeps
<1>5. ASSUME NEW o \in Orders, IsNextRow(o), Acceptable(r, 0),
             status' = [status EXCEPT ![o] = "draft"],
             quantity' = [quantity EXCEPT ![o][line] = r.item.units]
      PROVE  IInv' /\ Ageing
  <2>1. status[o] = "none" /\ quantity[o] = NoLines
    BY <1>5 DEF IsNextRow, IInv, OrdersInv, UnopenedAreEmpty
  <2>2. /\ \A p \in Orders \ {o} : status'[p] = status[p] /\ quantity'[p] = quantity[p]
        /\ status'[o] = "draft" /\ quantity'[o] = [NoLines EXCEPT ![line] = r.item.units]
    BY <1>5, <2>1 DEF IInv, TypeOK
  <2>3. r.item.units <= Limit /\ r.item.units \in Nat /\ r.item.units \in 0 .. Limit
    BY <1>1, DraftsAssumption
  <2>4. UnitsIn(quantity'[o]) <= Limit
    BY <1>1, <2>2, <2>3, UnitsOfFirstLine
  <2>5. \A t \in Sessions \ {s} : request[t].step = "locked" => request[t].order # o
    BY <2>1 DEF IInv, RequestsInv, RequestsAreSound, RequestIsSound, Draft
  <2>6. status' \in [Orders -> {"none", "draft", "placed", "cancelled", "deleted"}]
    BY <1>5 DEF IInv, TypeOK
  <2>7. quantity' \in [Orders -> [LineKeys -> 0 .. Limit]]
    <3>1. [quantity[o] EXCEPT ![line] = r.item.units] \in [LineKeys -> 0 .. Limit]
      BY <2>3 DEF IInv, TypeOK
    <3> QED
      BY <1>5, <3>1 DEF IInv, TypeOK
  <2>8. Finish(r).todo \subseteq request[s].todo
    BY <1>2
  <2>9. Writes(o)
    BY <1>3, <2>1, <2>2, <2>4, <2>6, <2>7 DEF Writes
  <2> HIDE DEF r, line
  <2> QED
    BY <1>2, <1>3, <2>5, <2>8, <2>9, WritingKeeps
<1> QED
  BY <1>4, <1>5 DEF OpenDraft

LEMMA FinishAddKeeps ==
  ASSUME IInv, NEW s \in Sessions, FinishAdd(s)
  PROVE  IInv' /\ Ageing
<1> DEFINE r == request[s]
           o == r.order
           line == <<r.item.offer, "selected">>
           others == Total(quantity[o], LineKeys \ {line})
           n == r.had + r.item.units
<1>1. /\ r \in RequestState /\ RequestIsSound(r) /\ line \in LineKeys
      /\ r.item.units \in 1 .. Limit /\ r.had \in 0 .. Limit
  BY DEF IInv, TypeOK, RequestsInv, RequestsAreSound, RequestState, Item, LineKeys
<1>2. Finish(r) \in RequestState /\ Finish(r).step \in {"idle", "repeating"}
      /\ Finish(r).todo = r.todo
  BY <1>1, FinishedRequest
<1>3. /\ r.step = "locked" /\ UNCHANGED <<status, clerk>>
      /\ request' = [request EXCEPT ![s] = Finish(r)]
      /\ quantity' = IF Acceptable(r, others) THEN [quantity EXCEPT ![o][line] = n] ELSE quantity
  BY DEF FinishAdd
<1>4. CASE ~Acceptable(r, others)
  <2>1. RequestIsSound(Finish(r))
    BY <1>1, <1>2 DEF RequestIsSound
  <2> HIDE DEF r, o, line, others, n
  <2> QED
    BY <1>2, <1>3, <1>4, <2>1, ReadingKeeps DEF r
<1>5. CASE Acceptable(r, others)
  <2>1. o \in Orders /\ status[o] = "draft"
    BY <1>1, <1>3 DEF RequestIsSound, Draft
  <2>2. quantity[o] \in [LineKeys -> 0 .. Limit] /\ quantity[o] \in [LineKeys -> Nat]
    <3>1. quantity[o] \in [LineKeys -> 0 .. Limit]
      BY <2>1 DEF IInv, TypeOK
    <3>2. 0 .. Limit \subseteq Nat
      BY DraftsAssumption
    <3> QED
      BY <3>1, <3>2
  <2>3. others \in Nat
    BY <1>1, <2>2, UnitsByLine
  <2>4. n \in Nat /\ others + n <= Limit /\ n \in 0 .. Limit
    BY <1>1, <1>5, <2>3, DraftsAssumption DEF Acceptable
  <2>5. /\ \A p \in Orders \ {o} : status'[p] = status[p] /\ quantity'[p] = quantity[p]
        /\ status'[o] = "draft" /\ quantity'[o] = [quantity[o] EXCEPT ![line] = n]
        /\ status' \in [Orders -> {"none", "draft", "placed", "cancelled", "deleted"}]
    BY <1>3, <1>5, <2>1 DEF IInv, TypeOK
  <2>6. UnitsIn(quantity'[o]) = n + others
    BY <1>1, <2>2, <2>4, <2>5, UnitsAfterWrite
  <2>7. \A t \in Sessions \ {s} : request[t].step = "locked" => request[t].order # o
    BY <1>3 DEF IInv, RequestsInv, OneLockPerDraft
  <2>8. quantity' \in [Orders -> [LineKeys -> 0 .. Limit]]
    <3>1. [quantity[o] EXCEPT ![line] = n] \in [LineKeys -> 0 .. Limit]
      BY <2>2, <2>4
    <3> QED
      BY <1>3, <1>5, <3>1 DEF IInv, TypeOK
  <2>9. UnitsIn(quantity'[o]) <= Limit
    BY <2>3, <2>4, <2>6, DraftsAssumption
  <2>10. Writes(o)
    BY <2>1, <2>5, <2>8, <2>9 DEF Writes
  <2> HIDE DEF r, o, line, others, n
  <2> QED
    BY <1>2, <1>3, <2>1, <2>7, <2>10, WritingKeeps DEF r
<1> QED
  BY <1>4, <1>5

\* Portal operations that write the draft they viewed find it unlocked.
LEMMA EditingKeeps ==
  ASSUME IInv, NEW s \in Sessions,
         SetLineQuantity(s) \/ RemoveLine(s) \/ DiscardDraft(s) \/ PlaceDraft(s)
  PROVE  IInv' /\ Ageing
<1> DEFINE o == request[s].order
<1>1. /\ request[s] \in RequestState /\ RequestIsSound(request[s])
      /\ status \in [Orders -> {"none", "draft", "placed", "cancelled", "deleted"}]
      /\ quantity \in [Orders -> [LineKeys -> 0 .. Limit]]
  BY DEF IInv, TypeOK, RequestsInv, RequestsAreSound
<1>2. /\ Acting(s) /\ Draft(o) /\ UNCHANGED clerk
      /\ request' = [request EXCEPT ![s] = Idle]
  BY DEF SetLineQuantity, RemoveLine, DiscardDraft, PlaceDraft, Place, Done
<1>3. o \in Orders /\ status[o] = "draft" /\ Unlocked(o)
  BY <1>1, <1>2 DEF Acting, RequestIsSound, Draft
<1>4. quantity[o] \in [LineKeys -> 0 .. Limit] /\ quantity[o] \in [LineKeys -> Nat]
  <2>1. quantity[o] \in [LineKeys -> 0 .. Limit]
    BY <1>1, <1>3
  <2>2. 0 .. Limit \subseteq Nat
    BY DraftsAssumption
  <2> QED
    BY <2>1, <2>2
<1>5. UnitsIn(quantity[o]) <= Limit
  BY <1>2, <1>3 DEF IInv, OrdersInv, DraftsKeepTheLimit
<1>6. ASSUME \A p \in Orders \ {o} : status'[p] = status[p] /\ quantity'[p] = quantity[p],
             status'[o] \in {"draft", "placed", "deleted"},
             status'[o] = "draft" => UnitsIn(quantity'[o]) <= Limit,
             status' \in [Orders -> {"none", "draft", "placed", "cancelled", "deleted"}],
             quantity' \in [Orders -> [LineKeys -> 0 .. Limit]]
      PROVE  IInv' /\ Ageing
  <2>1. \A t \in Sessions \ {s} : request[t].step = "locked" => request[t].order # o
    BY <1>3 DEF Unlocked
  <2>2. Idle \in RequestState /\ Idle.step \in {"idle", "repeating"}
        /\ Idle.todo \subseteq request[s].todo
    BY IdleIsRequest
  <2>3. Writes(o)
    BY <1>3, <1>6 DEF Writes
  <2> HIDE DEF o
  <2> QED
    BY <1>2, <1>3, <2>1, <2>2, <2>3, WritingKeeps
<1>7. ASSUME NEW l \in LineKeys, NEW n \in 0 .. Limit, OtherLines(o, l) + n <= Limit,
             quantity' = [quantity EXCEPT ![o][l] = n], status' = status
      PROVE  IInv' /\ Ageing
  <2>1. [quantity[o] EXCEPT ![l] = n] \in [LineKeys -> 0 .. Limit]
    BY <1>4
  <2>2. /\ quantity' \in [Orders -> [LineKeys -> 0 .. Limit]]
        /\ quantity'[o] = [quantity[o] EXCEPT ![l] = n]
        /\ \A p \in Orders \ {o} : quantity'[p] = quantity[p]
    BY <1>1, <1>3, <1>7, <2>1
  <2>3. UnitsIn(quantity'[o]) = n + OtherLines(o, l)
    <3>1. n \in Nat
      BY DraftsAssumption
    <3> QED
      BY <1>4, <2>2, <3>1, UnitsAfterWrite DEF OtherLines
  <2>4. OtherLines(o, l) \in Nat /\ n \in Nat
    BY <1>4, UnitsByLine, DraftsAssumption DEF OtherLines
  <2>5. UnitsIn(quantity'[o]) <= Limit
    BY <1>7, <2>3, <2>4
  <2> HIDE DEF o
  <2> QED
    BY <1>1, <1>3, <1>6, <1>7, <2>2, <2>5
<1>8. CASE SetLineQuantity(s)
  <2>1. PICK l \in LineKeys, n \in 1 .. Limit :
          OtherLines(o, l) + n <= Limit /\ quantity' = [quantity EXCEPT ![o][l] = n]
    BY <1>8 DEF SetLineQuantity
  <2>2. n \in 0 .. Limit /\ status' = status
    BY <1>8, DraftsAssumption DEF SetLineQuantity
  <2> HIDE DEF o
  <2> QED
    BY <1>7, <2>1, <2>2
<1>9. CASE RemoveLine(s)
  <2>1. PICK l \in LineKeys : quantity' = [quantity EXCEPT ![o][l] = 0]
    BY <1>9 DEF RemoveLine
  <2>2. status' = status
    BY <1>9 DEF RemoveLine
  <2>3. UnitsIn(quantity[o]) = quantity[o][l] + OtherLines(o, l) /\ OtherLines(o, l) \in Nat
    BY <1>4, UnitsByLine DEF OtherLines
  <2>4. quantity[o][l] \in Nat /\ 0 \in 0 .. Limit
    BY <1>4, DraftsAssumption
  <2>5. OtherLines(o, l) + 0 <= Limit
    BY <1>5, <2>3, <2>4, DraftsAssumption
  <2> HIDE DEF o
  <2> QED
    BY <1>7, <2>1, <2>2, <2>4, <2>5
<1>10. CASE DiscardDraft(s)
  <2>1. status' = [status EXCEPT ![o] = "deleted"] /\ quantity' = [quantity EXCEPT ![o] = NoLines]
    BY <1>10 DEF DiscardDraft
  <2>2. NoLines \in [LineKeys -> 0 .. Limit]
    BY DraftsAssumption DEF NoLines
  <2> HIDE DEF o
  <2>3. /\ \A p \in Orders \ {o} : status'[p] = status[p] /\ quantity'[p] = quantity[p]
        /\ status'[o] = "deleted"
        /\ status' \in [Orders -> {"none", "draft", "placed", "cancelled", "deleted"}]
        /\ quantity' \in [Orders -> [LineKeys -> 0 .. Limit]]
    BY <1>1, <1>3, <2>1, <2>2
  <2> QED
    BY <1>6, <2>3
<1>11. CASE PlaceDraft(s)
  <2>1. status' = [status EXCEPT ![o] = "placed"] /\ quantity' = quantity
    BY <1>11 DEF PlaceDraft, Place
  <2> HIDE DEF o
  <2>2. /\ \A p \in Orders \ {o} : status'[p] = status[p] /\ quantity'[p] = quantity[p]
        /\ status'[o] = "placed"
        /\ status' \in [Orders -> {"none", "draft", "placed", "cancelled", "deleted"}]
        /\ quantity' \in [Orders -> [LineKeys -> 0 .. Limit]]
    BY <1>1, <1>3, <2>1
  <2> QED
    BY <1>6, <2>2
<1> QED
  BY <1>8, <1>9, <1>10, <1>11

LEMMA RefuseKeeps ==
  ASSUME IInv, NEW s \in Sessions, Refuse(s)
  PROVE  IInv' /\ Ageing
<1>1. RequestIsSound(Idle) /\ Idle \in RequestState /\ Idle.step = "idle"
  BY IdleIsRequest DEF RequestIsSound
<1> QED
  BY <1>1, ReadingKeeps DEF Refuse, Done

-----------------------------------------------------------------------------
(* Staff.                                                                  *)

\* A step of staff that writes one order, which no request has locked.
LEMMA StaffWritingKeeps ==
  ASSUME IInv, NEW o \in Orders, Writes(o), Unlocked(o),
         clerk' \in [Clerks -> Orders \cup {NoOrder}], UNCHANGED request
  PROVE  IInv' /\ Ageing
<1>1. OrdersInv' /\ Ageing
  BY OneOrderWritten
<1>2. \A t \in Sessions : Waiting(t)
  <2> SUFFICES ASSUME NEW t \in Sessions PROVE Waiting(t)
    OBVIOUS
  <2>1. request[t].step = "locked" => request[t].order \in Orders \ {o}
    BY DEF IInv, RequestsInv, RequestsAreSound, RequestIsSound, Unlocked
  <2> QED
    BY <2>1 DEF Waiting, Writes
<1>3. RequestsInv'
  BY <1>1, <1>2, NoRequestMoves
<1> QED
  BY <1>1, <1>3 DEF IInv, TypeOK, Writes

LEMMA StaffCreateDraftKeeps ==
  ASSUME IInv, NEW c \in Clerks, StaffCreateDraft(c)
  PROVE  IInv' /\ Ageing
<1>1. PICK o \in Orders, wanted \in [Offers -> 0 .. Limit] :
        /\ IsNextRow(o) /\ Total(wanted, Offers) \in 1 .. Limit
        /\ status' = [status EXCEPT ![o] = "draft"]
        /\ quantity' = [quantity EXCEPT ![o] =
                          [l \in LineKeys |-> IF l[2] = "bare" THEN wanted[l[1]] ELSE 0]]
        /\ clerk' = [clerk EXCEPT ![c] = o]
  BY DEF StaffCreateDraft
<1>2. ~HasDraft /\ UNCHANGED request
  BY DEF StaffCreateDraft
<1> DEFINE lines == [l \in LineKeys |-> IF l[2] = "bare" THEN wanted[l[1]] ELSE 0]
<1>3. wanted \in [Offers -> Nat] /\ lines \in [LineKeys -> 0 .. Limit]
      /\ lines \in [LineKeys -> Nat]
  BY DraftsAssumption DEF LineKeys
<1>4. UnitsIn(lines) <= Total(wanted, Offers)
  BY <1>3, UnitsEnteredByStaff
<1> HIDE DEF lines
<1>5. UnitsIn(lines) <= Limit
  <2>1. Total(wanted, Offers) \in Nat /\ Total(wanted, Offers) <= Limit
    BY <1>1, DraftsAssumption
  <2>2. UnitsIn(lines) \in Nat
    BY <1>3, FiniteKeys, TotalType DEF UnitsIn
  <2> QED
    BY <1>4, <2>1, <2>2, DraftsAssumption
<1>6. status[o] = "none" /\ Unlocked(o)
  BY <1>1 DEF IsNextRow, Unlocked, IInv, RequestsInv, RequestsAreSound, RequestIsSound, Draft
<1>7. /\ \A p \in Orders \ {o} : status'[p] = status[p] /\ quantity'[p] = quantity[p]
      /\ status'[o] = "draft" /\ quantity'[o] = lines
      /\ status' \in [Orders -> {"none", "draft", "placed", "cancelled", "deleted"}]
      /\ quantity' \in [Orders -> [LineKeys -> 0 .. Limit]]
      /\ clerk' \in [Clerks -> Orders \cup {NoOrder}]
  BY <1>1, <1>3 DEF IInv, TypeOK, lines
<1>8. Writes(o)
  BY <1>2, <1>5, <1>6, <1>7 DEF Writes
<1> QED
  BY <1>2, <1>6, <1>7, <1>8, StaffWritingKeeps

LEMMA StaffClosingKeeps ==
  ASSUME IInv, NEW o \in Orders, Unlocked(o), Draft(o),
         NEW new \in {"placed", "cancelled"}, status' = [status EXCEPT ![o] = new],
         UNCHANGED <<quantity, request>>, clerk' \in [Clerks -> Orders \cup {NoOrder}]
  PROVE  IInv' /\ Ageing
<1>1. /\ \A p \in Orders \ {o} : status'[p] = status[p] /\ quantity'[p] = quantity[p]
      /\ status[o] = "draft" /\ status'[o] = new
      /\ status' \in [Orders -> {"none", "draft", "placed", "cancelled", "deleted"}]
      /\ quantity' \in [Orders -> [LineKeys -> 0 .. Limit]]
  BY DEF IInv, TypeOK, Draft
<1>2. Writes(o)
  BY <1>1 DEF Writes
<1> QED
  BY <1>2, StaffWritingKeeps

LEMMA StaffKeeps ==
  ASSUME IInv,
         \/ \E c \in Clerks : StaffPlaceDraft(c)
         \/ \E o \in Orders : StaffCancelDraft(o)
         \/ UNCHANGED vars
  PROVE  IInv' /\ Ageing
<1>1. ASSUME NEW c \in Clerks, StaffPlaceDraft(c)
      PROVE  IInv' /\ Ageing
  <2>1. /\ clerk[c] \in Orders /\ Unlocked(clerk[c]) /\ UNCHANGED <<quantity, request>>
        /\ clerk' \in [Clerks -> Orders \cup {NoOrder}]
    BY <1>1 DEF StaffPlaceDraft, IInv, TypeOK
  <2>2. CASE Place(clerk[c])
    BY <2>1, <2>2, StaffClosingKeeps DEF Place
  <2>3. CASE UNCHANGED status
    <3>1. OrdersInv' /\ Ageing
      BY <2>1, <2>3, NoOrderWritten
    <3>2. \A t \in Sessions : Waiting(t)
      BY <2>1, <2>3 DEF Waiting
    <3>3. RequestsInv'
      BY <2>1, <3>1, <3>2, NoRequestMoves
    <3> QED
      BY <2>1, <2>3, <3>1, <3>3 DEF IInv, TypeOK
  <2> QED
    BY <1>1, <2>2, <2>3 DEF StaffPlaceDraft
<1>2. ASSUME NEW o \in Orders, StaffCancelDraft(o)
      PROVE  IInv' /\ Ageing
  <2>1. clerk' \in [Clerks -> Orders \cup {NoOrder}]
    BY <1>2 DEF StaffCancelDraft, IInv, TypeOK
  <2> QED
    BY <1>2, <2>1, StaffClosingKeeps DEF StaffCancelDraft
<1>3. CASE UNCHANGED vars
  <2>1. UNCHANGED <<status, quantity>> /\ UNCHANGED request /\ UNCHANGED clerk
    BY <1>3 DEF vars
  <2>2. OrdersInv' /\ Ageing /\ \A t \in Sessions : Waiting(t)
    BY <2>1, NoOrderWritten DEF Waiting
  <2>3. RequestsInv'
    BY <2>1, <2>2, NoRequestMoves
  <2> QED
    BY <2>1, <2>2, <2>3 DEF IInv, TypeOK
<1> QED
  BY <1>1, <1>2, <1>3

-----------------------------------------------------------------------------
(* The inductive invariant holds, and orders age, in every step.           *)

LEMMA InitEstablishes == Init => IInv
<1> SUFFICES ASSUME Init PROVE IInv
  OBVIOUS
<1>1. TypeOK
  <2>1. NoLines \in [LineKeys -> 0 .. Limit]
    BY DraftsAssumption DEF NoLines
  <2> QED
    BY <2>1, IdleIsRequest DEF Init, TypeOK
<1>2. OrdersInv
  BY DEF Init, OrdersInv, OneDraft, DraftsKeepTheLimit, UnopenedAreEmpty, Draft
<1>3. \A s \in Sessions : RequestIsSound(Idle) /\ request[s] = Idle
  BY IdleIsRequest DEF Init, RequestIsSound
<1>4. RequestsInv
  BY <1>3, IdleIsRequest DEF RequestsInv, RequestsAreSound, OneLockPerDraft
<1> QED
  BY <1>1, <1>2, <1>4 DEF IInv

LEMMA StepKeeps ==
  ASSUME IInv, [Next]_vars
  PROVE  IInv' /\ Ageing
<1>1. ASSUME NEW s \in Sessions, AddStep(s) \/ StartRepeat(s) \/ RepeatNext(s) \/ ViewStep(s)
      PROVE  IInv' /\ Ageing
  BY <1>1, ChoosingKeeps, FindingKeeps, OpenDraftKeeps, FinishAddKeeps, RepeatingKeeps,
     EditingKeeps, RefuseKeeps DEF AddStep, ViewStep
<1> QED
  BY <1>1, StaffCreateDraftKeeps, StaffKeeps DEF Next

LEMMA InvariantHolds == Spec => []IInv
<1>1. IInv /\ [Next]_vars => IInv'
  BY StepKeeps
<1> QED
  BY <1>1, InitEstablishes, PTL DEF Spec

\* Every variable keeps its type: no line is ever given more than the limit,
\* and what a request repeats is always a line with units.
THEOREM TypeCorrect == Spec => []TypeOK
<1>1. IInv => TypeOK
  BY DEF IInv
<1> QED
  BY <1>1, InvariantHolds, PTL

\* No draft holds more than the limit of a product, however many sessions and
\* staff requests add to it and change its lines.
THEOREM LimitIsKept == Spec => []DraftsKeepTheLimit
<1>1. IInv => DraftsKeepTheLimit
  BY DEF IInv, OrdersInv
<1> QED
  BY <1>1, InvariantHolds, PTL

\* A customer never has two drafts, and a request that loses the race for one
\* fails only when an order opened before has been closed.
THEOREM LosersFindTheWinner == Spec => []LosersJoinTheWinner
<1>1. IInv => LosersJoinTheWinner
  BY DEF IInv, OrdersInv, RequestsInv, RequestsAreSound, RequestIsSound, SomeClosed,
         LosersJoinTheWinner
<1> QED
  BY <1>1, InvariantHolds, PTL

\* Orders that are placed or cancelled keep their lines and their status in
\* every step of every request about drafts, whatever it saw before.
THEOREM ClosedOrdersStayFinal == Spec => ClosedOrdersAreFinal
<1>1. IInv /\ [Next]_vars =>
        [\A o \in Orders : status[o] \in {"placed", "cancelled"} =>
           quantity'[o] = quantity[o] /\ status'[o] = status[o]]_vars
  BY StepKeeps DEF Ageing
<1> QED
  BY <1>1, InvariantHolds, PTL DEF Spec, ClosedOrdersAreFinal

\* Only its own last step moves a request that has locked the draft.
LEMMA LockedRequestFinishes ==
  ASSUME IInv, [Next]_vars, NEW s \in Sessions, request[s].step = "locked",
         request'[s] # request[s]
  PROVE  FinishAdd(s)
<1>1. request \in [Sessions -> RequestState]
  BY DEF IInv, TypeOK
<1>2. ASSUME NEW t \in Sessions, t # s, NEW new, request' = [request EXCEPT ![t] = new]
      PROVE  FALSE
  BY <1>1, <1>2
<1>3. ASSUME NEW t \in Sessions, t # s,
             AddStep(t) \/ StartRepeat(t) \/ RepeatNext(t) \/ ViewStep(t)
      PROVE  FALSE
  <2>1. CASE FindDraft(t) \/ JoinWinner(t)
    <3>1. \/ \E o \in Orders : request' = [request EXCEPT ![t] = LockedOn(@, o)]
          \/ request' = [request EXCEPT ![t].step = "unopened"]
      BY <2>1 DEF FindDraft, JoinWinner
    <3> QED
      BY <1>1, <1>3, <3>1
  <2>2. CASE LoseRace(t) \/ MissWinner(t)
    BY <1>1, <1>3, <2>2 DEF LoseRace, MissWinner
  <2>3. CASE ChooseOffer(t) \/ OpenDraft(t) \/ FinishAdd(t)
    BY <1>1, <1>3, <2>3 DEF ChooseOffer, OpenDraft, FinishAdd
  <2>4. CASE StartRepeat(t) \/ View(t)
    BY <1>1, <1>3, <2>4 DEF StartRepeat, View
  <2>5. CASE RepeatNext(t)
    BY <1>1, <1>3, <2>5 DEF RepeatNext
  <2>6. CASE SetLineQuantity(t) \/ RemoveLine(t) \/ DiscardDraft(t) \/ PlaceDraft(t) \/ Refuse(t)
    BY <1>1, <1>3, <2>6
       DEF SetLineQuantity, RemoveLine, DiscardDraft, PlaceDraft, Refuse, Done
  <2> QED
    BY <1>3, <2>1, <2>2, <2>3, <2>4, <2>5, <2>6 DEF AddStep, ViewStep
<1>4. ASSUME AddStep(s) \/ StartRepeat(s) \/ RepeatNext(s) \/ ViewStep(s)
      PROVE  FinishAdd(s)
  BY <1>4 DEF AddStep, ViewStep, StartRepeat, RepeatNext, ChooseOffer, FindDraft, OpenDraft,
              LoseRace, JoinWinner, MissWinner, View, SetLineQuantity, RemoveLine, DiscardDraft,
              PlaceDraft, Refuse, Acting
<1>5. ~(\/ \E c \in Clerks : StaffCreateDraft(c) \/ StaffPlaceDraft(c)
        \/ \E o \in Orders : StaffCancelDraft(o)
        \/ UNCHANGED vars)
  BY DEF StaffCreateDraft, StaffPlaceDraft, StaffCancelDraft, vars
<1> QED
  BY <1>3, <1>4, <1>5 DEF Next

\* An addition is never lost and loses none: the line grows by what was asked
\* for over what it holds when the addition commits, or nothing changes.
THEOREM AdditionsAreNeverLost == Spec => NoAddIsLost
<1> DEFINE Grows(s) ==
      LET r == request[s]
          line == <<r.item.offer, "selected">>
      IN  r.step = "locked" /\ request'[s] # r =>
            quantity' \in {quantity,
                           [quantity EXCEPT ![r.order][line] = @ + r.item.units]}
<1>1. ASSUME IInv, [Next]_vars PROVE [\A s \in Sessions : Grows(s)]_vars
  <2> SUFFICES ASSUME NEW s \in Sessions, request[s].step = "locked",
                      request'[s] # request[s]
               PROVE  quantity' \in {quantity,
                        [quantity EXCEPT ![request[s].order][<<request[s].item.offer, "selected">>]
                           = @ + request[s].item.units]}
    OBVIOUS
  <2> DEFINE r == request[s]
             line == <<r.item.offer, "selected">>
  <2>1. FinishAdd(s)
    BY <1>1, LockedRequestFinishes
  <2>2. r.had = quantity[r.order][line] /\ r.order \in Orders
    BY <1>1 DEF IInv, RequestsInv, RequestsAreSound, RequestIsSound
  <2>3. quantity' \in {quantity, [quantity EXCEPT ![r.order][line] = r.had + r.item.units]}
    BY <2>1 DEF FinishAdd
  <2>4. [quantity EXCEPT ![r.order][line] = r.had + r.item.units]
          = [quantity EXCEPT ![r.order][line] = @ + r.item.units]
    BY <2>2
  <2> QED
    BY <2>3, <2>4
<1>2. [\A s \in Sessions : Grows(s)]_vars =>
        [\A s \in Sessions :
           LET r == request[s]
               line == <<r.item.offer, "selected">>
           IN  r.step = "locked" /\ request'[s] # r =>
                 quantity' \in {quantity,
                                [quantity EXCEPT ![r.order][line] = @ + r.item.units]}]_vars
  OBVIOUS
<1> QED
  BY <1>1, <1>2, InvariantHolds, PTL DEF Spec, NoAddIsLost
=============================================================================
