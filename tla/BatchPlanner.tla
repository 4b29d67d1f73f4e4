---------------------------- MODULE BatchPlanner ----------------------------
(***************************************************************************)
(* plan_batch_picks of reservations/planning.py, one action per iteration  *)
(* of its loop over the pool in FEFO order.  The inputs are what the       *)
(* reservation service passes in after locking the pool: the pool of one   *)
(* product, physical and reserved quantities, and the request.  A reserved *)
(* quantity may exceed the physical one, as it may in the database.        *)
(***************************************************************************)
EXTENDS FefoPlan, FiniteSetsExt

CONSTANTS
  Batches,      \* batches, numbered in batch-code order
  MaxPhysical,  \* bound on the physical quantity of a batch
  MaxReserved,  \* bound on the reserved quantity of a batch
  MaxRequest,   \* bound on the requested quantity
  LastDate      \* best-before dates are 1 .. LastDate

ASSUME PlannerAssumption ==
  /\ Batches \subseteq Nat /\ IsFiniteSet(Batches)
  /\ {MaxPhysical, MaxReserved, MaxRequest, LastDate} \subseteq Nat

VARIABLES
  pool, physical, reserved, bestBefore, requested,  \* the arguments
  unvisited,   \* batches of the pool the loop has not reached
  remaining,   \* remaining_quantity
  available,   \* total_available_quantity
  picks,       \* quantity picked per batch
  outcome      \* "planning", then how the call ends

arguments == <<pool, physical, reserved, bestBefore, requested>>
vars == <<arguments, unvisited, remaining, available, picks, outcome>>

TypeOK ==
  /\ pool \subseteq Batches /\ unvisited \subseteq pool
  /\ physical \in [Batches -> 0 .. MaxPhysical]
  /\ reserved \in [Batches -> 0 .. MaxReserved]
  /\ bestBefore \in [Batches -> 1 .. LastDate]
  /\ requested \in 0 .. MaxRequest /\ remaining \in 0 .. MaxRequest
  /\ available \in Nat
  /\ picks \in [Batches -> 0 .. MaxPhysical]
  /\ outcome \in {"planning", "planned", "insufficient", "invalid"}

Init ==
  /\ pool \in SUBSET Batches
  /\ physical \in [Batches -> 0 .. MaxPhysical]
  /\ reserved \in [Batches -> 0 .. MaxReserved]
  /\ bestBefore \in [Batches -> 1 .. LastDate]
  /\ requested \in 0 .. MaxRequest
  /\ unvisited = pool
  /\ remaining = requested
  /\ available = 0
  /\ picks = [b \in Batches |-> 0]
  /\ outcome = "planning"

\* The sort key (best_before, batch_code).
ExpiresBefore(c, b) ==
  bestBefore[c] < bestBefore[b] \/ (bestBefore[c] = bestBefore[b] /\ c < b)
Earlier == {pair \in Batches \X Batches : ExpiresBefore(pair[1], pair[2])}

Free == [b \in Batches |-> Allocatable(physical[b], reserved[b])]

\* "requested quantity must be positive".
RefuseRequest ==
  /\ outcome = "planning" /\ requested <= 0
  /\ outcome' = "invalid"
  /\ UNCHANGED <<arguments, unvisited, remaining, available, picks>>

\* Fault: the pool is walked in any order.
VisitAnyBatch ==
  /\ outcome = "planning" /\ requested > 0
  /\ \E b \in unvisited :
       /\ LET taken == Min({Free[b], remaining})
          IN  /\ picks' = [picks EXCEPT ![b] = taken]
              /\ remaining' = remaining - taken
              /\ outcome' = IF taken = remaining THEN "planned" ELSE "planning"
       /\ available' = available + Free[b]
       /\ unvisited' = unvisited \ {b}
  /\ UNCHANGED arguments

\* Fault: the remainder is reduced by what the batch has, not what it gives.
VisitOvercounting ==
  /\ outcome = "planning" /\ requested > 0
  /\ \E b \in unvisited :
       /\ \A c \in unvisited \ {b} : <<b, c>> \in Earlier
       /\ picks' = [picks EXCEPT ![b] = Min({Free[b], remaining})]
       /\ remaining' = remaining - Free[b]
       /\ outcome' = IF Free[b] >= remaining THEN "planned" ELSE "planning"
       /\ available' = available + Free[b]
       /\ unvisited' = unvisited \ {b}
  /\ UNCHANGED arguments

\* One iteration: the earliest batch not yet visited gives what it can.
VisitNextBatch ==
  /\ outcome = "planning" /\ requested > 0
  /\ \E b \in unvisited :
       /\ \A c \in unvisited \ {b} : <<b, c>> \in Earlier
       /\ LET taken == Min({Free[b], remaining})
          IN  /\ picks' = [picks EXCEPT ![b] = taken]
              /\ remaining' = remaining - taken
              /\ outcome' = IF Free[b] > 0 /\ taken = remaining THEN "planned" ELSE "planning"
       /\ available' = available + Free[b]
       /\ unvisited' = unvisited \ {b}
  /\ UNCHANGED arguments

\* Fault: the last batch of the pool is never looked at.
RunShortTooEarly ==
  /\ outcome = "planning" /\ requested > 0 /\ Cardinality(unvisited) <= 1
  /\ outcome' = "insufficient"
  /\ UNCHANGED <<arguments, unvisited, remaining, available, picks>>

\* The loop, or an empty pool, ends with the request unfilled.
RunShort ==
  /\ outcome = "planning" /\ requested > 0 /\ unvisited = {}
  /\ outcome' = "insufficient"
  /\ UNCHANGED <<arguments, unvisited, remaining, available, picks>>

Next == RefuseRequest \/ VisitNextBatch \/ RunShort
Spec == Init /\ [][Next]_vars

-----------------------------------------------------------------------------
\* Every assignment of stock to batches that satisfies the FEFO contract.
FefoPlans ==
  {p \in [Batches -> 0 .. MaxPhysical] : IsFefoPlan(p, pool, Free, requested, Earlier)}

\* A returned plan is the one and only plan that satisfies the contract, so a
\* caller may rely on the contract alone.
PlanIsTheFefoPlan == outcome = "planned" => FefoPlans = {picks}

\* The planner gives up exactly when no plan exists, and the shortfall it
\* reports (requested - available) is the pool's.
RefusalsAreJustified ==
  outcome = "insufficient" =>
    FefoPlans = {} /\ available = Total(Free, pool) /\ available < requested

\* While it runs, what is picked and what remains make up the request, and no
\* unvisited batch has been touched.
LoopInvariant ==
  /\ remaining + Total(picks, pool) = requested
  /\ outcome = "planning" => \A b \in pool \ unvisited : picks[b] = Free[b]
  /\ \A b \in (Batches \ pool) \cup unvisited : picks[b] = 0
=============================================================================
