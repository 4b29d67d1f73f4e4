------------------------------ MODULE FefoPlan ------------------------------
(***************************************************************************)
(* What a reservation plan is: the first-expired-first-out contract of     *)
(* reservations/planning.py, stated without its loop.  Quantities are      *)
(* totalled by counting units, so that facts about totals follow from      *)
(* facts about the cardinality of finite sets.                             *)
(***************************************************************************)
EXTENDS Integers, FiniteSets

\* The units that the quantities f assign to the members of S, one by one.
UnitsOf(f, S) == UNION {{x} \X (1 .. f[x]) : x \in S}

\* The sum of f over S.
Total(f, S) == Cardinality(UnitsOf(f, S))

\* Stock that is neither reserved nor overdrawn: max(physical - reserved, 0).
Allocatable(physical, reserved) ==
  IF reserved < physical THEN physical - reserved ELSE 0

\* picks serves the requested quantity from the pool, takes no more than is
\* free from any batch, and takes from a batch only when every batch of the
\* pool that expires earlier has been emptied.
IsFefoPlan(picks, pool, free, requested, earlier) ==
  /\ \A b \in DOMAIN picks \ pool : picks[b] = 0
  /\ \A b \in pool :
       /\ picks[b] <= free[b]
       /\ picks[b] > 0 => \A c \in pool : <<c, b>> \in earlier => picks[c] = free[c]
  /\ Total(picks, pool) = requested
=============================================================================
