--------------------------- MODULE MCReservations ---------------------------
(***************************************************************************)
(* Small instances of Reservations for TLC: orders 1 and 2, a retail and a *)
(* business order (or two of one kind, by the cfg), lines and batches      *)
(* numbered from 1.                                                        *)
(***************************************************************************)
EXTENDS Reservations

\* One line on order 1, two on order 2, whose offers overlap on batch 1.
SharedOrderOf == [l \in Lines |-> IF l = 1 THEN 1 ELSE 2]
SharedPool == [l \in Lines |-> IF l = 2 THEN {1} ELSE Batches]
=============================================================================
