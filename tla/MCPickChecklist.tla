--------------------------- MODULE MCPickChecklist --------------------------
(***************************************************************************)
(* Small instances of PickChecklist for TLC: one business order, whose     *)
(* first line may be split over all batches.                               *)
(***************************************************************************)
EXTENDS PickChecklist, TLC

RequestSymmetry == Permutations(Clerks) \cup Permutations(Managers)
OneOrder == [l \in Lines |-> 1]
SplitPool == [l \in Lines |-> IF l = 1 THEN Batches ELSE {2}]
=============================================================================
