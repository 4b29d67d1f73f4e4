-------------------------- MODULE MCBusinessDrafts --------------------------
(* Two portal sessions and a member of staff share one customer's draft.   *)
EXTENDS BusinessDrafts, TLC

SessionSymmetry == Permutations(Sessions)
=============================================================================
