------------------------- MODULE MCAccountRotation --------------------------
(* AccountRotation for TLC: interchangeable requests. *)
EXTENDS AccountRotation, TLC

RequestSymmetry == Permutations(Requests)
=============================================================================
