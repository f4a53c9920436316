-------------------------- MODULE MCAccountAccess ---------------------------
(* Instances of AccountAccess for TLC.                                     *)
EXTENDS AccountAccess, TLC

MCSymmetry == Permutations(Calls)
=============================================================================
