-------------------------- MODULE MCSearchDocument --------------------------
(* Instances of SearchDocument for TLC.                                    *)
EXTENDS SearchDocument, TLC

MCSymmetry == Permutations(Calls) \cup Permutations(Users)
=============================================================================
