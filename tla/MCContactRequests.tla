------------------------- MODULE MCContactRequests -------------------------
(* Instances of ContactRequests for TLC.                                   *)
EXTENDS ContactRequests, TLC

MCSymmetry == Permutations(Requests) \cup Permutations(Requesters)
              \cup Permutations(Listings) \cup Permutations(Publishes)
              \cup Permutations(Connections) \cup Permutations(Sets)
=============================================================================
