------------------------ MODULE MCListingModeration -------------------------
(* An instance of ListingModeration for TLC: one listing, two moderators,  *)
(* who also send the reports, and two calls of the report endpoint.        *)
EXTENDS ListingModeration, TLC

CONSTANTS owner, m1, m2

MCOwner == [l \in Listings |-> owner]
MCSymmetry == Permutations(Requests) \cup Permutations(Moderators)
=============================================================================
