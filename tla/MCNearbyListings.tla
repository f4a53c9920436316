-------------------------- MODULE MCNearbyListings --------------------------
(* Instances of NearbyListings for TLC.                                    *)
EXTENDS NearbyListings, TLC
=============================================================================
