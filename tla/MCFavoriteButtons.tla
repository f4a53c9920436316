------------------------- MODULE MCFavoriteButtons -------------------------
(* Instances of FavoriteButtons for TLC.                                   *)
EXTENDS FavoriteButtons, TLC
=============================================================================
