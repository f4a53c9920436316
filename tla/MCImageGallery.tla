-------------------------- MODULE MCImageGallery ----------------------------
(* Instances of ImageGallery for TLC.                                      *)
EXTENDS ImageGallery, TLC

MCSymmetry == Permutations(Callers)
=============================================================================
