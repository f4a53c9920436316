-------------------------- MODULE MCImagePipeline ---------------------------
(* Instances of ImagePipeline for TLC.  No symmetry: one run checks a      *)
(* liveness property.                                                      *)
EXTENDS ImagePipeline
=============================================================================
