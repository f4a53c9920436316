------------------------ MODULE MCPhoneVerification ------------------------
(* Instances of PhoneVerification for TLC.                                 *)
EXTENDS PhoneVerification, TLC

MCSymmetry == Permutations(Calls) \cup Permutations(Numbers)
=============================================================================
