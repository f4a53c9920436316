-------------------------- MODULE ListingLifecycle --------------------------
(***************************************************************************)
(* What the moderation workflow promises about the life of a listing, and  *)
(* nothing of how it is achieved: a draft is submitted once, a submitted   *)
(* listing is shown to the public only by an approval, a listing taken     *)
(* down is never shown again, and only a draft can be thrown away.         *)
(* ListingModeration implements this specification.                        *)
(***************************************************************************)
CONSTANT Listings      \* the identifiers of the listings

VARIABLE phase         \* phase[l]: where listing l is in its life

Phases == {"draft", "review", "public", "removed", "discarded"}

Init == phase = [l \in Listings |-> "draft"]

(* The owner sends a draft to the moderators.                              *)
Submit(l) == /\ phase[l] = "draft"
             /\ phase' = [phase EXCEPT ![l] = "review"]

(* The owner throws a draft away.                                          *)
Discard(l) == /\ phase[l] = "draft"
              /\ phase' = [phase EXCEPT ![l] = "discarded"]

(* A moderator approves a listing under review.                            *)
Publish(l) == /\ phase[l] = "review"
              /\ phase' = [phase EXCEPT ![l] = "public"]

(* A moderator rejects or suspends a listing, before or after publication. *)
TakeDown(l) == /\ phase[l] \in {"review", "public"}
               /\ phase' = [phase EXCEPT ![l] = "removed"]

Next == \E l \in Listings :
           Submit(l) \/ Discard(l) \/ Publish(l) \/ TakeDown(l)

Spec == Init /\ [][Next]_phase

(* A listing is removed for good: there is no operation that brings it     *)
(* back, so what was taken down is never public again.                     *)
RemovedIsFinal ==
  [][\A l \in Listings : phase[l] = "removed" => phase'[l] = "removed"]_phase
=============================================================================
