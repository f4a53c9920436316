--------------------------- MODULE SearchDocument ---------------------------
(***************************************************************************)
(* The search document of one listing: a copy of what the public search    *)
(* ranks by, rebuilt after a moderation decision, an image of the worker,  *)
(* a like or its removal.  The change is committed by a statement of its   *)
(* own; the refresh is a second statement, which reads everything in one   *)
(* snapshot and then upserts or deletes the row.  Nothing orders two       *)
(* refreshes, and nothing repeats one that was lost.                       *)
(***************************************************************************)
EXTENDS Naturals, FiniteSets

CONSTANTS Users,     \* who like the listing
          Calls      \* requests to the API and jobs of the worker

ASSUME UsersAssumption == IsFiniteSet(Users)

VARIABLES
  status,    \* what the moderation and the calendar made of the listing
  likes,     \* the users with a row in listing_likes
  ready,     \* the listing has an image that is ready
  document,  \* the row of listing_search_documents
  calls,     \* calls[k]: local state of call k
  current,   \* history: refreshes whose snapshot nothing has outdated
  settled    \* history: the last refresh wrote such a snapshot, and nothing
             \* has changed since

vars == <<status, likes, ready, document, calls, current, settled>>

NoDocument == [indexed |-> FALSE, likes |-> 0, ready |-> FALSE]
Document == [indexed : BOOLEAN, likes : 0..Cardinality(Users), ready : BOOLEAN]

Call == [at : {"idle", "changed", "writing", "done", "dead"},
         saved : Document, saw : BOOLEAN]
NoCall == [at |-> "idle", saved |-> NoDocument, saw |-> FALSE]

Init ==
  /\ status = "review"
  /\ likes = {}
  /\ ready = FALSE
  /\ document = NoDocument
  /\ calls = [k \in Calls |-> NoCall]
  /\ current = {}
  /\ settled = TRUE

-----------------------------------------------------------------------------
Move(k, step) == calls' = [calls EXCEPT ![k].at = step]

(* Something has changed: no snapshot shows it, nor does the document.     *)
Outdate == current' = {} /\ settled' = FALSE

(* A call whose statement has changed something goes on to the refresh.    *)
Changed(k) ==
  /\ calls[k].at = "idle"
  /\ Move(k, "changed")
  /\ Outdate
  /\ UNCHANGED document

(* One that has found nothing to change answers at once.                   *)
Unchanged(k) ==
  /\ calls[k].at = "idle"
  /\ Move(k, "done")
  /\ UNCHANGED <<document, current, settled>>

(* public_listing                                                          *)
Public == status = "published"

(* What the statement computes for the document.                           *)
Computed == [indexed |-> TRUE, likes |-> Cardinality(likes), ready |-> ready]

-----------------------------------------------------------------------------
(* decideListingCase: a listing under review is published or not, a public *)
(* one stays or is taken down; an expired one stays expired when approved. *)
Approve(k) ==
  /\ status # "removed"
  /\ status' = IF status = "expired" THEN "expired" ELSE "published"
  /\ Changed(k)
  /\ UNCHANGED <<likes, ready>>

Remove(k) ==
  /\ status # "removed"
  /\ status' = "removed"
  /\ Changed(k)
  /\ UNCHANGED <<likes, ready>>

(* expires_at passes, or the owner's account is deleted: no call refreshes *)
(* the document.                                                           *)
Expire ==
  /\ status = "published"
  /\ status' = "expired"
  /\ Outdate
  /\ UNCHANGED <<likes, ready, document, calls>>

(* The worker settles an image: ready or rejected.                         *)
SettleImage(k) ==
  /\ ready' \in {ready, TRUE}
  /\ Changed(k)
  /\ UNCHANGED <<status, likes>>

Like(k, u) ==
  /\ Public
  /\ likes' = likes \cup {u}
  /\ IF u \notin likes THEN Changed(k) ELSE Unchanged(k)
  /\ UNCHANGED <<status, ready>>

Unlike(k, u) ==
  /\ likes' = likes \ {u}
  /\ IF u \in likes THEN Changed(k) ELSE Unchanged(k)
  /\ UNCHANGED <<status, ready>>

-----------------------------------------------------------------------------
(* refreshListing takes its snapshot ...                                   *)
RefreshRead(k) ==
  /\ calls[k].at = "changed"
  /\ calls' = [calls EXCEPT
                 ![k] = [at |-> "writing",
                         saved |-> IF Public THEN Computed ELSE NoDocument,
                         saw |-> document.indexed]]
  /\ current' = current \cup {k}
  /\ UNCHANGED <<status, likes, ready, document, settled>>

(* Mutant: the image is missing from the columns that a conflict updates.  *)
RefreshedM(local) ==
  IF local.saved.indexed
    THEN IF document.indexed THEN [document EXCEPT !.likes = local.saved.likes]
         ELSE local.saved
    ELSE IF local.saw THEN NoDocument ELSE document

(* ... and upserts the document, or deletes the one the snapshot holds.    *)
Refreshed(local) ==
  IF local.saved.indexed THEN local.saved
  ELSE IF local.saw THEN NoDocument ELSE document

RefreshWrite(k) ==
  /\ calls[k].at = "writing"
  /\ document' = Refreshed(calls[k])
  /\ Move(k, "done")
  /\ settled' = (k \in current)
  /\ current' = IF k \in current THEN current \ {k} ELSE {}
  /\ UNCHANGED <<status, likes, ready>>

(* The process stops, or the database refuses the refresh.                 *)
Die(k) ==
  /\ calls[k].at \in {"changed", "writing"}
  /\ Move(k, "dead")
  /\ current' = current \ {k}
  /\ UNCHANGED <<status, likes, ready, document, settled>>

Next ==
  \/ Expire
  \/ \E k \in Calls :
       \/ Approve(k) \/ Remove(k) \/ SettleImage(k)
       \/ \E u \in Users : Like(k, u) \/ Unlike(k, u)
       \/ RefreshRead(k) \/ RefreshWrite(k) \/ Die(k)

Spec == Init /\ [][Next]_vars

-----------------------------------------------------------------------------
(* Rows and calls are well formed; the document counts at most every user. *)
TypeOK ==
  /\ status \in {"review", "published", "expired", "removed"}
  /\ likes \in SUBSET Users
  /\ ready \in BOOLEAN
  /\ document \in Document
  /\ calls \in [Calls -> Call]
  /\ current \in SUBSET Calls
  /\ settled \in BOOLEAN

(* Once a refresh has run from its snapshot to its write without a change  *)
(* or an older refresh in between, the document says what the listing is,  *)
(* whatever it said before, however many refreshes were lost or overtook   *)
(* one another: it is there exactly when the listing is public, with the   *)
(* present number of likes and images.                                     *)
DocumentFollowsListing ==
  settled =>
    document = IF status = "published"
                 THEN [indexed |-> TRUE, likes |-> Cardinality(likes),
                       ready |-> ready]
                 ELSE NoDocument
=============================================================================
