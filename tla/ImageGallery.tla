---------------------------- MODULE ImageGallery ----------------------------
(***************************************************************************)
(* The images of one draft listing: creation, deletion, cover and order,   *)
(* as the calls of ListingsService change the listing_images table.        *)
(*                                                                         *)
(* A call is a statement, or queries followed by a statement.  The         *)
(* statements touch several rows they did not lock when they chose them,   *)
(* so each has a step that takes its snapshot and a step that writes; the  *)
(* partial unique index listing_images_active_cover_idx makes a statement  *)
(* that would leave two covers fail as a whole.                            *)
(***************************************************************************)
EXTENDS Naturals, Sequences, FiniteSets

CONSTANTS
  Callers,    \* sessions of the owner that call the API at the same time
  MaxImages,  \* maxListingImages
  MaxRows     \* bound: rows ever created

ASSUME ImagesAssumption ==
  IsFiniteSet(Callers) /\ MaxImages \in Nat \ {0} /\ MaxRows \in Nat

VARIABLES
  images,     \* listing_images in the order of created_at
  editable,   \* the listing is a draft or under review
  calls,      \* calls[k]: the local state of the call that caller k makes
  overlapped  \* history: two calls have been in progress at the same time

vars == <<images, editable, calls, overlapped>>

Rows == 1..MaxRows
Image == [live : BOOLEAN, order : Nat, cover : BOOLEAN]
NoCall == [at |-> "idle"]

Live == {i \in DOMAIN images : images[i].live}
Cover == {i \in Live : images[i].cover}

(* The first of the images in S in gallery order.                          *)
First(S) == CHOOSE i \in S :
              \A j \in S : \/ images[i].order < images[j].order
                           \/ images[i].order = images[j].order /\ i <= j

Init ==
  /\ images = <<>>
  /\ editable = TRUE
  /\ calls = [k \in Callers |-> NoCall]
  /\ overlapped = FALSE

Idle(k) == calls[k] = NoCall
Enter(k, local) ==
  /\ calls' = [calls EXCEPT ![k] = local]
  /\ overlapped' = (overlapped \/ \E j \in Callers \ {k} : ~Idle(j))
Leave(k) == Enter(k, NoCall)

(* The unique index lets a statement end with these covers.                *)
IndexAllows(covers) == Cardinality(covers) <= 1

-----------------------------------------------------------------------------
(* createDraftImageUpload: find the draft, count its images, insert one.   *)

CreateDraft(k, wantsCover) ==
  /\ Idle(k)
  /\ editable
  /\ Enter(k, [at |-> "checked", wantsCover |-> wantsCover])
  /\ UNCHANGED <<images, editable>>

(* Mutant: one image too many passes the count.                            *)
BelowLimitM == editable => Cardinality(Live) <= MaxImages

(* The count joins the images to the editable draft: it is zero when the   *)
(* listing has stopped being one since it was found.                       *)
BelowLimit == editable => Cardinality(Live) < MaxImages

CreateCount(k) ==
  /\ calls[k].at = "checked"
  /\ IF BelowLimit
       THEN Enter(k, [at |-> "counted", wantsCover |-> calls[k].wantsCover])
       ELSE Leave(k)
  /\ UNCHANGED <<images, editable>>

(* coalesce(max(sort_order) + 1, 0)                                        *)
NextPosition(S) ==
  IF S = {} THEN 0
  ELSE 1 + images[CHOOSE i \in S :
                    \A j \in S : images[j].order <= images[i].order].order

(* The insert takes its snapshot; it does not look at the listing again.   *)
CreateRead(k) ==
  /\ calls[k].at = "counted"
  /\ Enter(k, [at |-> "creating",
               position |-> NextPosition(Live),
               cover |-> calls[k].wantsCover \/ Live = {},
               unset |-> IF calls[k].wantsCover THEN Live ELSE {}])
  /\ UNCHANGED <<images, editable>>

CreateWrite(k) ==
  /\ calls[k].at = "creating"
  /\ Len(images) < MaxRows
  /\ calls[k].cover => IndexAllows((Cover \ calls[k].unset) \cup {Len(images) + 1})
  /\ images' = Append([i \in DOMAIN images |->
                         IF i \in calls[k].unset
                           THEN [images[i] EXCEPT !.cover = FALSE]
                           ELSE images[i]],
                      [live |-> TRUE, order |-> calls[k].position,
                       cover |-> calls[k].cover])
  /\ Leave(k)
  /\ UNCHANGED editable

(* The index rejects a second cover.  The order of the insert and of the   *)
(* update that unsets the old cover is not specified by PostgreSQL, so the *)
(* statement can also fail when it would have unset the old cover.         *)
CreateFail(k) ==
  /\ calls[k].at = "creating"
  /\ calls[k].cover
  /\ Cover # {}
  /\ Leave(k)
  /\ UNCHANGED <<images, editable>>

-----------------------------------------------------------------------------
(* deleteDraftImage: one statement that deletes and promotes.              *)

(* Mutant: the deleted image can inherit from itself.                      *)
HeirsM(i) == Live

Heirs(i) == Live \ {i}

DeleteRead(k, i) ==
  /\ Idle(k)
  /\ editable
  /\ i \in Live
  /\ Enter(k, [at |-> "deleting", image |-> i,
               heir |-> IF images[i].cover /\ Heirs(i) # {}
                          THEN {First(Heirs(i))} ELSE {}])
  /\ UNCHANGED <<images, editable>>

(* The rows are found by their id: neither is checked for deletion again.  *)
DeleteWrite(k) ==
  LET i == calls[k].image
      heir == calls[k].heir
  IN /\ calls[k].at = "deleting"
     /\ IndexAllows((Cover \ {i}) \cup (heir \cap Live))
     /\ images' = [j \in DOMAIN images |->
                     IF j = i THEN [images[j] EXCEPT !.live = FALSE,
                                                     !.cover = FALSE]
                     ELSE IF j \in heir THEN [images[j] EXCEPT !.cover = TRUE]
                     ELSE images[j]]
     /\ Leave(k)
     /\ UNCHANGED editable

DeleteFail(k) ==
  /\ calls[k].at = "deleting"
  /\ ~IndexAllows((Cover \ {calls[k].image}) \cup (calls[k].heir \cap Live))
  /\ Leave(k)
  /\ UNCHANGED <<images, editable>>

-----------------------------------------------------------------------------
(* setDraftImageCover: one statement over all the images of the listing.   *)

CoverRead(k, i) ==
  /\ Idle(k)
  /\ editable
  /\ i \in Live
  /\ Enter(k, [at |-> "covering", image |-> i, seen |-> Live])
  /\ UNCHANGED <<images, editable>>

(* The rows of the snapshot that are still live get their flag.            *)
CoverWrite(k) ==
  LET i == calls[k].image
      seen == calls[k].seen
  IN /\ calls[k].at = "covering"
     /\ IndexAllows((Cover \ seen) \cup ({i} \cap Live))
     /\ images' = [j \in DOMAIN images |->
                     IF j \in seen \cap Live
                       THEN [images[j] EXCEPT !.cover = (j = i)]
                       ELSE images[j]]
     /\ Leave(k)
     /\ UNCHANGED editable

(* The index is checked row by row: the statement fails if it reaches the  *)
(* new cover before the old one, or if there is a cover it has not seen.   *)
CoverFail(k) ==
  /\ calls[k].at = "covering"
  /\ calls[k].image \in Live
  /\ Cover \ {calls[k].image} # {}
  /\ Leave(k)
  /\ UNCHANGED <<images, editable>>

-----------------------------------------------------------------------------
(* reorderDraftImages: compare the request with the gallery, then update.  *)

Orders(S) == {f \in [S -> 0..(Cardinality(S) - 1)] :
                \A i, j \in S : f[i] = f[j] => i = j}

OrderRead(k) ==
  /\ Idle(k)
  /\ editable
  /\ Live # {}
  /\ \E f \in Orders(Live) : Enter(k, [at |-> "ordering", places |-> f])
  /\ UNCHANGED <<images, editable>>

OrderWrite(k) ==
  LET places == calls[k].places
  IN /\ calls[k].at = "ordering"
     /\ images' = [j \in DOMAIN images |->
                     IF editable /\ j \in DOMAIN places \cap Live
                       THEN [images[j] EXCEPT !.order = places[j]]
                       ELSE images[j]]
     /\ Leave(k)
     /\ UNCHANGED editable

-----------------------------------------------------------------------------
(* A moderator decides on the listing, which the owner can no longer edit. *)
Decide == editable /\ editable' = FALSE /\ UNCHANGED <<images, calls, overlapped>>

Next ==
  \/ Decide
  \/ \E k \in Callers :
       \/ \E wantsCover \in BOOLEAN : CreateDraft(k, wantsCover)
       \/ CreateCount(k) \/ CreateRead(k) \/ CreateWrite(k) \/ CreateFail(k)
       \/ \E i \in DOMAIN images : DeleteRead(k, i) \/ CoverRead(k, i)
       \/ DeleteWrite(k) \/ DeleteFail(k)
       \/ CoverWrite(k) \/ CoverFail(k)
       \/ OrderRead(k) \/ OrderWrite(k)

Spec == Init /\ [][Next]_vars

-----------------------------------------------------------------------------
(* Rows, flags and pending calls are well formed.                          *)
TypeOK ==
  /\ images \in Seq(Image)
  /\ Len(images) <= MaxRows
  /\ editable \in BOOLEAN
  /\ overlapped \in BOOLEAN
  /\ \A k \in Callers : calls[k].at \in
       {"idle", "checked", "counted", "creating", "deleting", "covering", "ordering"}

(* As long as calls do not overlap, the gallery is in order after any      *)
(* sequence of them: it has a cover unless it is empty, because the cover  *)
(* passes on when it is deleted; no two images have the same place,        *)
(* whatever was deleted, inserted and reordered before; and there are no   *)
(* more than the maximum of images, but for the one that was on its way    *)
(* when a moderator decided.  Overlapping calls break each of the three.   *)
GalleryInOrder ==
  ~overlapped =>
    /\ Live # {} => Cover # {}
    /\ Cardinality(Live) <= MaxImages + (IF editable THEN 0 ELSE 1)
    /\ \A i, j \in Live : images[i].order = images[j].order => i = j

(* However the uploads of an owner overlap, a draft has at most one image  *)
(* too many for each further session, and they do not add up: a new upload *)
(* has to count again.  A decision of a moderator lets every session that  *)
(* has found the draft insert one more, for its count is then zero.        *)
ExcessIsBounded ==
  LET further == Cardinality(Callers) - 1
  IN Cardinality(Live) <=
       MaxImages + further + (IF editable THEN 0 ELSE further + 1)
=============================================================================
