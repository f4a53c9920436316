---------------------------- MODULE ImagePipeline ---------------------------
(***************************************************************************)
(* The life of the images of one listing: the owner uploads, confirms and  *)
(* deletes them and submits the listing (ListingsService); the worker's    *)
(* loop, and the one-shot command beside it, turn confirmed originals into *)
(* variants (apps/worker/src/media).  Storage and database calls can fail, *)
(* and a worker can crash between any two of them.                         *)
(***************************************************************************)
EXTENDS Naturals, FiniteSets

CONSTANTS
  Images,      \* rows of listing_images
  Workers,     \* processes that run processPendingListingImages
  LoopWorker,  \* the one that runs it from the media processing loop
  BatchLimit,  \* limit of the worker's select
  MaxFaults    \* bound: failed database calls and crashes

ASSUME PipelineAssumption ==
  /\ LoopWorker \in Workers
  /\ BatchLimit \in Nat \ {0}
  /\ MaxFaults \in Nat

VARIABLES
  listing,     \* its moderation status, or "deleted"
  status,      \* status[i]: listing_images.status, "none" before the insert
  originals,   \* images whose original object is in storage
  variants,    \* <<i, kind>>: variant objects in storage
  confirming,  \* images whose confirm call has seen the object in storage
  submitting,  \* a submit call has found the images ready
  work,        \* work[w]: what worker w is doing
  faults       \* failures so far

pipelineVars ==
  <<listing, status, originals, variants, confirming, submitting, work,
    faults>>

ImageStatus ==
  {"none", "uploaded", "processing", "ready", "rejected", "deleted"}
ListingStatus ==
  {"draft", "pending_review", "approved", "rejected", "deleted"}
Stages == {"idle", "fetch", "put_large", "put_thumb", "mark_ready", "refresh",
           "mark_rejected", "refresh_rejected"}
Resting == [at |-> "idle", batch |-> {}, image |-> "none"]

Editable == listing \in {"draft", "pending_review"}
LiveImages == {i \in Images : status[i] \notin {"none", "deleted"}}

PipelineInit ==
  /\ listing = "draft"
  /\ status = [i \in Images |-> "none"]
  /\ originals = {}
  /\ variants = {}
  /\ confirming = {}
  /\ submitting = FALSE
  /\ work = [w \in Workers |-> Resting]
  /\ faults = 0

-----------------------------------------------------------------------------
(* The owner.                                                              *)

CreateUpload(i) ==
  /\ Editable
  /\ status[i] = "none"
  /\ status' = [status EXCEPT ![i] = "uploaded"]
  /\ UNCHANGED <<listing, originals, variants, confirming, submitting, work,
                 faults>>

(* The browser puts the original on the presigned URL, at any time.        *)
PutOriginal(i) ==
  /\ status[i] # "none"
  /\ i \notin originals
  /\ originals' = originals \cup {i}
  /\ UNCHANGED <<listing, status, variants, confirming, submitting, work, faults>>

(* confirmDraftImageUpload reads the row, asks storage for the object ...  *)
ConfirmStat(i) ==
  /\ Editable
  /\ status[i] = "uploaded"
  /\ i \in originals
  /\ confirming' = confirming \cup {i}
  /\ UNCHANGED <<listing, status, originals, variants, submitting, work, faults>>

(* ... and updates the row if it is still an upload of an editable listing.*)
ConfirmWrite(i) ==
  /\ i \in confirming
  /\ confirming' = confirming \ {i}
  /\ status' = IF Editable /\ status[i] = "uploaded"
                 THEN [status EXCEPT ![i] = "processing"] ELSE status
  /\ UNCHANGED <<listing, originals, variants, submitting, work, faults>>

DeleteImage(i) ==
  /\ Editable
  /\ i \in LiveImages
  /\ status' = [status EXCEPT ![i] = "deleted"]
  /\ UNCHANGED <<listing, originals, variants, confirming, submitting, work,
                 faults>>

(* countDraftImageReadiness with validateDraftImageReadiness: at least one *)
(* image is ready, none is pending and none is rejected.                   *)
ImagesReady == /\ LiveImages # {}
               /\ \A i \in LiveImages : status[i] = "ready"

SubmitCheck ==
  /\ listing = "draft"
  /\ ImagesReady
  /\ submitting' = TRUE
  /\ UNCHANGED <<listing, status, originals, variants, confirming, work, faults>>

(* The statement that submits looks only at the listing.                   *)
SubmitWrite ==
  /\ submitting
  /\ submitting' = FALSE
  /\ listing' = IF listing = "draft" THEN "pending_review" ELSE listing
  /\ UNCHANGED <<status, originals, variants, confirming, work, faults>>

(* The other changes of the listing, by its owner and by a moderator.      *)
DeleteDraft ==
  /\ listing = "draft"
  /\ listing' = "deleted"
  /\ UNCHANGED <<status, originals, variants, confirming, submitting, work,
                 faults>>

DecideListing ==
  /\ listing \in {"pending_review", "approved"}
  /\ listing' \in {"approved", "rejected"}
  /\ UNCHANGED <<status, originals, variants, confirming, submitting, work,
                 faults>>

-----------------------------------------------------------------------------
(* The worker.                                                             *)

Advance(w, stage) == work' = [work EXCEPT ![w].at = stage]
UnchangedOwner == UNCHANGED <<listing, originals, confirming, submitting>>

(* Mutant: only images of listings that can still be edited are selected.  *)
PendingEditableM == {i \in Images : status[i] = "processing" /\ Editable}

(* The images that the worker's query selects from.                        *)
Pending == {i \in Images : status[i] = "processing" /\ listing # "deleted"}

(* A tick of the loop, when the previous batch is over, selects a batch    *)
(* and starts with one of its images.                                      *)
Tick(w) ==
  /\ work[w] = Resting
  /\ \E batch \in SUBSET Pending, i \in Pending :
       /\ i \in batch
       /\ Cardinality(batch) <= BatchLimit
       /\ Cardinality(batch) = BatchLimit \/ batch = Pending
       /\ work' = [work EXCEPT ![w] = [at |-> "fetch", batch |-> batch \ {i},
                                       image |-> i]]
  /\ UnchangedOwner /\ UNCHANGED <<status, variants, faults>>

(* getObject and sharp: an original that cannot be read or is not an image *)
(* raises an error, and so does a storage failure.                         *)
Fetch(w) ==
  /\ work[w].at = "fetch"
  /\ Advance(w, "put_large") \/ Advance(w, "mark_rejected")
  /\ UnchangedOwner /\ UNCHANGED <<status, variants, faults>>

(* Mutant: the result of putObject is not awaited.                         *)
PutVariantM(w, stage, kind, next) ==
  /\ work[w].at = stage
  /\ Advance(w, next)
  /\ variants' = variants \cup {<<work[w].image, kind>>} \/ UNCHANGED variants
  /\ UnchangedOwner /\ UNCHANGED <<status, faults>>

PutVariant(w, stage, kind, next) ==
  /\ work[w].at = stage
  /\ \/ Advance(w, next) /\ variants' = variants \cup {<<work[w].image, kind>>}
     \/ Advance(w, "mark_rejected") /\ UNCHANGED variants
  /\ UnchangedOwner /\ UNCHANGED <<status, faults>>

(* Mutant: the update does not ask for the status 'processing'.             *)
SettleM(i, outcome) == [status EXCEPT ![i] = outcome]

(* The update that ends the processing of an image.                        *)
Settle(i, outcome) ==
  IF status[i] = "processing" THEN [status EXCEPT ![i] = outcome] ELSE status

MarkReady(w) ==
  /\ work[w].at = "mark_ready"
  /\ status' = Settle(work[w].image, "ready")
  /\ Advance(w, "refresh")
  /\ UnchangedOwner /\ UNCHANGED <<variants, faults>>

(* The catch block.                                                        *)
MarkRejected(w) ==
  /\ work[w].at = "mark_rejected"
  /\ status' = Settle(work[w].image, "rejected")
  /\ Advance(w, "refresh_rejected")
  /\ UnchangedOwner /\ UNCHANGED <<variants, faults>>

(* The search document is refreshed and the worker takes the next image.   *)
Refresh(w) ==
  /\ work[w].at \in {"refresh", "refresh_rejected"}
  /\ \/ /\ work[w].batch = {}
        /\ work' = [work EXCEPT ![w] = Resting]
     \/ \E i \in work[w].batch :
          work' = [work EXCEPT ![w] = [at |-> "fetch", image |-> i,
                                       batch |-> work[w].batch \ {i}]]
  /\ UnchangedOwner /\ UNCHANGED <<status, variants, faults>>

(* A database call inside the try block fails: the image is rejected.      *)
FaultCaught(w) ==
  /\ faults < MaxFaults
  /\ faults' = faults + 1
  /\ work[w].at \in {"mark_ready", "refresh"}
  /\ Advance(w, "mark_rejected")
  /\ UnchangedOwner /\ UNCHANGED <<status, variants>>

(* One in the catch block fails, or the process dies: the batch is lost.   *)
FaultAbort(w) ==
  /\ faults < MaxFaults
  /\ faults' = faults + 1
  /\ work[w].at # "idle"
  /\ work' = [work EXCEPT ![w] = Resting]
  /\ UnchangedOwner /\ UNCHANGED <<status, variants>>

Step(w) ==
  \/ Tick(w)
  \/ Fetch(w)
  \/ PutVariant(w, "put_large", "large", "put_thumb")
  \/ PutVariant(w, "put_thumb", "thumb", "mark_ready")
  \/ MarkReady(w)
  \/ MarkRejected(w)
  \/ Refresh(w)

OwnerNext ==
  \/ \E i \in Images : \/ CreateUpload(i) \/ PutOriginal(i)
                       \/ ConfirmStat(i) \/ ConfirmWrite(i) \/ DeleteImage(i)
  \/ SubmitCheck \/ SubmitWrite \/ DeleteDraft \/ DecideListing

PipelineNext ==
  OwnerNext \/ \E w \in Workers : Step(w) \/ FaultCaught(w) \/ FaultAbort(w)

(* The loop fires at a fixed interval and every storage and database call  *)
(* returns or fails; nothing is assumed of the owner, of moderators or of  *)
(* the one-shot command.                                                   *)
PipelineSpec ==
  /\ PipelineInit
  /\ [][PipelineNext]_pipelineVars
  /\ WF_pipelineVars(Step(LoopWorker))

-----------------------------------------------------------------------------
(* Statuses, objects and the workers' local state are of their kinds.      *)
PipelineTypeOK ==
  /\ listing \in ListingStatus
  /\ status \in [Images -> ImageStatus]
  /\ originals \subseteq Images
  /\ variants \subseteq Images \X {"large", "thumb"}
  /\ confirming \subseteq Images
  /\ submitting \in BOOLEAN
  /\ \A w \in Workers : work[w].at \in Stages /\ work[w].batch \subseteq Images
  /\ faults \in 0..MaxFaults

(* An image that is shown as ready has both its variants in storage, even  *)
(* when a worker crashed half way and another one finished the job.        *)
ReadyHasVariants ==
  \A i \in Images : status[i] = "ready" => {i} \X {"large", "thumb"} \subseteq variants

(* A ready or rejected image changes only by being deleted, and a deleted  *)
(* image never comes back, although two workers may process it at the same *)
(* time with different outcomes while its owner deletes it.                *)
OutcomeIsFinal ==
  [][\A i \in Images :
       status[i] \in {"ready", "rejected", "deleted"} =>
         status'[i] \in {status[i], "deleted"}]_pipelineVars

(* A confirmed image is processed in the end: it becomes ready, rejected   *)
(* or deleted, unless its listing is thrown away.  Crashes, failed calls   *)
(* and a full batch delay it but do not lose it.                           *)
ConfirmedIsSettled ==
  \A i \in Images :
    status[i] = "processing" ~>
      (status[i] \in {"ready", "rejected", "deleted"} \/ listing = "deleted")
=============================================================================
