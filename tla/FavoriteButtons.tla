-------------------------- MODULE FavoriteButtons --------------------------
(***************************************************************************)
(* The hearts that one page shows for one listing, the favorite they stand *)
(* for, and the requests in between, behind the rate limit.                *)
(*                                                                         *)
(* A heart is a component with a state of its own.  A click shows the new  *)
(* state at once, everywhere and in a cache that outlives the components,  *)
(* then sends the request; the answer, or the old state if it fails, is    *)
(* shown the same way.  The heart of the listing's page also asks the      *)
(* server when it mounts; it drops the answer if it was clicked meanwhile. *)
(* Other hearts, and a click whose heart is gone, do not know of it.       *)
(*                                                                         *)
(* The web server waits five seconds for the API.  A request that takes    *)
(* longer is answered as failed and still runs to its end.                 *)
(***************************************************************************)
EXTENDS RateLimit

CONSTANTS Buttons,   \* hearts of the listing
          Syncing,   \* those that ask the server when they mount
          None       \* nothing cached, no heart

ASSUME ButtonAssumption == Syncing \subseteq Buttons /\ None \notin Buttons \cup BOOLEAN

VARIABLES
  favorite,  \* the row of listing_favorites exists
  cache,     \* favoriteStateCache
  buttons,   \* buttons[b]: a mounted heart
  syncs,     \* syncs[b]: what its question to the server has come to
  clicks,    \* clicks[k]: a request that saves or removes the favorite
  strayed    \* history: something has happened that hearts cannot know

buttonVars == <<favorite, cache, buttons, syncs, clicks, strayed>>
vars == <<limitVars, buttonVars>>

Button == [mounted : BOOLEAN, shown : BOOLEAN, pending : BOOLEAN]
Sync == [at : {"none", "asked", "read"}, value : BOOLEAN, alone : BOOLEAN]
Click == [at : {"idle", "limit", "allowed", "inserting", "saved", "failed"},
          want : BOOLEAN, was : BOOLEAN, found : BOOLEAN,
          by : Buttons \cup {None}, abandoned : BOOLEAN]

NoButton == [mounted |-> FALSE, shown |-> FALSE, pending |-> FALSE]
NoSync == [at |-> "none", value |-> FALSE, alone |-> FALSE]
NoClick == [at |-> "idle", want |-> FALSE, was |-> FALSE, found |-> FALSE,
            by |-> None, abandoned |-> FALSE]

Init ==
  /\ LimitInit
  /\ favorite \in BOOLEAN
  /\ cache = None
  /\ buttons = [b \in Buttons |-> NoButton]
  /\ syncs = [b \in Buttons |-> NoSync]
  /\ clicks = [k \in Calls |-> NoClick]
  /\ strayed = FALSE

-----------------------------------------------------------------------------
Clicking == \E k \in Calls : clicks[k].at # "idle"

SyncingElsewhere(b) == \E c \in Buttons \ {b} : syncs[c].at # "none"

(* No question that is on its way is still alone.                          *)
Disturbed(table) == [b \in Buttons |-> [table[b] EXCEPT !.alone = FALSE]]

(* publishFavoriteState: the cache and every mounted heart.                *)
Publish(value, hearts) ==
  /\ cache' = value
  /\ buttons' = [b \in Buttons |->
                   IF hearts[b].mounted THEN [hearts[b] EXCEPT !.shown = value]
                   ELSE hearts[b]]

(* Mutant: a heart that mounts shows what the page was rendered with.      *)
FirstShownM(listed) == favorite /\ listed

(* A heart that mounts prefers the cache to what the page was rendered     *)
(* with: the favorites that the API listed, those before a page of the     *)
(* list that failed.                                                       *)
FirstShown(listed) == IF cache = None THEN favorite /\ listed ELSE cache

Mount(b, listed) ==
  /\ ~buttons[b].mounted
  /\ buttons' = [buttons EXCEPT ![b] = [mounted |-> TRUE, pending |-> FALSE,
                                        shown |-> FirstShown(listed)]]
  /\ LET asks == b \in Syncing
         alone == ~Clicking /\ ~SyncingElsewhere(b)
     IN /\ syncs' = IF asks THEN [Disturbed(syncs) EXCEPT ![b] =
                              [at |-> "asked", value |-> FALSE, alone |-> alone]]
                    ELSE syncs
        /\ strayed' = (strayed \/ (asks /\ ~alone)
                                \/ (cache = None /\ favorite /\ ~listed))
  /\ UNCHANGED <<limitVars, favorite, cache, clicks>>

(* The question is cancelled; a click goes on without its heart.           *)
Unmount(b) ==
  /\ buttons[b].mounted
  /\ buttons' = [buttons EXCEPT ![b] = NoButton]
  /\ syncs' = [syncs EXCEPT ![b] = NoSync]
  /\ clicks' = [k \in Calls |-> IF clicks[k].by = b
                                  THEN [clicks[k] EXCEPT !.by = None]
                                  ELSE clicks[k]]
  /\ UNCHANGED <<limitVars, favorite, cache, strayed>>

-----------------------------------------------------------------------------
(* The API lists the user's favorites.  If a page of the list fails, the   *)
(* listing counts as not found in it, here and when a page is rendered.    *)
SyncRead(b) ==
  /\ syncs[b].at = "asked"
  /\ \E listed \in BOOLEAN :
       /\ syncs' = [syncs EXCEPT ![b].at = "read",
                                 ![b].value = favorite /\ listed]
       /\ strayed' = (strayed \/ (favorite /\ ~listed))
  /\ UNCHANGED <<limitVars, favorite, cache, buttons, clicks>>

SyncFails(b) ==
  /\ syncs[b].at = "asked"
  /\ syncs' = [syncs EXCEPT ![b] = NoSync]
  /\ UNCHANGED <<limitVars, favorite, cache, buttons, clicks, strayed>>

(* A true answer to a question that was alone makes every heart right.     *)
SyncAnswered(b) ==
  /\ syncs[b].at = "read"
  /\ Publish(syncs[b].value, buttons)
  /\ strayed' = (strayed /\ ~(syncs[b].alone /\ syncs[b].value = favorite))
  /\ syncs' = [syncs EXCEPT ![b] = NoSync]
  /\ UNCHANGED <<limitVars, favorite, clicks>>

QuestionsAfterClick(b) == [Disturbed(syncs) EXCEPT ![b] = NoSync]

(* The guard that asks for a session comes before the limit.               *)
ClickHeart(b, k) ==
  LET want == ~buttons[b].shown
  IN /\ buttons[b].mounted /\ ~buttons[b].pending
     /\ clicks[k].at = "idle"
     /\ Publish(want, [buttons EXCEPT ![b].pending = TRUE])
     /\ \E authenticated \in BOOLEAN :
          /\ clicks' = [clicks EXCEPT ![k] =
                          [at |-> IF authenticated THEN "limit" ELSE "failed",
                           want |-> want, was |-> ~want, found |-> FALSE,
                           by |-> b, abandoned |-> FALSE]]
          /\ enforced' = IF authenticated
                           THEN [enforced EXCEPT ![k].at = "incr"] ELSE enforced
     /\ syncs' = QuestionsAfterClick(b)
     /\ strayed' = (strayed \/ Clicking \/ SyncingElsewhere(b))
     /\ UNCHANGED <<key, faults, favorite>>

-----------------------------------------------------------------------------
GoToStep(k, there) == clicks' = [clicks EXCEPT ![k].at = there]

(* The request has passed the limit, or is answered 429 or 503.            *)
Enforce(k) ==
  /\ clicks[k].at = "limit"
  /\ enforced[k].at \in {"passed", "blocked", "unavailable"}
  /\ GoToStep(k, IF enforced[k].at = "passed" THEN "allowed" ELSE "failed")
  /\ enforced' = [enforced EXCEPT ![k] = Idle]
  /\ UNCHANGED <<key, faults, favorite, cache, buttons, syncs, strayed>>

(* The listing is not public, or a statement fails.                        *)
Refuse(k) ==
  /\ clicks[k].at = "allowed"
  /\ GoToStep(k, "failed")
  /\ UNCHANGED <<limitVars, favorite, cache, buttons, syncs, strayed>>

AddRead(k) ==
  /\ clicks[k].at = "allowed" /\ clicks[k].want
  /\ clicks' = [clicks EXCEPT ![k].at = "inserting", ![k].found = favorite]
  /\ UNCHANGED <<limitVars, favorite, cache, buttons, syncs, strayed>>

(* A row that another request has inserted since is neither inserted nor   *)
(* in the snapshot: the API answers 404.                                   *)
AddWrite(k) ==
  /\ clicks[k].at = "inserting"
  /\ favorite' = TRUE
  /\ GoToStep(k, IF favorite /\ ~clicks[k].found THEN "failed" ELSE "saved")
  /\ UNCHANGED <<limitVars, cache, buttons, syncs, strayed>>

(* Whether there was a row or not.                                         *)
Remove(k) ==
  /\ clicks[k].at = "allowed" /\ ~clicks[k].want
  /\ favorite' = FALSE
  /\ GoToStep(k, "saved")
  /\ UNCHANGED <<limitVars, cache, buttons, syncs, strayed>>

(* Mutant: a failure is shown like a success.                              *)
ShownAfterM(k) == clicks[k].want

ShownAfter(k) == IF clicks[k].at = "saved" THEN clicks[k].want ELSE clicks[k].was

(* Mutant: a heart that has been clicked stays disabled.                   *)
ReleaseM(k) == buttons

Release(k) == [b \in Buttons |-> IF b = clicks[k].by
                                   THEN [buttons[b] EXCEPT !.pending = FALSE]
                                   ELSE buttons[b]]

Answer(k) ==
  /\ clicks[k].at \in {"saved", "failed"}
  /\ IF clicks[k].abandoned THEN UNCHANGED <<cache, buttons>>
     ELSE Publish(ShownAfter(k), Release(k))
  /\ clicks' = [clicks EXCEPT ![k] = NoClick]
  /\ UNCHANGED <<limitVars, favorite, syncs, strayed>>

(* Five seconds are over, or the answer is lost: the old state is shown.   *)
Abandon(k) ==
  /\ clicks[k].at # "idle" /\ ~clicks[k].abandoned
  /\ Publish(clicks[k].was, Release(k))
  /\ clicks' = [clicks EXCEPT ![k].abandoned = TRUE, ![k].by = None]
  /\ strayed' = TRUE
  /\ UNCHANGED <<limitVars, favorite, syncs>>

(* The favorite changes in another tab or on the account's page.           *)
ChangeElsewhere ==
  /\ favorite' = ~favorite
  /\ strayed' = TRUE
  /\ syncs' = Disturbed(syncs)
  /\ UNCHANGED <<limitVars, cache, buttons, clicks>>

Next ==
  \/ \E b \in Buttons :
       \/ \E listed \in BOOLEAN : Mount(b, listed)
       \/ Unmount(b)
       \/ SyncRead(b) \/ SyncFails(b) \/ SyncAnswered(b)
       \/ \E k \in Calls : ClickHeart(b, k)
  \/ \E k \in Calls :
       \/ Enforce(k) \/ Refuse(k) \/ AddRead(k) \/ AddWrite(k) \/ Remove(k)
       \/ Answer(k) \/ Abandon(k)
  \/ ChangeElsewhere
  \/ LimitStep /\ UNCHANGED buttonVars

Spec == Init /\ [][Next]_vars /\ LimitFairness

-----------------------------------------------------------------------------
(* Requests and hearts are well formed; a heart waits for at most its own  *)
(* click.                                                                  *)
TypeOK ==
  /\ LimitTypeOK
  /\ favorite \in BOOLEAN
  /\ cache \in BOOLEAN \cup {None}
  /\ buttons \in [Buttons -> Button]
  /\ syncs \in [Buttons -> Sync]
  /\ clicks \in [Calls -> Click]
  /\ strayed \in BOOLEAN
  /\ \A b \in Buttons :
       buttons[b].pending <=>
         \E k \in Calls : clicks[k].by = b /\ ~clicks[k].abandoned

(* Two hearts of one listing never disagree once either has been used,     *)
(* whichever mounts, answers or fails first.                               *)
HeartsAgree ==
  \A b \in Buttons : buttons[b].mounted /\ cache # None =>
                       buttons[b].shown = cache

(* When nothing is on its way the hearts show what is stored, clicks that  *)
(* were turned away included.  What the browser cannot know (overlapping   *)
(* requests of two hearts, an answer that came too late, a list that       *)
(* failed while a page was rendered or a heart asked, a change in another  *)
(* tab) is corrected by the next visit to the page of the listing.         *)
HeartIsRight ==
  /\ ~Clicking /\ \A b \in Buttons : syncs[b].at = "none"
  /\ ~strayed
  => \A b \in Buttons : buttons[b].mounted => buttons[b].shown = favorite
=============================================================================
