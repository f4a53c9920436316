-------------------------- MODULE NearbyListings --------------------------
(***************************************************************************)
(* The section of the home page that shows listings near the visitor.      *)
(*                                                                         *)
(* It shows recent listings while it asks the browser for the position,    *)
(* then those nearby; when the position or the nearby listings are not to  *)
(* be had it asks for the recent ones once more.  Questions overlap, and   *)
(* three counters are to keep late answers out: the last question for      *)
(* recent listings, the last for nearby ones, and the last nearby answer   *)
(* that was shown.                                                         *)
(*                                                                         *)
(* The browser answers every question for the position, by a timeout if    *)
(* need be, once the visitor has decided whether it may; the web server    *)
(* gives up on the API after five seconds.  An answer that comes after the *)
(* visitor has left the page shows nothing and is left out.                *)
(***************************************************************************)
EXTENDS Naturals, FiniteSets

CONSTANTS MaxRecent,  \* bounds of the questions for recent listings and
          MaxNearby   \* for nearby ones that a click may lead to

ASSUME NearbyAssumption == MaxRecent \in Nat /\ MaxNearby \in Nat

VARIABLES
  locates,     \* the browser can be asked for a position
  permission,  \* the question at mount whether it may be
  locating,    \* questions for the position that are out
  status, message, list,  \* what the section shows
  recentId,    \* fallbackRequestIdRef
  nearbyId,    \* nearbyRequestIdRef
  readyId,     \* nearbyReadyRequestIdRef
  recents,     \* questions for recent listings that are out
  nearbys,     \* questions for nearby listings that are out
  outcome,     \* history: what the last attempt at the position came to
  alone        \* history: attempts have never overlapped

ids == <<recentId, nearbyId, readyId>>
shown == <<status, message, list>>
sectionVars == <<locates, permission, locating, shown, ids, recents, nearbys,
                 outcome, alone>>

Statuses == {"checking", "locating", "loading", "ready", "error"}
Busy == status \in {"checking", "locating", "loading"}

SectionInit ==
  /\ locates \in BOOLEAN
  /\ permission = "unasked"
  /\ locating = 0
  /\ status = "checking" /\ message = "none" /\ list = "none"
  /\ recentId = 0 /\ nearbyId = 0 /\ readyId = 0
  /\ recents = {} /\ nearbys = {}
  /\ outcome = "none"
  /\ alone = TRUE

-----------------------------------------------------------------------------
\* An attempt at the position is under way, from the question to the browser
\* to the listings.
Attempting == locating > 0 \/ nearbys # {}

\* Mutant: the question takes the number of the next one for nearby listings.
AskRecentNextM(n) ==
  /\ recentId' = recentId + n
  /\ recents' =
       recents \cup {[id |-> recentId + i, start |-> nearbyId + 1] : i \in 1 .. n}
  /\ message' = "recent"
  /\ status' = IF status \in {"locating", "loading"} THEN status ELSE "loading"

\* Mutant: a section that has settled stays as it is while it asks again.
AskRecentQuietM(n) ==
  /\ recentId' = recentId + n
  /\ recents' =
       recents \cup {[id |-> recentId + i, start |-> nearbyId] : i \in 1 .. n}
  /\ message' = "recent"
  /\ status' = status

\* fetchFallbackListings, up to its question; n of them in one handler.
AskRecent(n) ==
  /\ recentId' = recentId + n
  /\ recents' =
       recents \cup {[id |-> recentId + i, start |-> nearbyId] : i \in 1 .. n}
  /\ message' = "recent"
  /\ status' = IF status \in {"locating", "loading"} THEN status ELSE "loading"

\* An attempt ends without nearby listings.
Miss ==
  /\ AskRecent(1)
  /\ outcome' = "recent"
  /\ UNCHANGED <<locates, list, nearbyId, readyId>>

\* requestPosition in a browser that has positions.
Locate ==
  /\ locating' = locating + 1
  /\ status' = "locating"
  /\ alone' = (alone /\ ~Attempting)
  /\ UNCHANGED <<locates, message, list, ids, recents, nearbys, outcome>>

\* The effect of the first rendering: recent listings, then the permission.  A
\* browser without positions or permissions asks for recent listings again.
MountSection ==
  /\ permission = "unasked"
  /\ \/ locates /\ permission' = "asked" /\ AskRecent(1)
     \/ permission' = "known" /\ AskRecent(2)
  /\ UNCHANGED <<locates, locating, list, nearbyId, readyId, nearbys, outcome,
                 alone>>

PermissionGranted ==
  /\ permission = "asked"
  /\ permission' = "known"
  /\ Locate

\* Denied, still to be asked of the visitor, or not to be found out.
PermissionMissing ==
  /\ permission = "asked"
  /\ permission' = "known"
  /\ Miss
  /\ alone' = (alone /\ ~Attempting)
  /\ UNCHANGED <<locating, nearbys>>

\* The button is disabled while the section is busy.
UsePosition ==
  /\ permission # "unasked"
  /\ ~Busy
  /\ recentId < MaxRecent /\ nearbyId + locating < MaxNearby
  /\ \/ locates /\ Locate
     \/ ~locates /\ Miss /\ UNCHANGED <<locating, nearbys, alone>>
  /\ UNCHANGED permission

\* fetchNearbyListings, up to its question.
PositionFound ==
  /\ locating > 0
  /\ locating' = locating - 1
  /\ nearbyId' = nearbyId + 1
  /\ nearbys' = nearbys \cup {nearbyId + 1}
  /\ status' = "loading" /\ message' = "searching"
  /\ UNCHANGED <<locates, permission, list, recentId, readyId, recents, outcome,
                 alone>>

PositionMissing ==
  /\ locating > 0
  /\ locating' = locating - 1
  /\ Miss
  /\ UNCHANGED <<permission, nearbys, alone>>

-----------------------------------------------------------------------------
NearbyReturns(n) ==
  /\ n \in nearbys
  /\ nearbys' = nearbys \ {n}
  /\ UNCHANGED <<locates, permission, locating, alone>>

\* A later question for nearby listings makes an answer too late.
NearbyLate(n) ==
  /\ NearbyReturns(n)
  /\ n # nearbyId
  /\ UNCHANGED <<shown, ids, recents, outcome>>

NearbyFound(n) ==
  /\ NearbyReturns(n)
  /\ n = nearbyId
  /\ list' = "near" /\ message' = "near" /\ status' = "ready"
  /\ readyId' = n
  /\ outcome' = "near"
  /\ UNCHANGED <<recentId, nearbyId, recents>>

\* No listings nearby, or a failed request.
NearbyMissing(n) ==
  /\ NearbyReturns(n)
  /\ n = nearbyId
  /\ Miss

RecentReturns(r) ==
  /\ r \in recents
  /\ recents' = recents \ {r}
  /\ UNCHANGED <<locates, permission, locating, ids, nearbys, outcome, alone>>

\* Mutant: a nearby answer does not make it too late.
TooLateM(r) == r.id # recentId

\* So does a later question for recent listings, and a nearby answer.
TooLate(r) == r.id # recentId \/ readyId > r.start

RecentLate(r) ==
  /\ RecentReturns(r)
  /\ TooLate(r)
  /\ UNCHANGED shown

\* Mutant: so is one that was asked for at the same time, or never.
NearbyUnderWayM(r) == nearbyId >= r.start

NearbyUnderWay(r) == nearbyId > r.start /\ readyId < nearbyId

RecentFound(r) ==
  /\ RecentReturns(r)
  /\ ~TooLate(r)
  /\ list' = "recent" /\ message' = "recent"
  /\ status' = IF NearbyUnderWay(r) THEN status ELSE "ready"

RecentFailed(r) ==
  /\ RecentReturns(r)
  /\ r.id = recentId /\ nearbyId = r.start
  /\ list' = "none" /\ message' = "failed" /\ status' = "error"

\* Another question has taken over: its answer decides.
RecentFailedLate(r) ==
  /\ RecentReturns(r)
  /\ r.id # recentId \/ nearbyId # r.start
  /\ UNCHANGED shown

-----------------------------------------------------------------------------
PermissionReturns == PermissionGranted \/ PermissionMissing
PositionReturns == PositionFound \/ PositionMissing
Nearby(n) == NearbyLate(n) \/ NearbyFound(n) \/ NearbyMissing(n)
Recent(r) ==
  RecentLate(r) \/ RecentFound(r) \/ RecentFailed(r) \/ RecentFailedLate(r)

SectionNext ==
  \/ MountSection
  \/ PermissionReturns
  \/ UsePosition
  \/ PositionReturns
  \/ \E n \in nearbys : Nearby(n)
  \/ \E r \in recents : Recent(r)

\* The browser runs the effect and answers, and so does the web server.
Answers ==
  /\ WF_sectionVars(MountSection)
  /\ WF_sectionVars(PermissionReturns)
  /\ WF_sectionVars(PositionReturns)
  /\ WF_sectionVars(\E n \in nearbys : Nearby(n))
  /\ WF_sectionVars(\E r \in recents : Recent(r))

SectionSpec == SectionInit /\ [][SectionNext]_sectionVars /\ Answers

-----------------------------------------------------------------------------
(***************************************************************************)
(* Properties                                                              *)
(***************************************************************************)
\* The counters are ahead of the questions that are out and of each other.
SectionTypeOK ==
  /\ locates \in BOOLEAN
  /\ permission \in {"unasked", "asked", "known"}
  /\ locating \in Nat /\ (locating > 0 => locates)
  /\ status \in Statuses
  /\ message \in {"none", "recent", "searching", "near", "failed"}
  /\ list \in {"none", "recent", "near"}
  /\ recentId \in Nat /\ nearbyId \in Nat /\ readyId \in 0 .. nearbyId
  /\ recents \subseteq [id : 1 .. recentId, start : 0 .. nearbyId]
  /\ nearbys \subseteq 1 .. nearbyId
  /\ outcome \in {"none", "recent", "near"}
  /\ alone \in BOOLEAN

\* A section that has settled says what it shows: nearby listings come without
\* the message that they are recent ones, recent listings come with it, and a
\* section that says it has failed shows none.
SaysWhatItShows ==
  /\ status = "ready" => list # "none" /\ message = list
  /\ status = "error" => list = "none" /\ message = "failed"

\* When no question is out, and attempts at the position have not overlapped,
\* the section shows what the last attempt came to: nearby listings that were
\* found are not replaced by recent ones that were asked for earlier.
LastAttemptShown ==
  /\ alone /\ ~Attempting /\ recents = {} /\ permission = "known"
  /\ outcome # "none" /\ status = "ready"
  => list = outcome

\* The section does not stay busy, with its button disabled.
Settles == Busy ~> ~Busy
=============================================================================
