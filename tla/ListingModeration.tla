------------------------- MODULE ListingModeration --------------------------
(***************************************************************************)
(* The moderation workflow of apps/api: listings, moderation cases, the    *)
(* moderation_actions audit table and user reports, as the SQL statements  *)
(* of ListingsService, ModerationService and ReportsService change them.   *)
(*                                                                         *)
(* Every mutation of the code is ONE statement, run outside an explicit    *)
(* transaction at READ COMMITTED.  A statement takes its snapshot when it  *)
(* starts; what it locks (FOR UPDATE, or the row an UPDATE changes) is     *)
(* checked again on the newest version, what it only reads is not.  So a   *)
(* statement whose decisions rest on locked rows is one action here, and   *)
(* a statement that also acts on rows it merely read is two: one that      *)
(* takes the snapshot and one that writes.                                 *)
(***************************************************************************)
EXTENDS Naturals, Sequences, FiniteSets

CONSTANTS
  Listings,     \* rows of the listings table
  Users,        \* accounts
  Moderators,   \* the accounts whose role grants listing:moderate
  Owner,        \* Owner[l]: listings.owner_user_id
  Requests,     \* calls of POST /reports/listings/:listingId
  MaxComments,  \* bound: 'commented' rows in moderation_actions
  Leavers,      \* bound: the accounts that may be deleted
  None          \* SQL null

ASSUME AccountsAssumption ==
  /\ Moderators \subseteq Users
  /\ Owner \in [Listings -> Users]
  /\ None \notin Users
ASSUME BoundAssumption == MaxComments \in Nat /\ Leavers \subseteq Users

VARIABLES
  listings,     \* listings[l]: moderation_status and lifecycle_status
  cases,        \* moderation_cases in the order of created_at
  actions,      \* moderation_actions in the order they were inserted
  reports,      \* reports[q]: the row inserted by request q, if it has one
  requests,     \* requests[q]: local state of the report endpoint
  decisions,    \* decisions[m]: the decision statement m is running, if any
  deletedUsers  \* accounts with users.deleted_at set

vars == <<listings, cases, actions, reports, requests, decisions, deletedUsers>>

ModerationStatus ==
  {"draft", "pending_review", "approved", "rejected", "suspended"}
LifecycleStatus == {"draft", "published", "deleted"}

(* moderationDecisionConfigs: a verdict is named by the action it records, *)
(* which is also the status it gives to the case and to the listing.       *)
Verdicts == {"approved", "rejected", "suspended"}

(* Mutants of the two tables: a suspended listing stays published; a       *)
(* report takes the status of its case.                                    *)
LifecycleOfM(verdict) == IF verdict = "rejected" THEN "draft" ELSE "published"
ReportStatusOfM(verdict) == verdict

LifecycleOf(verdict) == IF verdict = "approved" THEN "published" ELSE "draft"
ReportStatusOf(verdict) ==
  IF verdict = "approved" THEN "dismissed" ELSE "resolved"

CaseStatus == {"open"} \cup Verdicts
ReportStatus == {"none", "linked", "dismissed", "resolved"}
ActionKind == {"opened", "reported", "assigned", "commented"} \cup Verdicts

Listing == [moderation : ModerationStatus, lifecycle : LifecycleStatus]
Case == [listing : Listings, status : CaseStatus, assignee : Users \cup {None}]
Action == [case : Nat \ {0}, actor : Users, kind : ActionKind,
           from : ModerationStatus \cup {"null"},
           to : ModerationStatus \cup {"null"}]
Report == [status : ReportStatus, case : Nat]
RequestStep == {"idle", "checked", "unmatched", "writing", "done"}
Answer == {"none", "created", "existing", "not_found"}
Request == [pc : RequestStep, user : Users \cup {None},
            listing : Listings \cup {None}, case : Nat, answer : Answer]
Decision == [case : Nat, verdict : Verdicts \cup {"none"},
             reports : SUBSET Requests]

NoDecision == [case |-> 0, verdict |-> "none", reports |-> {}]

Init ==
  /\ listings = [l \in Listings |->
                   [moderation |-> "draft", lifecycle |-> "draft"]]
  /\ cases = <<>>
  /\ actions = <<>>
  /\ reports = [q \in Requests |-> [status |-> "none", case |-> 0]]
  /\ requests = [q \in Requests |->
                   [pc |-> "idle", user |-> None, listing |-> None,
                    case |-> 0, answer |-> "none"]]
  /\ decisions = [m \in Moderators |-> NoDecision]
  /\ deletedUsers = {}

-----------------------------------------------------------------------------
(* Helpers shared by the statements.                                       *)

NewCase(l) == [listing |-> l, status |-> "open", assignee |-> None]

AuditRow(c, u, kind, from, to) ==
  [case |-> c, actor |-> u, kind |-> kind, from |-> from, to |-> to]

OpenCases(l) == {c \in DOMAIN cases :
                   cases[c].listing = l /\ cases[c].status = "open"}

OwnerIsLive(c) == Owner[cases[c].listing] \notin deletedUsers

(* Mutant: whatever is not deleted can be reported.                        *)
ReportableM(l) == listings[l].lifecycle # "deleted"

IsDraft(l) == listings[l] = [moderation |-> "draft", lifecycle |-> "draft"]

Reportable(l) == /\ listings[l].moderation = "approved"
                 /\ listings[l].lifecycle = "published"

-----------------------------------------------------------------------------
(* The owner's operations on a draft.  Whether the draft is ready is the   *)
(* business of the submission checks that precede this statement.          *)

SubmitDraft(l) ==
  /\ IsDraft(l)
  /\ listings' = [listings EXCEPT ![l].moderation = "pending_review"]
  /\ cases' = Append(cases, NewCase(l))
  /\ actions' = Append(actions, AuditRow(Len(cases) + 1, Owner[l], "opened",
                                         "draft", "pending_review"))
  /\ UNCHANGED <<reports, requests, decisions, deletedUsers>>

DeleteDraft(l) ==
  /\ IsDraft(l)
  /\ listings' = [listings EXCEPT ![l].lifecycle = "deleted"]
  /\ UNCHANGED <<cases, actions, reports, requests, decisions, deletedUsers>>

(* Deleting an account anonymises its row and revokes its sessions; its    *)
(* listings, cases and reports are left as they are.                       *)
DeleteAccount(u) ==
  /\ u \in Leavers \ deletedUsers
  /\ deletedUsers' = deletedUsers \cup {u}
  /\ UNCHANGED <<listings, cases, actions, reports, requests, decisions>>

-----------------------------------------------------------------------------
(* The moderators' operations.                                             *)

(* The case row is locked before its assignee is looked at.  The audit row *)
(* is written only when the case was free.                                 *)
ClaimCase(m, c) ==
  /\ m \notin deletedUsers
  /\ cases[c].status = "open"
  /\ OwnerIsLive(c)
  /\ cases[c].assignee = None
  /\ cases' = [cases EXCEPT ![c].assignee = m]
  /\ actions' = Append(actions, AuditRow(c, m, "assigned", "null", "null"))
  /\ UNCHANGED <<listings, reports, requests, decisions, deletedUsers>>

(* A comment is accepted on a case in any status.                          *)
CommentCase(m, c) ==
  /\ m \notin deletedUsers
  /\ OwnerIsLive(c)
  /\ Cardinality({i \in DOMAIN actions : actions[i].kind = "commented"})
       < MaxComments
  /\ actions' = Append(actions, AuditRow(c, m, "commented", "null", "null"))
  /\ UNCHANGED <<listings, cases, reports, requests, decisions, deletedUsers>>

(* Mutants of the condition below: the status of the case, its assignee,   *)
(* the status of the listing is not looked at.                             *)
DecidableClosedM(m, c) ==
  /\ cases[c].assignee \in {None, m}
  /\ listings[cases[c].listing].moderation \in {"pending_review", "approved"}
DecidableByAnyM(m, c) ==
  /\ cases[c].status = "open"
  /\ listings[cases[c].listing].moderation \in {"pending_review", "approved"}
DecidableAnyListingM(m, c) ==
  /\ cases[c].status = "open"
  /\ cases[c].assignee \in {None, m}

(* The part of the decision's condition that is on the rows it locks.      *)
Decidable(m, c) ==
  /\ cases[c].status = "open"
  /\ cases[c].assignee \in {None, m}
  /\ listings[cases[c].listing].moderation \in {"pending_review", "approved"}
  /\ listings[cases[c].listing].lifecycle \in {"draft", "published"}

(* Mutant: the reports of the listing, whichever case they belong to.      *)
ActiveReportsM(c) ==
  {q \in Requests : /\ reports[q].status = "linked"
                    /\ requests[q].listing = cases[c].listing}

ActiveReports(c) ==
  {q \in Requests : reports[q].status = "linked" /\ reports[q].case = c}

(* Mutant: the audit row says what a submission's decision would say.      *)
FromStatusM(c) == "pending_review"

(* from_status of the audit row: the listing's status under the lock.      *)
FromStatus(c) == listings[cases[c].listing].moderation

(* The decision statement starts: the owner and the active reports are     *)
(* read from its snapshot, and only from there.                            *)
DecideRead(m, c, verdict) ==
  /\ m \notin deletedUsers
  /\ decisions[m] = NoDecision
  /\ Decidable(m, c)
  /\ OwnerIsLive(c)
  /\ decisions' = [decisions EXCEPT ![m] =
                     [case |-> c, verdict |-> verdict,
                      reports |-> ActiveReports(c)]]
  /\ UNCHANGED <<listings, cases, actions, reports, requests, deletedUsers>>

(* It has locked the case and the listing, found that they still qualify,  *)
(* and writes the listing, the case, the audit row and the reports.        *)
DecideWrite(m) ==
  LET c == decisions[m].case
      verdict == decisions[m].verdict
      l == cases[c].listing
  IN /\ decisions[m] # NoDecision
     /\ Decidable(m, c)
     /\ listings' = [listings EXCEPT ![l] =
                       [moderation |-> verdict,
                        lifecycle |-> LifecycleOf(verdict)]]
     /\ cases' = [cases EXCEPT ![c] =
                    [listing |-> l, status |-> verdict, assignee |-> m]]
     /\ actions' = Append(actions,
                          AuditRow(c, m, verdict, FromStatus(c), verdict))
     /\ reports' = [q \in Requests |->
                      IF q \in decisions[m].reports
                        THEN [status |-> ReportStatusOf(verdict),
                              case |-> reports[q].case]
                        ELSE reports[q]]
     /\ decisions' = [decisions EXCEPT ![m] = NoDecision]
     /\ UNCHANGED <<requests, deletedUsers>>

(* The locked rows no longer qualify: nothing is written, the moderator    *)
(* is told that the case is not decidable.                                 *)
DecideMiss(m) ==
  /\ decisions[m] # NoDecision
  /\ ~Decidable(m, decisions[m].case)
  /\ decisions' = [decisions EXCEPT ![m] = NoDecision]
  /\ UNCHANGED <<listings, cases, actions, reports, requests, deletedUsers>>

-----------------------------------------------------------------------------
(* The report endpoint: three statements, of which the last reads the open *)
(* case it will use without locking it.                                    *)

ReportStart(q, u, l) ==
  /\ requests[q].pc = "idle"
  /\ u \notin deletedUsers
  /\ Reportable(l)
  /\ Owner[l] # u
  /\ requests' = [requests EXCEPT ![q] =
                    [pc |-> "checked", user |-> u, listing |-> l,
                     case |-> 0, answer |-> "none"]]
  /\ UNCHANGED <<listings, cases, actions, reports, decisions, deletedUsers>>

(* p is an active report of user u on listing l, with an open case.        *)
ActiveReportOf(p, u, l) ==
  /\ requests[p].user = u
  /\ requests[p].listing = l
  /\ reports[p].status = "linked"
  /\ cases[reports[p].case].status = "open"

ReportFindExisting(q) ==
  /\ requests[q].pc = "checked"
  /\ requests' =
       [requests EXCEPT ![q] =
          IF \E p \in Requests :
               ActiveReportOf(p, requests[q].user, requests[q].listing)
            THEN [@ EXCEPT !.pc = "done", !.answer = "existing"]
            ELSE [@ EXCEPT !.pc = "unmatched"]]
  /\ UNCHANGED <<listings, cases, actions, reports, decisions, deletedUsers>>

(* The open case of listing l that was created first, 0 if it has none.    *)
IsOldestOpenCase(c, l) ==
  IF OpenCases(l) = {} THEN c = 0
  ELSE c \in OpenCases(l) /\ \A d \in OpenCases(l) : c <= d

(* The insert statement starts and takes its snapshot: the listing must    *)
(* still be reportable, and the oldest open case, if any, will be used.    *)
ReportRead(q) ==
  /\ requests[q].pc = "unmatched"
  /\ Reportable(requests[q].listing)
  /\ \E c \in 0..Len(cases) :
       /\ IsOldestOpenCase(c, requests[q].listing)
       /\ requests' = [requests EXCEPT ![q].pc = "writing", ![q].case = c]
  /\ UNCHANGED <<listings, cases, actions, reports, decisions, deletedUsers>>

ReportMiss(q) ==
  /\ requests[q].pc = "unmatched"
  /\ ~Reportable(requests[q].listing)
  /\ requests' = [requests EXCEPT ![q].pc = "done", ![q].answer = "not_found"]
  /\ UNCHANGED <<listings, cases, actions, reports, decisions, deletedUsers>>

(* It writes the report and its audit row, into the case it read.          *)
ReportReuse(q) ==
  LET r == requests[q]
  IN /\ r.pc = "writing"
     /\ r.case # 0
     /\ reports' = [reports EXCEPT ![q] =
                      [status |-> "linked", case |-> r.case]]
     /\ actions' = Append(actions, AuditRow(r.case, r.user, "reported",
                                            "approved", "approved"))
     /\ requests' = [requests EXCEPT ![q].pc = "done",
                                     ![q].answer = "created"]
     /\ UNCHANGED <<listings, cases, decisions, deletedUsers>>

(* It found no open case and creates one in the same statement.  The final *)
(* select joins moderation_cases as of the snapshot, where the new case is *)
(* missing: no row comes back and the service answers 404.                 *)
ReportOpen(q) ==
  LET r == requests[q]
      c == Len(cases) + 1
  IN /\ r.pc = "writing"
     /\ r.case = 0
     /\ cases' = Append(cases, NewCase(r.listing))
     /\ reports' = [reports EXCEPT ![q] = [status |-> "linked", case |-> c]]
     /\ actions' = Append(actions, AuditRow(c, r.user, "reported",
                                            "approved", "approved"))
     /\ requests' = [requests EXCEPT ![q].pc = "done",
                                     ![q].answer = "not_found"]
     /\ UNCHANGED <<listings, decisions, deletedUsers>>

-----------------------------------------------------------------------------
OwnerNext == \E l \in Listings : SubmitDraft(l) \/ DeleteDraft(l)

AccountNext == \E u \in Users : DeleteAccount(u)

ModeratorNext ==
  \E m \in Moderators :
    \/ \E c \in DOMAIN cases : ClaimCase(m, c)
    \/ \E c \in DOMAIN cases : CommentCase(m, c)
    \/ \E c \in DOMAIN cases, verdict \in Verdicts : DecideRead(m, c, verdict)
    \/ DecideWrite(m)
    \/ DecideMiss(m)

ReporterNext ==
  \E q \in Requests :
    \/ \E u \in Users, l \in Listings : ReportStart(q, u, l)
    \/ ReportFindExisting(q)
    \/ ReportRead(q)
    \/ ReportMiss(q)
    \/ ReportReuse(q)
    \/ ReportOpen(q)

Next == OwnerNext \/ AccountNext \/ ModeratorNext \/ ReporterNext

Spec == Init /\ [][Next]_vars
-----------------------------------------------------------------------------
(* Every variable holds rows of its table or the local state of a call.    *)
TypeOK ==
  /\ listings \in [Listings -> Listing]
  /\ cases \in Seq(Case)
  /\ actions \in Seq(Action)
  /\ reports \in [Requests -> Report]
  /\ requests \in [Requests -> Request]
  /\ decisions \in [Moderators -> Decision]
  /\ deletedUsers \subseteq Users

(* The audit rows of listing l that record a change of its status.         *)
StatusRows(l) ==
  {i \in DOMAIN actions : /\ cases[actions[i].case].listing = l
                          /\ actions[i].kind \in {"opened"} \cup Verdicts}

(* The status of listing l according to the rows before row n.             *)
StatusBefore(l, n, status) ==
  LET rows == {i \in StatusRows(l) : i < n}
  IN \/ rows = {} /\ status = "draft"
     \/ \E i \in rows : actions[i].to = status /\ \A j \in rows : j <= i

(* A listing is approved exactly when it is published, and only a draft is *)
(* ever deleted: the two status columns, which no constraint of the        *)
(* schema ties together, cannot drift apart in any order of statements.    *)
LifecycleFollowsModeration ==
  \A l \in Listings :
    /\ listings[l].moderation = "approved" <=> listings[l].lifecycle = "published"
    /\ listings[l].lifecycle = "deleted" => listings[l].moderation = "draft"

(* A listing waiting for review is in the queue once: it has one open      *)
(* case, never none (it would wait for ever) and never two (it would be    *)
(* decided twice), although reports also open cases on listings.           *)
PendingHasOneOpenCase ==
  \A l \in Listings :
    listings[l].moderation = "pending_review" => Cardinality(OpenCases(l)) = 1

(* A case is closed by one decision of its assignee: a closed case has     *)
(* exactly one verdict in the audit table, the one it was closed with, by  *)
(* the moderator it is assigned to, and an open case has none, whoever     *)
(* raced to claim or decide it.                                            *)
VerdictRecorded ==
  \A c \in DOMAIN cases :
    LET rulings == {i \in DOMAIN actions :
                      actions[i].case = c /\ actions[i].kind \in Verdicts}
    IN IF cases[c].status = "open" THEN rulings = {}
       ELSE \E i \in rulings :
              /\ rulings = {i}
              /\ actions[i].kind = cases[c].status
              /\ actions[i].actor = cases[c].assignee

(* The audit table explains the status of every listing: its status rows   *)
(* form a chain that starts at draft, each from_status being the to_status *)
(* of the row before it, and ends at the listing's present status, even    *)
(* when two cases of a listing are decided at the same time.               *)
AuditChain ==
  \A l \in Listings :
    /\ \A i \in StatusRows(l) : StatusBefore(l, i, actions[i].from)
    /\ StatusBefore(l, Len(actions) + 1, listings[l].moderation)

(* A report is settled only by the decision on its own case and as that    *)
(* decision says: dismissed when the listing was approved, resolved when   *)
(* it was rejected or suspended.                                           *)
ReportsFollowVerdict ==
  \A q \in Requests :
    reports[q].status \in {"dismissed", "resolved"} =>
      /\ cases[reports[q].case].status \in Verdicts
      /\ reports[q].status = ReportStatusOf(cases[reports[q].case].status)

(* While a case that somebody claimed is open it stays with that           *)
(* moderator, and a case that was closed is never opened or decided again. *)
ClaimIsExclusive ==
  [][\A c \in DOMAIN cases :
       /\ cases[c].assignee # None => cases'[c].assignee = cases[c].assignee
       /\ cases[c].status # "open" => cases'[c] = cases[c]]_vars

-----------------------------------------------------------------------------
(* The listing's life as ListingLifecycle sees it.                         *)
PhaseOf(l) ==
  CASE listings[l].lifecycle = "deleted" -> "discarded"
    [] listings[l].moderation = "draft" /\ listings[l].lifecycle # "deleted"
         -> "draft"
    [] listings[l].moderation = "pending_review"
         /\ listings[l].lifecycle # "deleted" -> "review"
    [] listings[l].moderation = "approved"
         /\ listings[l].lifecycle # "deleted" -> "public"
    [] OTHER -> "removed"

Lifecycle == INSTANCE ListingLifecycle
               WITH phase <- [l \in Listings |-> PhaseOf(l)]

(* The statements implement the promised life of a listing: submitted      *)
(* once, public only by approval, removed for good.                        *)
ImplementsLifecycle == Lifecycle!Spec

-----------------------------------------------------------------------------
(* What the documentation says of reports, as state predicates.            *)

(* A report that was answered 404 left nothing behind.                     *)
NotFoundStoresNothing ==
  \A q \in Requests :
    requests[q].answer = "not_found" => reports[q].status = "none"
=============================================================================
