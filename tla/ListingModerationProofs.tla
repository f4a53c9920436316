---------------------- MODULE ListingModerationProofs -----------------------
(***************************************************************************)
(* Proofs about ListingModeration, for any number of listings, accounts,   *)
(* moderators and reports.                                                 *)
(***************************************************************************)
EXTENDS ListingModeration, SequenceTheorems, FiniteSetTheorems, TLAPS

(* Case numbers stored in other rows and in running statements refer to    *)
(* rows that exist, and a request that was made has a user and a listing.  *)
ReferencesExist ==
  /\ \A i \in DOMAIN actions : actions[i].case \in DOMAIN cases
  /\ \A q \in Requests :
       reports[q].status # "none" => reports[q].case \in DOMAIN cases
  /\ \A m \in Moderators :
       decisions[m] # NoDecision => /\ decisions[m].case \in DOMAIN cases
                                    /\ decisions[m].verdict \in Verdicts
  /\ \A m \in Moderators : \A q \in decisions[m].reports :
       reports[q].status # "none"
  /\ \A q \in Requests :
       requests[q].pc # "idle" => /\ requests[q].user \in Users
                                  /\ requests[q].listing \in Listings
  /\ \A q \in Requests :
       requests[q].pc = "writing" => \/ requests[q].case = 0
                                     \/ requests[q].case \in DOMAIN cases

WellFormed == TypeOK /\ ReferencesExist

-----------------------------------------------------------------------------
(* What one SQL write does to a table.                                     *)

(* Appending a row keeps the rows there are and adds the new one.          *)
LEMMA AppendRow ==
  ASSUME NEW S, NEW s \in Seq(S), NEW e \in S
  PROVE  /\ Append(s, e) \in Seq(S)
         /\ DOMAIN s = 1..Len(s)
         /\ Len(s) \in Nat
         /\ Len(s) + 1 \notin DOMAIN s
         /\ DOMAIN Append(s, e) = DOMAIN s \cup {Len(s) + 1}
         /\ \A i \in DOMAIN s : Append(s, e)[i] = s[i]
         /\ Append(s, e)[Len(s) + 1] = e
<1>1. /\ Append(s, e) \in Seq(S)
      /\ Len(Append(s, e)) = Len(s) + 1
      /\ \A i \in 1..Len(s) : Append(s, e)[i] = s[i]
      /\ Append(s, e)[Len(s) + 1] = e
  BY AppendProperties
<1>2. /\ DOMAIN s = 1..Len(s) /\ Len(s) \in Nat
      /\ DOMAIN Append(s, e) = 1..Len(Append(s, e))
  BY <1>1, LenProperties
<1> QED
  BY <1>1, <1>2

(* Updating a row keeps the table's length and every other row.            *)
LEMMA UpdateRow ==
  ASSUME NEW S, NEW s \in Seq(S), NEW c \in DOMAIN s, NEW e \in S
  PROVE  /\ [s EXCEPT ![c] = e] \in Seq(S)
         /\ DOMAIN [s EXCEPT ![c] = e] = DOMAIN s
         /\ [s EXCEPT ![c] = e][c] = e
         /\ \A d \in DOMAIN s : d # c => [s EXCEPT ![c] = e][d] = s[d]
<1>1. c \in 1..Len(s)
  BY LenProperties
<1>2. [s EXCEPT ![c] = e] \in Seq(S)
  BY <1>1, ExceptSeq
<1> QED
  BY <1>2

(* A row of a table has the table's type.                                  *)
LEMMA RowOf ==
  ASSUME NEW S, NEW s \in Seq(S), NEW c \in DOMAIN s
  PROVE  s[c] \in S /\ c \in Nat \ {0}
  BY ElementOfSeq, LenProperties

(* A step of the report endpoint changes the state of its request only.    *)
LEMMA UpdateRequest ==
  ASSUME requests \in [Requests -> Request],
         NEW q \in Requests, NEW r \in Request,
         requests' = [requests EXCEPT ![q] = r]
  PROVE  /\ requests' \in [Requests -> Request]
         /\ requests'[q] = r
         /\ \A p \in Requests : p # q => requests'[p] = requests[p]
  OBVIOUS

-----------------------------------------------------------------------------
(* The initial state is well formed.                                       *)
LEMMA InitWellFormed == Init => WellFormed
  BY DEF Init, WellFormed, TypeOK, ReferencesExist, Listing, ModerationStatus,
     LifecycleStatus, Report, ReportStatus, Request, RequestStep, Answer,
     Decision, NoDecision

(* Every step keeps the state well formed.                                 *)
LEMMA NextWellFormed == WellFormed /\ [Next]_vars => WellFormed'
<1> SUFFICES ASSUME WellFormed, [Next]_vars PROVE WellFormed'
  OBVIOUS
<1> USE AccountsAssumption
<1>0. /\ cases \in Seq(Case) /\ actions \in Seq(Action)
      /\ DOMAIN cases = 1..Len(cases) /\ Len(cases) \in Nat
  BY LenProperties DEF WellFormed, TypeOK
<1>1. ASSUME NEW l \in Listings, SubmitDraft(l) PROVE WellFormed'
  <2>1. NewCase(l) \in Case
    BY DEF NewCase, Case, CaseStatus
  <2>2. AuditRow(Len(cases) + 1, Owner[l], "opened", "draft", "pending_review")
          \in Action
    BY <1>0 DEF AuditRow, Action, ActionKind, ModerationStatus
  <2>3. TypeOK'
    BY <1>1, <2>1, <2>2, AppendRow
       DEF WellFormed, TypeOK, SubmitDraft, Listing, ModerationStatus
  <2>4. ReferencesExist'
    BY <1>0, <1>1, <2>1, <2>2, AppendRow
       DEF WellFormed, ReferencesExist, SubmitDraft, AuditRow
  <2> QED BY <2>3, <2>4 DEF WellFormed
<1>2. ASSUME NEW l \in Listings, DeleteDraft(l) PROVE WellFormed'
  BY <1>2 DEF WellFormed, TypeOK, ReferencesExist, DeleteDraft, Listing,
              LifecycleStatus
<1>3. ASSUME NEW u \in Users, DeleteAccount(u) PROVE WellFormed'
  BY <1>3 DEF WellFormed, TypeOK, ReferencesExist, DeleteAccount
<1>4. ASSUME NEW m \in Moderators, NEW c \in DOMAIN cases, ClaimCase(m, c)
      PROVE  WellFormed'
  <2>1. cases[c] \in Case /\ c \in Nat \ {0}
    BY <1>0, RowOf
  <2>2. AuditRow(c, m, "assigned", "null", "null") \in Action
    BY <2>1 DEF AuditRow, Action, ActionKind
  <2>3. [cases[c] EXCEPT !.assignee = m] \in Case
    BY <2>1 DEF Case
  <2>4. cases' = [cases EXCEPT ![c] = [cases[c] EXCEPT !.assignee = m]]
    BY <1>4 DEF ClaimCase
  <2>5. cases' \in Seq(Case) /\ DOMAIN cases' = DOMAIN cases
    BY <1>0, <2>3, <2>4, UpdateRow
  <2>6. TypeOK'
    BY <1>4, <2>2, <2>5, AppendRow DEF WellFormed, TypeOK, ClaimCase
  <2>7. ReferencesExist'
    BY <1>0, <1>4, <2>2, <2>5, AppendRow
       DEF WellFormed, ReferencesExist, ClaimCase, AuditRow
  <2> QED BY <2>6, <2>7 DEF WellFormed
<1>5. ASSUME NEW m \in Moderators, NEW c \in DOMAIN cases, CommentCase(m, c)
      PROVE  WellFormed'
  <2>1. c \in Nat \ {0}
    BY <1>0
  <2>2. AuditRow(c, m, "commented", "null", "null") \in Action
    BY <2>1 DEF AuditRow, Action, ActionKind
  <2>3. TypeOK'
    BY <1>5, <2>2, AppendRow DEF WellFormed, TypeOK, CommentCase
  <2>4. ReferencesExist'
    BY <1>0, <1>5, <2>2, AppendRow
       DEF WellFormed, ReferencesExist, CommentCase, AuditRow
  <2> QED BY <2>3, <2>4 DEF WellFormed
<1>6. ASSUME NEW m \in Moderators, NEW c \in DOMAIN cases,
             NEW verdict \in Verdicts, DecideRead(m, c, verdict)
      PROVE  WellFormed'
  <2>1. c \in Nat
    BY <1>0
  <2> QED
    BY <1>6, <2>1 DEF WellFormed, TypeOK, ReferencesExist, DecideRead, Decision,
                      ActiveReports
<1>7. ASSUME NEW m \in Moderators, DecideWrite(m) PROVE WellFormed'
  <2> DEFINE c == decisions[m].case
             verdict == decisions[m].verdict
             l == cases[c].listing
             row == [listing |-> l, status |-> verdict, assignee |-> m]
  <2>1. c \in DOMAIN cases /\ verdict \in Verdicts
    BY <1>7 DEF WellFormed, ReferencesExist, DecideWrite
  <2>2. cases[c] \in Case /\ c \in Nat \ {0}
    BY <1>0, <2>1, RowOf
  <2>3. l \in Listings /\ row \in Case
    BY <2>1, <2>2 DEF Case, CaseStatus
  <2>4. AuditRow(c, m, verdict, FromStatus(c), verdict) \in Action
    BY <2>1, <2>2, <2>3 DEF AuditRow, Action, ActionKind, FromStatus, WellFormed,
       TypeOK, Listing, ModerationStatus, Verdicts
  <2>5. cases' = [cases EXCEPT ![c] = row]
    BY <1>7 DEF DecideWrite
  <2>6. cases' \in Seq(Case) /\ DOMAIN cases' = DOMAIN cases
    BY <1>0, <2>1, <2>3, <2>5, UpdateRow
  <2>7. listings' \in [Listings -> Listing]
    BY <1>7, <2>1, <2>3 DEF WellFormed, TypeOK, DecideWrite, Listing,
       ModerationStatus, LifecycleStatus, LifecycleOf, Verdicts
  <2>8. /\ reports' \in [Requests -> Report]
        /\ \A q \in Requests : reports'[q].case = reports[q].case
    BY <1>7, <2>1 DEF WellFormed, TypeOK, DecideWrite, Report, ReportStatus,
       ReportStatusOf
  <2>9. /\ \A q \in Requests :
             reports'[q].status # "none" => reports[q].status # "none"
        /\ \A q \in Requests :
             reports[q].status # "none" => reports'[q].status # "none"
    BY <1>7, <2>1 DEF WellFormed, TypeOK, ReferencesExist, DecideWrite,
       ReportStatusOf
  <2>10. decisions' \in [Moderators -> Decision]
    BY <1>7 DEF WellFormed, TypeOK, DecideWrite, Decision, NoDecision
  <2>11. TypeOK'
    BY <1>0, <1>7, <2>4, <2>6, <2>7, <2>8, <2>10, AppendRow
       DEF WellFormed, TypeOK, DecideWrite
  <2>12. \A i \in DOMAIN actions' : actions'[i].case \in DOMAIN cases'
    BY <1>0, <1>7, <2>1, <2>4, <2>6, AppendRow
       DEF WellFormed, ReferencesExist, DecideWrite, AuditRow
  <2>13. ReferencesExist'
    BY <1>7, <2>6, <2>8, <2>9, <2>12
       DEF WellFormed, TypeOK, ReferencesExist, DecideWrite, Decision, NoDecision
  <2> QED BY <2>11, <2>13 DEF WellFormed
<1>8. ASSUME NEW m \in Moderators, DecideMiss(m) PROVE WellFormed'
  BY <1>8 DEF WellFormed, TypeOK, ReferencesExist, DecideMiss, Decision,
              NoDecision
<1>9. ASSUME NEW q \in Requests, NEW u \in Users, NEW l \in Listings,
             ReportStart(q, u, l)
      PROVE  WellFormed'
  BY <1>9 DEF WellFormed, TypeOK, ReferencesExist, ReportStart, Request,
              RequestStep, Answer
<1>10. ASSUME NEW q \in Requests, ReportFindExisting(q) PROVE WellFormed'
  <2>1. PICK r \in {[requests[q] EXCEPT !.pc = "done", !.answer = "existing"],
                    [requests[q] EXCEPT !.pc = "unmatched"]} :
          requests' = [requests EXCEPT ![q] = r]
    BY <1>10 DEF ReportFindExisting
  <2>2. /\ requests \in [Requests -> Request]
        /\ requests[q].pc # "idle"
    BY <1>10 DEF WellFormed, TypeOK, ReportFindExisting
  <2>3. /\ r \in Request
        /\ r.pc # "writing" /\ r.user = requests[q].user
        /\ r.listing = requests[q].listing
    BY <2>1, <2>2 DEF Request, RequestStep, Answer
  <2>4. /\ requests' \in [Requests -> Request]
        /\ requests'[q] = r
        /\ \A p \in Requests : p # q => requests'[p] = requests[p]
    BY <2>1, <2>2, <2>3, UpdateRequest
  <2>5. UNCHANGED <<listings, cases, actions, reports, decisions, deletedUsers>>
    BY <1>10 DEF ReportFindExisting
  <2>6. TypeOK'
    BY <2>4, <2>5 DEF WellFormed, TypeOK
  <2>7. ReferencesExist'
    BY <2>2, <2>3, <2>4, <2>5 DEF WellFormed, ReferencesExist
  <2> QED BY <2>6, <2>7 DEF WellFormed
<1>11. ASSUME NEW q \in Requests, ReportRead(q) PROVE WellFormed'
  <2>1. PICK c \in 0..Len(cases) :
          requests' = [requests EXCEPT
                         ![q] = [requests[q] EXCEPT !.pc = "writing", !.case = c]]
    BY <1>11 DEF ReportRead
  <2> DEFINE r == [requests[q] EXCEPT !.pc = "writing", !.case = c]
  <2>2. c \in Nat /\ (c = 0 \/ c \in DOMAIN cases)
    BY <1>0
  <2>3. /\ requests \in [Requests -> Request]
        /\ requests[q].pc = "unmatched"
    BY <1>11 DEF WellFormed, TypeOK, ReportRead
  <2>4. /\ r \in Request
        /\ r.case = c /\ r.user = requests[q].user
        /\ r.listing = requests[q].listing
    BY <2>2, <2>3 DEF Request, RequestStep
  <2>5. /\ requests' \in [Requests -> Request]
        /\ requests'[q] = r
        /\ \A p \in Requests : p # q => requests'[p] = requests[p]
    BY <2>1, <2>3, <2>4, UpdateRequest
  <2>6. UNCHANGED <<listings, cases, actions, reports, decisions, deletedUsers>>
    BY <1>11 DEF ReportRead
  <2>7. TypeOK'
    BY <2>5, <2>6 DEF WellFormed, TypeOK
  <2> HIDE DEF r
  <2>8. ReferencesExist'
    BY <2>2, <2>3, <2>4, <2>5, <2>6 DEF WellFormed, ReferencesExist
  <2> QED BY <2>7, <2>8 DEF WellFormed
<1>12. ASSUME NEW q \in Requests, ReportMiss(q) PROVE WellFormed'
  <2> DEFINE r == [requests[q] EXCEPT !.pc = "done", !.answer = "not_found"]
  <2>1. /\ requests \in [Requests -> Request]
        /\ requests[q].pc = "unmatched"
        /\ requests' = [requests EXCEPT ![q] = r]
    BY <1>12 DEF WellFormed, TypeOK, ReportMiss
  <2>2. /\ r \in Request
        /\ r.pc = "done" /\ r.user = requests[q].user
        /\ r.listing = requests[q].listing
    BY <2>1 DEF Request, RequestStep, Answer
  <2>3. /\ requests' \in [Requests -> Request]
        /\ requests'[q] = r
        /\ \A p \in Requests : p # q => requests'[p] = requests[p]
    BY <2>1, <2>2, UpdateRequest
  <2>4. UNCHANGED <<listings, cases, actions, reports, decisions, deletedUsers>>
    BY <1>12 DEF ReportMiss
  <2>5. TypeOK'
    BY <2>3, <2>4 DEF WellFormed, TypeOK
  <2> HIDE DEF r
  <2>6. ReferencesExist'
    BY <2>1, <2>2, <2>3, <2>4 DEF WellFormed, ReferencesExist
  <2> QED BY <2>5, <2>6 DEF WellFormed
<1>13. ASSUME NEW q \in Requests, ReportReuse(q) PROVE WellFormed'
  <2> DEFINE c == requests[q].case
             u == requests[q].user
  <2>1. c \in DOMAIN cases /\ c \in Nat \ {0} /\ u \in Users
    BY <1>0, <1>13 DEF WellFormed, ReferencesExist, ReportReuse
  <2>2. AuditRow(c, u, "reported", "approved", "approved") \in Action
    BY <2>1 DEF AuditRow, Action, ActionKind, ModerationStatus
  <2>3. reports' \in [Requests -> Report] /\ requests' \in [Requests -> Request]
    <3>1. reports' = [reports EXCEPT ![q] = [status |-> "linked", case |-> c]]
      BY <1>13 DEF ReportReuse
    <3>2. requests' = [requests EXCEPT
                         ![q] = [requests[q] EXCEPT !.pc = "done",
                                                    !.answer = "created"]]
      BY <1>13 DEF ReportReuse
    <3>3. [status |-> "linked", case |-> c] \in Report
      BY <2>1 DEF Report, ReportStatus
    <3>4. [requests[q] EXCEPT !.pc = "done", !.answer = "created"] \in Request
      BY DEF WellFormed, TypeOK, Request, RequestStep, Answer
    <3> QED
      BY <3>1, <3>2, <3>3, <3>4 DEF WellFormed, TypeOK
  <2>4. TypeOK'
    BY <1>13, <2>2, <2>3, AppendRow DEF WellFormed, TypeOK, ReportReuse
  <2>5. \A i \in DOMAIN actions' : actions'[i].case \in DOMAIN cases'
    BY <1>0, <1>13, <2>1, <2>2, AppendRow
       DEF WellFormed, ReferencesExist, ReportReuse, AuditRow
  <2>6. ReferencesExist'
    BY <1>13, <2>1, <2>5
       DEF WellFormed, TypeOK, ReferencesExist, ReportReuse, Request, Report
  <2> QED BY <2>4, <2>6 DEF WellFormed
<1>14. ASSUME NEW q \in Requests, ReportOpen(q) PROVE WellFormed'
  <2> DEFINE c == Len(cases) + 1
             u == requests[q].user
             l == requests[q].listing
  <2>1. c \in Nat \ {0} /\ u \in Users /\ l \in Listings
    BY <1>0, <1>14 DEF WellFormed, ReferencesExist, ReportOpen
  <2>2. AuditRow(c, u, "reported", "approved", "approved") \in Action
    BY <2>1 DEF AuditRow, Action, ActionKind, ModerationStatus
  <2>3. NewCase(l) \in Case
    BY <2>1 DEF NewCase, Case, CaseStatus
  <2>4. /\ cases' \in Seq(Case)
        /\ DOMAIN cases' = DOMAIN cases \cup {c}
    BY <1>0, <1>14, <2>3, AppendRow DEF ReportOpen
  <2>5. /\ reports' \in [Requests -> Report]
        /\ requests' \in [Requests -> Request]
    <3>1. reports' = [reports EXCEPT ![q] = [status |-> "linked", case |-> c]]
      BY <1>14 DEF ReportOpen
    <3>2. requests' = [requests EXCEPT
                         ![q] = [requests[q] EXCEPT !.pc = "done",
                                                    !.answer = "not_found"]]
      BY <1>14 DEF ReportOpen
    <3>3. [status |-> "linked", case |-> c] \in Report
      BY <2>1 DEF Report, ReportStatus
    <3>4. reports' \in [Requests -> Report]
      BY <3>1, <3>3 DEF WellFormed, TypeOK
    <3>5. [requests[q] EXCEPT !.pc = "done", !.answer = "not_found"] \in Request
      BY DEF WellFormed, TypeOK, Request, RequestStep, Answer
    <3>6. requests' \in [Requests -> Request]
      BY <3>2, <3>5 DEF WellFormed, TypeOK
    <3> QED BY <3>4, <3>6
  <2>6. TypeOK'
    BY <1>14, <2>2, <2>4, <2>5, AppendRow DEF WellFormed, TypeOK, ReportOpen
  <2>7. \A i \in DOMAIN actions' : actions'[i].case \in DOMAIN cases'
    BY <1>0, <1>14, <2>2, <2>4, AppendRow
       DEF WellFormed, ReferencesExist, ReportOpen, AuditRow
  <2>8. ReferencesExist'
    BY <1>14, <2>4, <2>7
       DEF WellFormed, TypeOK, ReferencesExist, ReportOpen, Request, Report
  <2> QED BY <2>6, <2>8 DEF WellFormed
<1>15. CASE UNCHANGED vars
  BY <1>15 DEF WellFormed, TypeOK, ReferencesExist, vars
<1> QED
  BY <1>1, <1>2, <1>3, <1>4, <1>5, <1>6, <1>7, <1>8, <1>9, <1>10, <1>11, <1>12,
     <1>13, <1>14, <1>15
     DEF Next, OwnerNext, AccountNext, ModeratorNext, ReporterNext

(* Type correctness: the variables keep their types for ever.              *)
THEOREM TypeCorrect == Spec => []TypeOK
<1>1. Spec => []WellFormed
  BY InitWellFormed, NextWellFormed, PTL DEF Spec
<1>2. WellFormed => TypeOK
  BY DEF WellFormed
<1> QED
  BY <1>1, <1>2, PTL

-----------------------------------------------------------------------------
(* The queue: a submitted listing has one open case.                       *)
(*                                                                         *)
(* The claim is not inductive.  A submission opens a case, so a draft must *)
(* have none; a report opens a case on the strength of what it read, so    *)
(* the listing it read about must have been through review by then, and    *)
(* for that a listing must never come back to review.                      *)

DraftHasNoCase ==
  \A l \in Listings : listings[l].moderation = "draft" =>
    \A c \in DOMAIN cases : cases[c].listing # l

PendingHasSingleCase ==
  \A l \in Listings : listings[l].moderation = "pending_review" =>
    \E c \in DOMAIN cases : OpenCases(l) = {c}

ReportedIsReviewed ==
  \A q \in Requests :
    requests[q].pc # "idle" =>
      listings[requests[q].listing].moderation \in Verdicts

Queue ==
  /\ LifecycleFollowsModeration
  /\ DraftHasNoCase
  /\ PendingHasSingleCase
  /\ ReportedIsReviewed

LEMMA InitQueue == Init => Queue
  BY DEF Init, Queue, LifecycleFollowsModeration, DraftHasNoCase,
     PendingHasSingleCase, ReportedIsReviewed

(* Every step keeps the queue in order.                                    *)
LEMMA NextQueue == WellFormed /\ Queue /\ [Next]_vars => Queue'
<1> SUFFICES ASSUME WellFormed, Queue, [Next]_vars PROVE Queue'
  OBVIOUS
<1>0. /\ cases \in Seq(Case)
      /\ listings \in [Listings -> Listing]
      /\ DOMAIN cases = 1..Len(cases) /\ Len(cases) \in Nat
      /\ \A c \in DOMAIN cases : cases[c] \in Case
  BY LenProperties, RowOf DEF WellFormed, TypeOK
(* Steps that leave the listings and the cases alone.                      *)
<1>a. ASSUME UNCHANGED <<listings, cases, requests>> PROVE Queue'
  BY <1>a DEF Queue, LifecycleFollowsModeration, DraftHasNoCase,
              PendingHasSingleCase, ReportedIsReviewed, OpenCases
<1>b. ASSUME UNCHANGED <<listings, cases>>, ReportedIsReviewed' PROVE Queue'
  BY <1>b DEF Queue, LifecycleFollowsModeration, DraftHasNoCase,
              PendingHasSingleCase, OpenCases
(* Steps of a report that is already under way.                            *)
<1>c. ASSUME NEW q \in Requests, UNCHANGED <<listings, cases>>,
             requests[q].pc # "idle",
             requests'[q].listing = requests[q].listing,
             \A p \in Requests : p # q => requests'[p] = requests[p]
      PROVE  Queue'
  BY <1>b, <1>c DEF Queue, ReportedIsReviewed
<1>1. ASSUME NEW l \in Listings, SubmitDraft(l) PROVE Queue'
  <2> DEFINE new == Len(cases) + 1
  <2>1. NewCase(l) \in Case /\ NewCase(l).listing = l /\ NewCase(l).status = "open"
    BY DEF NewCase, Case, CaseStatus
  <2>2. /\ new \notin DOMAIN cases
        /\ DOMAIN cases' = DOMAIN cases \cup {new}
        /\ \A c \in DOMAIN cases : cases'[c] = cases[c]
        /\ cases'[new] = NewCase(l)
    BY <1>0, <1>1, <2>1, AppendRow DEF SubmitDraft
  <2>3. listings[l].moderation = "draft" /\ listings[l].lifecycle = "draft"
    BY <1>1 DEF SubmitDraft, IsDraft
  <2>4. /\ listings'[l].moderation = "pending_review"
        /\ listings'[l].lifecycle = "draft"
        /\ \A k \in Listings : k # l => listings'[k] = listings[k]
    BY <1>0, <1>1, <2>3 DEF SubmitDraft, Listing
  <2>5. OpenCases(l)' = {new}
    BY <2>1, <2>2, <2>3 DEF OpenCases, Queue, DraftHasNoCase
  <2>6. \A k \in Listings : k # l => OpenCases(k)' = OpenCases(k)
    BY <2>1, <2>2 DEF OpenCases
  <2>7. LifecycleFollowsModeration'
    BY <2>4 DEF Queue, LifecycleFollowsModeration
  <2>8. DraftHasNoCase'
    BY <2>1, <2>2, <2>4 DEF Queue, DraftHasNoCase
  <2>9. PendingHasSingleCase'
    BY <2>2, <2>4, <2>5, <2>6 DEF Queue, PendingHasSingleCase
  <2>10. ReportedIsReviewed'
    BY <1>1, <2>3, <2>4
       DEF Queue, ReportedIsReviewed, SubmitDraft, Verdicts, WellFormed,
           ReferencesExist
  <2> QED BY <2>7, <2>8, <2>9, <2>10 DEF Queue
<1>2. ASSUME NEW l \in Listings, DeleteDraft(l) PROVE Queue'
  <2>1. /\ listings[l].moderation = "draft"
        /\ listings'[l].moderation = "draft"
        /\ listings'[l].lifecycle = "deleted"
        /\ \A k \in Listings : k # l => listings'[k] = listings[k]
        /\ UNCHANGED <<cases, requests>>
    BY <1>0, <1>2 DEF DeleteDraft, IsDraft, Listing
  <2>2. LifecycleFollowsModeration'
    BY <2>1 DEF Queue, LifecycleFollowsModeration
  <2>3. DraftHasNoCase'
    BY <2>1 DEF Queue, DraftHasNoCase
  <2>4. PendingHasSingleCase'
    BY <2>1 DEF Queue, PendingHasSingleCase, OpenCases
  <2>5. ReportedIsReviewed'
    BY <2>1 DEF Queue, ReportedIsReviewed, Verdicts, WellFormed, ReferencesExist
  <2> QED BY <2>2, <2>3, <2>4, <2>5 DEF Queue
<1>3. ASSUME NEW u \in Users, DeleteAccount(u) PROVE Queue'
  BY <1>3, <1>a DEF DeleteAccount
<1>4. ASSUME NEW m \in Moderators, NEW c \in DOMAIN cases, ClaimCase(m, c)
      PROVE  Queue'
  <2>1. /\ DOMAIN cases' = DOMAIN cases
        /\ \A d \in DOMAIN cases : /\ cases'[d].listing = cases[d].listing
                                   /\ cases'[d].status = cases[d].status
        /\ UNCHANGED <<listings, requests>>
    BY <1>0, <1>4 DEF ClaimCase, Case
  <2>2. \A l \in Listings : OpenCases(l)' = OpenCases(l)
    BY <2>1 DEF OpenCases
  <2> QED
    BY <2>1, <2>2 DEF Queue, LifecycleFollowsModeration, DraftHasNoCase,
                      PendingHasSingleCase, ReportedIsReviewed
<1>5. ASSUME NEW m \in Moderators, NEW c \in DOMAIN cases, CommentCase(m, c)
      PROVE  Queue'
  BY <1>5, <1>a DEF CommentCase
<1>6. ASSUME NEW m \in Moderators, NEW c \in DOMAIN cases,
             NEW verdict \in Verdicts, DecideRead(m, c, verdict)
      PROVE  Queue'
  BY <1>6, <1>a DEF DecideRead
<1>7. ASSUME NEW m \in Moderators, DecideWrite(m) PROVE Queue'
  <2> DEFINE c == decisions[m].case
             verdict == decisions[m].verdict
             l == cases[c].listing
  <2>1. c \in DOMAIN cases /\ verdict \in Verdicts /\ l \in Listings
    BY <1>0, <1>7 DEF WellFormed, ReferencesExist, DecideWrite, Case
  <2>2. /\ DOMAIN cases' = DOMAIN cases
        /\ \A d \in DOMAIN cases : cases'[d].listing = cases[d].listing
        /\ \A d \in DOMAIN cases : d # c => cases'[d] = cases[d]
        /\ cases'[c].status # "open"
    BY <1>0, <1>7, <2>1 DEF DecideWrite, Verdicts
  <2>3. /\ listings'[l].moderation = verdict
        /\ listings'[l].lifecycle = LifecycleOf(verdict)
        /\ \A k \in Listings : k # l => listings'[k] = listings[k]
        /\ UNCHANGED requests
    BY <1>0, <1>7, <2>1 DEF DecideWrite
  <2>4. \A k \in Listings : k # l => OpenCases(k)' = OpenCases(k)
    BY <2>1, <2>2 DEF OpenCases
  <2>5. LifecycleFollowsModeration'
    BY <2>1, <2>3 DEF Queue, LifecycleFollowsModeration, LifecycleOf, Verdicts
  <2>6. DraftHasNoCase'
    BY <2>1, <2>2, <2>3 DEF Queue, DraftHasNoCase, Verdicts
  <2>7. PendingHasSingleCase'
    BY <2>1, <2>2, <2>3, <2>4 DEF Queue, PendingHasSingleCase, Verdicts
  <2>8. ReportedIsReviewed'
    BY <2>1, <2>3 DEF Queue, ReportedIsReviewed, WellFormed, ReferencesExist
  <2> QED BY <2>5, <2>6, <2>7, <2>8 DEF Queue
<1>8. ASSUME NEW m \in Moderators, DecideMiss(m) PROVE Queue'
  BY <1>8, <1>a DEF DecideMiss
<1>9. ASSUME NEW q \in Requests, NEW u \in Users, NEW l \in Listings,
             ReportStart(q, u, l)
      PROVE  Queue'
  BY <1>9, <1>b DEF ReportStart, Reportable, Queue, ReportedIsReviewed, Verdicts,
                    WellFormed, TypeOK
<1>10. ASSUME NEW q \in Requests, ReportFindExisting(q) PROVE Queue'
  BY <1>10, <1>c DEF ReportFindExisting, WellFormed, TypeOK, Request
<1>11. ASSUME NEW q \in Requests, ReportRead(q) PROVE Queue'
  BY <1>11, <1>c DEF ReportRead, WellFormed, TypeOK, Request
<1>12. ASSUME NEW q \in Requests, ReportMiss(q) PROVE Queue'
  BY <1>12, <1>c DEF ReportMiss, WellFormed, TypeOK, Request
<1>13. ASSUME NEW q \in Requests, ReportReuse(q) PROVE Queue'
  BY <1>13, <1>c DEF ReportReuse, WellFormed, TypeOK, Request
<1>14. ASSUME NEW q \in Requests, ReportOpen(q) PROVE Queue'
  <2> DEFINE new == Len(cases) + 1
             l == requests[q].listing
  <2>1. l \in Listings /\ listings[l].moderation \in Verdicts
    BY <1>14 DEF ReportOpen, WellFormed, ReferencesExist, Queue, ReportedIsReviewed
  <2>2. NewCase(l) \in Case /\ NewCase(l).listing = l
    BY <2>1 DEF NewCase, Case, CaseStatus
  <2>3. /\ new \notin DOMAIN cases
        /\ DOMAIN cases' = DOMAIN cases \cup {new}
        /\ \A c \in DOMAIN cases : cases'[c] = cases[c]
        /\ cases'[new] = NewCase(l)
    BY <1>0, <1>14, <2>2, AppendRow DEF ReportOpen
  <2>4. UNCHANGED listings
    BY <1>14 DEF ReportOpen
  <2>5. \A k \in Listings : k # l => OpenCases(k)' = OpenCases(k)
    BY <2>2, <2>3 DEF OpenCases
  <2>6. LifecycleFollowsModeration'
    BY <2>4 DEF Queue, LifecycleFollowsModeration
  <2>7. DraftHasNoCase'
    BY <2>1, <2>2, <2>3, <2>4 DEF Queue, DraftHasNoCase, Verdicts
  <2>8. PendingHasSingleCase'
    BY <2>1, <2>3, <2>4, <2>5 DEF Queue, PendingHasSingleCase, Verdicts
  <2>9. ReportedIsReviewed'
    BY <1>14, <2>4 DEF ReportOpen, Queue, ReportedIsReviewed, WellFormed, TypeOK,
                       Request
  <2> QED BY <2>6, <2>7, <2>8, <2>9 DEF Queue
<1>15. CASE UNCHANGED vars
  BY <1>15, <1>a DEF vars
<1> QED
  BY <1>1, <1>2, <1>3, <1>4, <1>5, <1>6, <1>7, <1>8, <1>9, <1>10, <1>11, <1>12,
     <1>13, <1>14, <1>15
     DEF Next, OwnerNext, AccountNext, ModeratorNext, ReporterNext

LEMMA QueueAlways == Spec => [](WellFormed /\ Queue)
  BY InitWellFormed, InitQueue, NextWellFormed, NextQueue, PTL DEF Spec

(* A listing waiting for review has exactly one open case, in every state  *)
(* any interleaving of submissions, decisions and reports can reach.       *)
THEOREM PendingInQueueOnce == Spec => []PendingHasOneOpenCase
<1>1. Queue => PendingHasOneOpenCase
  BY FS_Singleton DEF Queue, PendingHasSingleCase, PendingHasOneOpenCase
<1> QED
  BY <1>1, QueueAlways, PTL

(* Approved means published, and deleted means draft, at all times.        *)
THEOREM StatusColumnsAgree == Spec => []LifecycleFollowsModeration
<1>1. Queue => LifecycleFollowsModeration
  BY DEF Queue
<1> QED
  BY <1>1, QueueAlways, PTL

-----------------------------------------------------------------------------
(* The refinement: every statement is a step of ListingLifecycle or leaves *)
(* every listing's phase as it was.                                        *)

Phase == [l \in Listings |-> PhaseOf(l)]

(* A statement that touches at most one listing moves only that phase.     *)
LEMMA OtherPhases ==
  ASSUME NEW l \in Listings,
         \A k \in Listings : k # l => listings'[k] = listings[k]
  PROVE  Phase' = [Phase EXCEPT ![l] = PhaseOf(l)']
  BY DEF Phase, PhaseOf

LEMMA StepImplements ==
  WellFormed /\ Queue /\ [Next]_vars => [Lifecycle!Next]_Phase
<1> SUFFICES ASSUME WellFormed, Queue, [Next]_vars
             PROVE  [Lifecycle!Next]_Phase
  OBVIOUS
<1>0. /\ listings \in [Listings -> Listing]
      /\ \A c \in DOMAIN cases : cases[c] \in Case
  BY RowOf DEF WellFormed, TypeOK
<1>a. ASSUME UNCHANGED listings PROVE UNCHANGED Phase
  BY <1>a DEF Phase, PhaseOf
<1>1. ASSUME NEW l \in Listings, SubmitDraft(l) PROVE Lifecycle!Next
  <2>1. PhaseOf(l) = "draft"
    BY <1>1 DEF SubmitDraft, IsDraft, PhaseOf
  <2>2. PhaseOf(l)' = "review"
    BY <1>0, <1>1 DEF SubmitDraft, IsDraft, PhaseOf, Listing
  <2>3. Phase' = [Phase EXCEPT ![l] = "review"]
    BY <1>0, <1>1, <2>2, OtherPhases DEF SubmitDraft
  <2> QED
    BY <2>1, <2>3 DEF Lifecycle!Next, Lifecycle!Submit, Phase
<1>2. ASSUME NEW l \in Listings, DeleteDraft(l) PROVE Lifecycle!Next
  <2>1. PhaseOf(l) = "draft"
    BY <1>2 DEF DeleteDraft, IsDraft, PhaseOf
  <2>2. PhaseOf(l)' = "discarded"
    BY <1>0, <1>2 DEF DeleteDraft, PhaseOf, Listing
  <2>3. Phase' = [Phase EXCEPT ![l] = "discarded"]
    BY <1>0, <1>2, <2>2, OtherPhases DEF DeleteDraft
  <2> QED
    BY <2>1, <2>3 DEF Lifecycle!Next, Lifecycle!Discard, Phase
<1>3. ASSUME NEW m \in Moderators, DecideWrite(m)
      PROVE  Lifecycle!Next \/ UNCHANGED Phase
  <2> DEFINE c == decisions[m].case
             verdict == decisions[m].verdict
  <2>0. c \in DOMAIN cases /\ verdict \in Verdicts
    BY <1>3 DEF WellFormed, ReferencesExist, DecideWrite
  <2>1. PICK l \in Listings : l = cases[c].listing
    BY <1>0, <2>0 DEF Case
  <2>2. /\ listings[l].moderation \in {"pending_review", "approved"}
        /\ listings[l].lifecycle \in {"draft", "published"}
    BY <1>3, <2>1 DEF DecideWrite, Decidable
  <2>3. /\ listings[l].moderation = "approved" => PhaseOf(l) = "public"
        /\ listings[l].moderation = "pending_review" => PhaseOf(l) = "review"
    BY <2>2 DEF PhaseOf
  <2>4. /\ listings'[l] = [moderation |-> verdict,
                           lifecycle |-> LifecycleOf(verdict)]
        /\ \A k \in Listings : k # l => listings'[k] = listings[k]
    BY <1>0, <1>3, <2>1 DEF DecideWrite
  <2>5. PhaseOf(l)' = IF verdict = "approved" THEN "public" ELSE "removed"
    BY <2>0, <2>4 DEF PhaseOf, LifecycleOf, Verdicts
  <2>6. Phase' = [Phase EXCEPT ![l] = PhaseOf(l)']
    BY <2>1, <2>4, OtherPhases
  <2>7. Phase[l] = PhaseOf(l) /\ Phase \in [Listings -> {PhaseOf(k) : k \in Listings}]
    BY <2>1 DEF Phase
  <2>8. CASE verdict = "approved" /\ listings[l].moderation = "approved"
    BY <2>1, <2>3, <2>5, <2>6, <2>7, <2>8
  <2>9. CASE verdict = "approved" /\ listings[l].moderation = "pending_review"
    BY <2>1, <2>3, <2>5, <2>6, <2>7, <2>9
       DEF Lifecycle!Next, Lifecycle!Publish, Phase
  <2>10. CASE verdict # "approved"
    BY <2>1, <2>2, <2>3, <2>5, <2>6, <2>7, <2>10
       DEF Lifecycle!Next, Lifecycle!TakeDown, Phase
  <2> QED BY <2>2, <2>8, <2>9, <2>10
<1>4. ASSUME NEW u \in Users, DeleteAccount(u) PROVE UNCHANGED Phase
  BY <1>4, <1>a DEF DeleteAccount
<1>5. ASSUME NEW m \in Moderators, NEW c \in DOMAIN cases,
             ClaimCase(m, c) \/ CommentCase(m, c)
      PROVE  UNCHANGED Phase
  BY <1>5, <1>a DEF ClaimCase, CommentCase
<1>6. ASSUME NEW m \in Moderators, NEW c \in DOMAIN cases,
             NEW verdict \in Verdicts, DecideRead(m, c, verdict)
      PROVE  UNCHANGED Phase
  BY <1>6, <1>a DEF DecideRead
<1>7. ASSUME NEW m \in Moderators, DecideMiss(m) PROVE UNCHANGED Phase
  BY <1>7, <1>a DEF DecideMiss
<1>8. ASSUME NEW q \in Requests, NEW u \in Users, NEW l \in Listings,
             ReportStart(q, u, l)
      PROVE  UNCHANGED Phase
  BY <1>8, <1>a DEF ReportStart
<1>9. ASSUME NEW q \in Requests,
             \/ ReportFindExisting(q) \/ ReportRead(q) \/ ReportMiss(q)
             \/ ReportReuse(q) \/ ReportOpen(q)
      PROVE  UNCHANGED Phase
  BY <1>9, <1>a DEF ReportFindExisting, ReportRead, ReportMiss, ReportReuse,
                    ReportOpen
<1>10. CASE UNCHANGED vars
  BY <1>10, <1>a DEF vars
<1> QED
  BY <1>1, <1>2, <1>3, <1>4, <1>5, <1>6, <1>7, <1>8, <1>9, <1>10
     DEF Next, OwnerNext, AccountNext, ModeratorNext, ReporterNext

(* The moderation workflow implements the promised life of a listing.      *)
THEOREM ModerationImplementsLifecycle == Spec => ImplementsLifecycle
<1>1. Init => Lifecycle!Init
  BY DEF Init, Lifecycle!Init, PhaseOf
<1>2. WellFormed /\ Queue /\ [Next]_vars
        => [Lifecycle!Next]_([l \in Listings |-> PhaseOf(l)])
  BY StepImplements DEF Phase
<1> QED
  BY <1>1, <1>2, QueueAlways, PTL DEF Spec, ImplementsLifecycle, Lifecycle!Spec

(* A listing that was rejected or suspended is never public again: no      *)
(* operation of the code brings it back, for its owner or for a moderator. *)
THEOREM TakenDownForGood == Spec => Lifecycle!RemovedIsFinal
<1> DEFINE P == [l \in Listings |-> PhaseOf(l)]
<1>1. [Lifecycle!Next]_P =>
        [\A l \in Listings : P[l] = "removed" => P'[l] = "removed"]_P
  <2> SUFFICES ASSUME Lifecycle!Next, NEW l \in Listings, P[l] = "removed"
               PROVE  P'[l] = "removed"
    OBVIOUS
  <2> QED
    BY DEF Lifecycle!Next, Lifecycle!Submit, Lifecycle!Discard,
           Lifecycle!Publish, Lifecycle!TakeDown
<1> QED
  BY <1>1, ModerationImplementsLifecycle, PTL
     DEF ImplementsLifecycle, Lifecycle!Spec, Lifecycle!RemovedIsFinal

-----------------------------------------------------------------------------
(* Claims: a case belongs to who claimed it, and a closed case is closed.  *)

LEMMA StepKeepsClaims ==
  WellFormed /\ [Next]_vars =>
    \A c \in DOMAIN cases :
      /\ cases[c].assignee # None => cases'[c].assignee = cases[c].assignee
      /\ cases[c].status # "open" => cases'[c] = cases[c]
<1> SUFFICES ASSUME WellFormed, [Next]_vars, NEW c \in DOMAIN cases
             PROVE  /\ cases[c].assignee # None =>
                         cases'[c].assignee = cases[c].assignee
                    /\ cases[c].status # "open" => cases'[c] = cases[c]
  OBVIOUS
<1>0. /\ cases \in Seq(Case)
      /\ \A d \in DOMAIN cases : cases[d] \in Case
  BY RowOf DEF WellFormed, TypeOK
<1>1. ASSUME NEW l \in Listings, SubmitDraft(l) PROVE cases'[c] = cases[c]
  <2>1. NewCase(l) \in Case
    BY DEF NewCase, Case, CaseStatus
  <2> QED BY <1>0, <1>1, <2>1, AppendRow DEF SubmitDraft
<1>2. ASSUME NEW m \in Moderators, NEW d \in DOMAIN cases, ClaimCase(m, d)
      PROVE  /\ cases[c].assignee # None =>
                  cases'[c].assignee = cases[c].assignee
             /\ cases[c].status # "open" => cases'[c] = cases[c]
  BY <1>0, <1>2 DEF ClaimCase, Case
<1>3. ASSUME NEW m \in Moderators, DecideWrite(m)
      PROVE  /\ cases[c].assignee # None =>
                  cases'[c].assignee = cases[c].assignee
             /\ cases[c].status # "open" => cases'[c] = cases[c]
  BY <1>0, <1>3 DEF DecideWrite, Decidable
<1>4. ASSUME NEW q \in Requests, ReportOpen(q) PROVE cases'[c] = cases[c]
  <2>1. requests[q].listing \in Listings
    BY <1>4 DEF ReportOpen, WellFormed, ReferencesExist
  <2>2. NewCase(requests[q].listing) \in Case
    BY <2>1 DEF NewCase, Case, CaseStatus
  <2> QED BY <1>0, <1>4, <2>2, AppendRow DEF ReportOpen
<1>5. CASE UNCHANGED cases
  BY <1>5
<1> QED
  BY <1>1, <1>2, <1>3, <1>4, <1>5
     DEF Next, OwnerNext, AccountNext, ModeratorNext, ReporterNext, DeleteDraft,
         DeleteAccount, CommentCase, DecideRead, DecideMiss, ReportStart,
         ReportFindExisting, ReportRead, ReportMiss, ReportReuse, vars

(* A claimed case stays with its moderator and a closed case never changes.*)
THEOREM ClaimsAreExclusive == Spec => ClaimIsExclusive
<1>1. Spec => []WellFormed
  BY QueueAlways, PTL
<1> QED
  BY <1>1, StepKeepsClaims, PTL DEF Spec, ClaimIsExclusive

-----------------------------------------------------------------------------
(* The audit table.  Every step appends at most one row to it, and only a  *)
(* submission and a decision append one that says what became of a         *)
(* listing.                                                                *)

StatusKinds == {"opened"} \cup Verdicts

(* The step leaves the decided cases as they are, opens cases at most, and *)
(* appends no audit row of these kinds.                                    *)
Unrecorded(kinds) ==
  /\ DOMAIN cases \subseteq DOMAIN cases'
  /\ \A c \in DOMAIN cases :
       /\ cases'[c].listing = cases[c].listing
       /\ cases'[c].status = cases[c].status
       /\ cases[c].status # "open" => cases'[c] = cases[c]
  /\ \A c \in DOMAIN cases' : c \notin DOMAIN cases => cases'[c].status = "open"
  /\ \/ UNCHANGED actions
     \/ \E row \in Action : /\ row.kind \notin kinds
                            /\ actions' = Append(actions, row)

StatusesKept ==
  \A l \in Listings : listings'[l].moderation = listings[l].moderation

(* What a step can be to the audit table.                                  *)
LEMMA StepKinds ==
  WellFormed /\ [Next]_vars =>
    \/ Unrecorded(StatusKinds) /\ StatusesKept
    \/ \E l \in Listings : SubmitDraft(l) /\ Unrecorded(Verdicts)
    \/ \E m \in Moderators : DecideWrite(m)
<1> SUFFICES ASSUME WellFormed, [Next]_vars
             PROVE  \/ Unrecorded(StatusKinds) /\ StatusesKept
                    \/ \E l \in Listings : SubmitDraft(l) /\ Unrecorded(Verdicts)
                    \/ \E m \in Moderators : DecideWrite(m)
  OBVIOUS
<1> USE AccountsAssumption
<1>0. /\ cases \in Seq(Case)
      /\ DOMAIN cases = 1..Len(cases) /\ Len(cases) \in Nat
      /\ \A c \in DOMAIN cases : cases[c] \in Case
      /\ listings \in [Listings -> Listing]
  BY LenProperties, RowOf DEF WellFormed, TypeOK
<1>a. ASSUME UNCHANGED <<listings, cases, actions>>
      PROVE  Unrecorded(StatusKinds) /\ StatusesKept
  BY <1>a DEF Unrecorded, StatusesKept
<1>b. ASSUME UNCHANGED <<listings, cases>>,
             NEW row \in Action, row.kind \notin StatusKinds,
             actions' = Append(actions, row)
      PROVE  Unrecorded(StatusKinds) /\ StatusesKept
  BY <1>b DEF Unrecorded, StatusesKept
<1>1. ASSUME NEW l \in Listings, SubmitDraft(l)
      PROVE  SubmitDraft(l) /\ Unrecorded(Verdicts)
  <2> DEFINE row == AuditRow(Len(cases) + 1, Owner[l], "opened",
                             "draft", "pending_review")
  <2>1. NewCase(l) \in Case /\ NewCase(l).status = "open"
    BY DEF NewCase, Case, CaseStatus
  <2>2. row \in Action /\ row.kind \notin Verdicts
    BY <1>0 DEF AuditRow, Action, ActionKind, ModerationStatus, Verdicts
  <2>3. /\ DOMAIN cases' = DOMAIN cases \cup {Len(cases) + 1}
        /\ \A c \in DOMAIN cases : cases'[c] = cases[c]
        /\ cases'[Len(cases) + 1] = NewCase(l)
    BY <1>0, <1>1, <2>1, AppendRow DEF SubmitDraft
  <2>4. actions' = Append(actions, row)
    BY <1>1 DEF SubmitDraft
  <2> HIDE DEF row
  <2> QED BY <1>1, <2>1, <2>2, <2>3, <2>4 DEF Unrecorded
<1>2. ASSUME NEW l \in Listings, DeleteDraft(l)
      PROVE  Unrecorded(StatusKinds) /\ StatusesKept
  BY <1>0, <1>2 DEF DeleteDraft, Unrecorded, StatusesKept, Listing
<1>3. ASSUME NEW u \in Users, DeleteAccount(u)
      PROVE  Unrecorded(StatusKinds) /\ StatusesKept
  BY <1>3, <1>a DEF DeleteAccount
<1>4. ASSUME NEW m \in Moderators, NEW c \in DOMAIN cases, ClaimCase(m, c)
      PROVE  Unrecorded(StatusKinds) /\ StatusesKept
  <2> DEFINE row == AuditRow(c, m, "assigned", "null", "null")
  <2>1. row \in Action /\ row.kind \notin StatusKinds
    BY <1>0 DEF AuditRow, Action, ActionKind, StatusKinds, Verdicts
  <2>2. /\ DOMAIN cases' = DOMAIN cases
        /\ \A d \in DOMAIN cases :
             /\ cases'[d].listing = cases[d].listing
             /\ cases'[d].status = cases[d].status
             /\ cases[d].status # "open" => cases'[d] = cases[d]
    BY <1>0, <1>4 DEF ClaimCase, Case
  <2>3. actions' = Append(actions, row) /\ UNCHANGED listings
    BY <1>4 DEF ClaimCase
  <2> HIDE DEF row
  <2> QED BY <2>1, <2>2, <2>3 DEF Unrecorded, StatusesKept
<1>5. ASSUME NEW m \in Moderators, NEW c \in DOMAIN cases, CommentCase(m, c)
      PROVE  Unrecorded(StatusKinds) /\ StatusesKept
  <2>1. AuditRow(c, m, "commented", "null", "null") \in Action
    BY <1>0 DEF AuditRow, Action, ActionKind
  <2>2. AuditRow(c, m, "commented", "null", "null").kind \notin StatusKinds
    BY DEF AuditRow, StatusKinds, Verdicts
  <2> QED BY <1>5, <1>b, <2>1, <2>2 DEF CommentCase
<1>6. ASSUME NEW m \in Moderators, NEW c \in DOMAIN cases,
             NEW verdict \in Verdicts, DecideRead(m, c, verdict)
      PROVE  Unrecorded(StatusKinds) /\ StatusesKept
  BY <1>6, <1>a DEF DecideRead
<1>7. ASSUME NEW m \in Moderators, DecideMiss(m)
      PROVE  Unrecorded(StatusKinds) /\ StatusesKept
  BY <1>7, <1>a DEF DecideMiss
<1>8. ASSUME NEW q \in Requests, NEW u \in Users, NEW l \in Listings,
             ReportStart(q, u, l)
      PROVE  Unrecorded(StatusKinds) /\ StatusesKept
  BY <1>8, <1>a DEF ReportStart
<1>9. ASSUME NEW q \in Requests,
             ReportFindExisting(q) \/ ReportRead(q) \/ ReportMiss(q)
      PROVE  Unrecorded(StatusKinds) /\ StatusesKept
  BY <1>9, <1>a DEF ReportFindExisting, ReportRead, ReportMiss
<1>10. ASSUME NEW q \in Requests, ReportReuse(q)
       PROVE  Unrecorded(StatusKinds) /\ StatusesKept
  <2> DEFINE row == AuditRow(requests[q].case, requests[q].user, "reported",
                             "approved", "approved")
  <2>1. requests[q].case \in Nat \ {0} /\ requests[q].user \in Users
    BY <1>0, <1>10 DEF WellFormed, ReferencesExist, ReportReuse
  <2>2. row \in Action /\ row.kind \notin StatusKinds
    BY <2>1 DEF AuditRow, Action, ActionKind, ModerationStatus, StatusKinds,
                Verdicts
  <2>3. actions' = Append(actions, row) /\ UNCHANGED <<listings, cases>>
    BY <1>10 DEF ReportReuse
  <2> HIDE DEF row
  <2> QED BY <1>b, <2>2, <2>3
<1>11. ASSUME NEW q \in Requests, ReportOpen(q)
       PROVE  Unrecorded(StatusKinds) /\ StatusesKept
  <2> DEFINE l == requests[q].listing
             row == AuditRow(Len(cases) + 1, requests[q].user, "reported",
                             "approved", "approved")
  <2>1. l \in Listings /\ requests[q].user \in Users
    BY <1>11 DEF WellFormed, ReferencesExist, ReportOpen
  <2>2. row \in Action /\ row.kind \notin StatusKinds
    BY <1>0, <2>1 DEF AuditRow, Action, ActionKind, ModerationStatus,
                      StatusKinds, Verdicts
  <2>3. NewCase(l) \in Case /\ NewCase(l).status = "open"
    BY <2>1 DEF NewCase, Case, CaseStatus
  <2>4. /\ DOMAIN cases' = DOMAIN cases \cup {Len(cases) + 1}
        /\ \A c \in DOMAIN cases : cases'[c] = cases[c]
        /\ cases'[Len(cases) + 1] = NewCase(l)
    BY <1>0, <1>11, <2>3, AppendRow DEF ReportOpen
  <2>5. actions' = Append(actions, row) /\ UNCHANGED listings
    BY <1>11 DEF ReportOpen
  <2> HIDE DEF row
  <2> QED BY <2>2, <2>3, <2>4, <2>5 DEF Unrecorded, StatusesKept
<1>12. CASE UNCHANGED vars
  BY <1>12, <1>a DEF vars
<1> QED
  BY <1>1, <1>2, <1>3, <1>4, <1>5, <1>6, <1>7, <1>8, <1>9, <1>10, <1>11, <1>12
     DEF Next, OwnerNext, AccountNext, ModeratorNext, ReporterNext

-----------------------------------------------------------------------------
(* Verdicts.                                                               *)

Rulings(c) ==
  {i \in DOMAIN actions : actions[i].case = c /\ actions[i].kind \in Verdicts}

VerdictOf(c) ==
  IF cases[c].status = "open" THEN Rulings(c) = {}
  ELSE \E i \in Rulings(c) : /\ Rulings(c) = {i}
                             /\ actions[i].kind = cases[c].status
                             /\ actions[i].actor = cases[c].assignee

(* The rows that were appended to actions leave the earlier ones as they   *)
(* were.                                                                   *)
LEMMA ActionsGrow ==
  ASSUME WellFormed, NEW row \in Action,
         UNCHANGED actions \/ actions' = Append(actions, row)
  PROVE  \A i \in DOMAIN actions : i \in DOMAIN actions' /\ actions'[i] = actions[i]
  BY AppendRow DEF WellFormed, TypeOK

(* A step that records no verdict changes nobody's rulings.                *)
LEMMA RulingsKept ==
  ASSUME WellFormed, Unrecorded(Verdicts)
  PROVE  \A c : Rulings(c)' = Rulings(c)
<1> SUFFICES ASSUME NEW c PROVE Rulings(c)' = Rulings(c)
  OBVIOUS
<1>1. CASE UNCHANGED actions
  BY <1>1 DEF Rulings
<1>2. ASSUME NEW row \in Action, row.kind \notin Verdicts,
             actions' = Append(actions, row)
      PROVE  Rulings(c)' = Rulings(c)
  <2>1. /\ DOMAIN actions' = DOMAIN actions \cup {Len(actions) + 1}
        /\ \A i \in DOMAIN actions : actions'[i] = actions[i]
        /\ actions'[Len(actions) + 1] = row
    BY <1>2, AppendRow DEF WellFormed, TypeOK
  <2> QED BY <1>2, <2>1 DEF Rulings
<1> QED
  BY <1>1, <1>2 DEF Unrecorded

LEMMA NextVerdictRecorded ==
  WellFormed /\ VerdictRecorded /\ [Next]_vars => VerdictRecorded'
<1> SUFFICES ASSUME WellFormed, VerdictRecorded, [Next]_vars,
                    NEW c \in DOMAIN cases'
             PROVE  VerdictOf(c)'
  BY DEF VerdictRecorded, VerdictOf, Rulings
<1>0. /\ \A d \in DOMAIN cases : VerdictOf(d)
      /\ cases \in Seq(Case) /\ actions \in Seq(Action)
      /\ \A d \in DOMAIN cases : cases[d] \in Case
  BY RowOf DEF VerdictRecorded, VerdictOf, Rulings, WellFormed, TypeOK
(* Only rulings on rows of the table exist.                                *)
<1>a. \A d : Rulings(d) # {} => d \in DOMAIN cases
  BY DEF Rulings, WellFormed, ReferencesExist
<1>1. ASSUME Unrecorded(Verdicts) PROVE VerdictOf(c)'
  <2>1. \A d : Rulings(d)' = Rulings(d)
    BY <1>1, RulingsKept
  <2>2. CASE c \notin DOMAIN cases
    BY <1>1, <1>a, <2>1, <2>2 DEF Unrecorded, VerdictOf
  <2>3. CASE c \in DOMAIN cases /\ cases[c].status = "open"
    BY <1>0, <1>1, <2>1, <2>3 DEF Unrecorded, VerdictOf
  <2>4. CASE c \in DOMAIN cases /\ cases[c].status # "open"
    <3>1. cases'[c] = cases[c]
      BY <1>1, <2>4 DEF Unrecorded
    <3>2. PICK i \in Rulings(c) : /\ Rulings(c) = {i}
                                  /\ actions[i].kind = cases[c].status
                                  /\ actions[i].actor = cases[c].assignee
      BY <1>0, <2>4 DEF VerdictOf
    <3>3. i \in DOMAIN actions /\ actions'[i] = actions[i]
      BY <1>1, <3>2, ActionsGrow DEF Rulings, Unrecorded
    <3> QED BY <2>1, <2>4, <3>1, <3>2, <3>3 DEF VerdictOf
  <2> QED BY <2>2, <2>3, <2>4
<1>2. ASSUME NEW m \in Moderators, DecideWrite(m) PROVE VerdictOf(c)'
  <2> DEFINE d == decisions[m].case
             verdict == decisions[m].verdict
             row == AuditRow(d, m, verdict, FromStatus(d), verdict)
             n == Len(actions) + 1
  <2>1. d \in DOMAIN cases /\ verdict \in Verdicts /\ cases[d].status = "open"
    BY <1>2 DEF WellFormed, ReferencesExist, DecideWrite, Decidable
  <2>2. /\ row.case = d /\ row.kind = verdict /\ row.actor = m
        /\ row \in Action
    <3>1. d \in Nat \ {0} /\ cases[d].listing \in Listings
      BY <1>0, <2>1, RowOf DEF Case
    <3> QED
      BY <2>1, <3>1, AccountsAssumption
         DEF AuditRow, Action, ActionKind, FromStatus, WellFormed, TypeOK,
             Listing, ModerationStatus, Verdicts
  <2>3. /\ DOMAIN actions' = DOMAIN actions \cup {n}
        /\ n \notin DOMAIN actions
        /\ \A i \in DOMAIN actions : actions'[i] = actions[i]
        /\ actions'[n] = row
    BY <1>0, <1>2, <2>2, AppendRow DEF DecideWrite
  <2>4. /\ DOMAIN cases' = DOMAIN cases
        /\ \A e \in DOMAIN cases : e # d => cases'[e] = cases[e]
        /\ cases'[d].status = verdict /\ cases'[d].assignee = m
    BY <1>0, <1>2, <2>1 DEF DecideWrite
  <2> HIDE DEF row, d, verdict, n
  <2>5. CASE c = d
    <3>1. Rulings(c) = {}
      BY <1>0, <2>1, <2>5 DEF VerdictOf
    <3>2. Rulings(c)' = {n}
      BY <2>1, <2>2, <2>3, <2>5, <3>1 DEF Rulings
    <3>3. /\ cases'[c].status = verdict /\ cases'[c].assignee = m
          /\ verdict # "open"
      BY <2>1, <2>4, <2>5 DEF Verdicts
    <3>4. actions'[n].kind = verdict /\ actions'[n].actor = m
      BY <2>2, <2>3
    <3> QED BY <3>2, <3>3, <3>4 DEF VerdictOf
  <2>6. CASE c # d
    <3>1. Rulings(c)' = Rulings(c)
      BY <2>2, <2>3, <2>6 DEF Rulings
    <3>2. c \in DOMAIN cases /\ cases'[c] = cases[c] /\ VerdictOf(c)
      BY <1>0, <2>4, <2>6
    <3>3. \A i \in Rulings(c) : actions'[i] = actions[i]
      BY <2>3 DEF Rulings
    <3> QED BY <3>1, <3>2, <3>3 DEF VerdictOf
  <2> QED BY <2>5, <2>6
<1>3. Unrecorded(StatusKinds) => Unrecorded(Verdicts)
  BY DEF Unrecorded, StatusKinds
<1> QED
  BY <1>1, <1>2, <1>3, StepKinds

(* A closed case has exactly one verdict in the audit table, by the        *)
(* moderator it is assigned to, and an open case has none, however many    *)
(* moderators claim and decide at the same time.                           *)
THEOREM CasesAreRuledOnce == Spec => []VerdictRecorded
<1>1. Init => VerdictRecorded
  BY DEF Init, VerdictRecorded
<1>2. Spec => []WellFormed
  BY QueueAlways, PTL
<1> QED
  BY <1>1, <1>2, NextVerdictRecorded, PTL DEF Spec

-----------------------------------------------------------------------------
(* Reports.  A decision settles the reports it read when it started, so    *)
(* they must still be reports of its case when it writes: a report gets    *)
(* its case in the step that makes its request done, and keeps it.         *)

ReportsInPlace ==
  /\ \A q \in Requests : requests[q].pc # "done" => reports[q].status = "none"
  /\ \A m \in Moderators : \A q \in decisions[m].reports :
       reports[q].case = decisions[m].case

LEMMA InitReports == Init => ReportsInPlace /\ ReportsFollowVerdict
  BY DEF Init, ReportsInPlace, ReportsFollowVerdict, NoDecision

(* The insert of a report changes no other report, and none that a running *)
(* decision has read.                                                      *)
LEMMA ReportInserted ==
  ASSUME WellFormed, ReportsInPlace, NEW q \in Requests,
         ReportReuse(q) \/ ReportOpen(q)
  PROVE  /\ reports'[q].status = "linked"
         /\ \A p \in Requests : p # q => reports'[p] = reports[p]
         /\ \A m \in Moderators : q \notin decisions[m].reports
         /\ requests'[q].pc = "done"
         /\ \A p \in Requests : p # q => requests'[p] = requests[p]
         /\ UNCHANGED decisions
<1>1. /\ reports \in [Requests -> Report] /\ requests \in [Requests -> Request]
      /\ reports[q].status = "none"
  BY DEF WellFormed, TypeOK, ReportsInPlace, ReportReuse, ReportOpen
<1>2. \A m \in Moderators : q \notin decisions[m].reports
  BY <1>1 DEF WellFormed, ReferencesExist
<1> QED
  BY <1>1, <1>2 DEF ReportReuse, ReportOpen, Request

LEMMA NextReportsInPlace ==
  WellFormed /\ ReportsInPlace /\ [Next]_vars => ReportsInPlace'
<1> SUFFICES ASSUME WellFormed, ReportsInPlace, [Next]_vars
             PROVE  ReportsInPlace'
  OBVIOUS
<1>0. /\ requests \in [Requests -> Request]
      /\ reports \in [Requests -> Report]
      /\ decisions \in [Moderators -> Decision]
  BY DEF WellFormed, TypeOK
(* Steps that write no report and run no decision.                         *)
<1>a. ASSUME UNCHANGED <<reports, decisions>>,
             \A q \in Requests :
               requests[q].pc = "done" => requests'[q].pc = "done"
      PROVE  ReportsInPlace'
  BY <1>a DEF ReportsInPlace
<1>1. ASSUME NEW m \in Moderators, NEW c \in DOMAIN cases,
             NEW verdict \in Verdicts, DecideRead(m, c, verdict)
      PROVE  ReportsInPlace'
  <2>1. \A q \in ActiveReports(c) : reports[q].case = c
    BY DEF ActiveReports
  <2> QED BY <1>0, <1>1, <2>1 DEF DecideRead, ReportsInPlace
<1>2. ASSUME NEW m \in Moderators, DecideWrite(m) PROVE ReportsInPlace'
  <2>1. \A q \in Requests : reports'[q].case = reports[q].case
    BY <1>0, <1>2 DEF DecideWrite
  <2>2. \A q \in Requests :
          reports[q].status = "none" => reports'[q].status = "none"
    BY <1>0, <1>2 DEF DecideWrite, WellFormed, ReferencesExist
  <2>3. /\ decisions'[m].reports = {}
        /\ \A n \in Moderators : n # m => decisions'[n] = decisions[n]
        /\ UNCHANGED requests
    BY <1>0, <1>2 DEF DecideWrite, NoDecision
  <2>4. \A n \in Moderators : decisions[n].reports \subseteq Requests
    BY <1>0 DEF Decision
  <2> QED BY <2>1, <2>2, <2>3, <2>4 DEF ReportsInPlace
<1>3. ASSUME NEW m \in Moderators, DecideMiss(m) PROVE ReportsInPlace'
  BY <1>0, <1>3 DEF DecideMiss, NoDecision, ReportsInPlace
<1>4. ASSUME NEW q \in Requests, ReportReuse(q) \/ ReportOpen(q)
      PROVE  ReportsInPlace'
  <2>1. \A n \in Moderators : decisions[n].reports \subseteq Requests
    BY <1>0 DEF Decision
  <2> QED BY <1>4, <2>1, ReportInserted DEF ReportsInPlace
<1>5. ASSUME NEW l \in Listings, SubmitDraft(l) \/ DeleteDraft(l)
      PROVE  ReportsInPlace'
  BY <1>5, <1>a DEF SubmitDraft, DeleteDraft
<1>6. ASSUME NEW u \in Users, DeleteAccount(u) PROVE ReportsInPlace'
  BY <1>6, <1>a DEF DeleteAccount
<1>7. ASSUME NEW m \in Moderators, NEW c \in DOMAIN cases,
             ClaimCase(m, c) \/ CommentCase(m, c)
      PROVE  ReportsInPlace'
  BY <1>7, <1>a DEF ClaimCase, CommentCase
<1>8. ASSUME NEW q \in Requests, NEW u \in Users, NEW l \in Listings,
             ReportStart(q, u, l)
      PROVE  ReportsInPlace'
  BY <1>0, <1>8, <1>a DEF ReportStart
<1>9. ASSUME NEW q \in Requests, ReportFindExisting(q) PROVE ReportsInPlace'
  BY <1>0, <1>9, <1>a DEF ReportFindExisting, Request
<1>10. ASSUME NEW q \in Requests, ReportRead(q) PROVE ReportsInPlace'
  BY <1>0, <1>10, <1>a DEF ReportRead, Request
<1>11. ASSUME NEW q \in Requests, ReportMiss(q) PROVE ReportsInPlace'
  BY <1>0, <1>11, <1>a DEF ReportMiss, Request
<1>12. CASE UNCHANGED vars
  BY <1>12, <1>a DEF vars
<1> QED
  BY <1>1, <1>2, <1>3, <1>4, <1>5, <1>6, <1>7, <1>8, <1>9, <1>10, <1>11, <1>12
     DEF Next, OwnerNext, AccountNext, ModeratorNext, ReporterNext

LEMMA NextReportsFollow ==
  WellFormed /\ ReportsInPlace /\ ReportsFollowVerdict /\ [Next]_vars =>
    ReportsFollowVerdict'
<1> SUFFICES ASSUME WellFormed, ReportsInPlace, ReportsFollowVerdict,
                    [Next]_vars, NEW q \in Requests,
                    reports'[q].status \in {"dismissed", "resolved"}
             PROVE  /\ cases'[reports'[q].case].status \in Verdicts
                    /\ reports'[q].status =
                         ReportStatusOf(cases'[reports'[q].case].status)
  BY DEF ReportsFollowVerdict, ReportStatusOf
<1>0. /\ reports \in [Requests -> Report]
      /\ \A c \in DOMAIN cases : cases[c].status # "open" => cases'[c] = cases[c]
  BY StepKeepsClaims DEF WellFormed, TypeOK
(* A report that was settled before belongs to a case that was closed.     *)
<1>a. ASSUME reports'[q] = reports[q]
      PROVE  /\ cases'[reports'[q].case].status \in Verdicts
             /\ reports'[q].status =
                  ReportStatusOf(cases'[reports'[q].case].status)
  <2>1. reports[q].case \in DOMAIN cases
    BY <1>a DEF WellFormed, ReferencesExist
  <2>2. /\ cases[reports[q].case].status \in Verdicts
        /\ reports[q].status = ReportStatusOf(cases[reports[q].case].status)
    BY <1>a DEF ReportsFollowVerdict
  <2>3. cases'[reports[q].case] = cases[reports[q].case]
    BY <1>0, <2>1, <2>2 DEF Verdicts
  <2> QED BY <1>a, <2>2, <2>3
<1>1. ASSUME NEW m \in Moderators, DecideWrite(m), q \in decisions[m].reports
      PROVE  /\ cases'[reports'[q].case].status \in Verdicts
             /\ reports'[q].status =
                  ReportStatusOf(cases'[reports'[q].case].status)
  <2> DEFINE c == decisions[m].case
             verdict == decisions[m].verdict
  <2>1. /\ c \in DOMAIN cases /\ verdict \in Verdicts
        /\ reports[q].case = c
    BY <1>1 DEF WellFormed, ReferencesExist, DecideWrite, ReportsInPlace
  <2>2. reports'[q] = [status |-> ReportStatusOf(verdict), case |-> c]
    BY <1>1, <2>1 DEF DecideWrite
  <2>3. cases'[c].status = verdict
    BY <1>1, <2>1 DEF DecideWrite
  <2> HIDE DEF c, verdict
  <2> QED BY <2>1, <2>2, <2>3
<1>2. ASSUME NEW m \in Moderators, DecideWrite(m), q \notin decisions[m].reports
      PROVE  reports'[q] = reports[q]
  BY <1>0, <1>2 DEF DecideWrite
<1>3. ASSUME NEW p \in Requests, ReportReuse(p) \/ ReportOpen(p)
      PROVE  reports'[q] = reports[q]
  BY <1>3, ReportInserted
<1>4. CASE UNCHANGED reports
  BY <1>4, <1>a
<1> QED
  BY <1>a, <1>1, <1>2, <1>3, <1>4
     DEF Next, OwnerNext, AccountNext, ModeratorNext, ReporterNext, SubmitDraft,
         DeleteDraft, DeleteAccount, ClaimCase, CommentCase, DecideRead,
         DecideMiss, ReportStart, ReportFindExisting, ReportRead, ReportMiss, vars

(* A report is settled only by the decision on its own case and as that    *)
(* decision says, though the decision acts on reports it read before it    *)
(* had locked anything.                                                    *)
THEOREM ReportsAreAnswered == Spec => []ReportsFollowVerdict
<1>1. Spec => []WellFormed
  BY QueueAlways, PTL
<1> QED
  BY <1>1, InitReports, NextReportsInPlace, NextReportsFollow, PTL DEF Spec

-----------------------------------------------------------------------------
(* The chain of status rows.                                               *)

(* A case keeps its listing, and the audit table only grows.               *)
HistoryKept ==
  /\ DOMAIN cases \subseteq DOMAIN cases'
  /\ \A c \in DOMAIN cases : cases'[c].listing = cases[c].listing
  /\ \A i \in DOMAIN actions : i \in DOMAIN actions' /\ actions'[i] = actions[i]

(* What the earlier rows say of a listing stays as it was.                 *)
LEMMA PastIsKept ==
  ASSUME WellFormed, HistoryKept, NEW l, NEW n, NEW status,
         \A i \in StatusRows(l)' : i < n => i \in DOMAIN actions
  PROVE  StatusBefore(l, n, status)' = StatusBefore(l, n, status)
<1> DEFINE rows == {i \in StatusRows(l) : i < n}
<1>1. \A i \in DOMAIN actions : actions[i].case \in DOMAIN cases
  BY DEF WellFormed, ReferencesExist
<1>2. \A i \in DOMAIN actions : i \in StatusRows(l)' <=> i \in StatusRows(l)
  BY <1>1 DEF StatusRows, HistoryKept
<1>3. StatusRows(l) \subseteq DOMAIN actions
  BY DEF StatusRows
<1>4. {i \in StatusRows(l)' : i < n} = rows
  BY <1>2, <1>3
<1>5. \A i \in rows : actions'[i] = actions[i]
  BY <1>3 DEF HistoryKept
<1> QED
  BY <1>4, <1>5 DEF StatusBefore

(* A step that appends no status row for listing l and keeps its status    *)
(* keeps its chain.                                                        *)
LEMMA ChainKept ==
  ASSUME WellFormed, HistoryKept, AuditChain, NEW l \in Listings,
         actions \in Seq(Action), actions' \in Seq(Action),
         StatusRows(l)' \subseteq DOMAIN actions,
         listings'[l].moderation = listings[l].moderation
  PROVE  /\ \A i \in StatusRows(l)' : StatusBefore(l, i, actions[i].from)'
         /\ StatusBefore(l, Len(actions) + 1, listings[l].moderation)'
<1>1. /\ DOMAIN actions = 1..Len(actions) /\ Len(actions) \in Nat
      /\ DOMAIN actions' = 1..Len(actions') /\ Len(actions') \in Nat
  BY LenProperties
<1>2. \A i \in DOMAIN actions : actions[i].case \in DOMAIN cases
  BY DEF WellFormed, ReferencesExist
<1>3. StatusRows(l)' = StatusRows(l)
  BY <1>2 DEF StatusRows, HistoryKept
<1>4. ASSUME NEW i \in StatusRows(l)' PROVE StatusBefore(l, i, actions[i].from)'
  <2>1. PICK from : from = actions[i].from
    OBVIOUS
  <2>2. StatusBefore(l, i, from)
    BY <1>3, <2>1 DEF AuditChain
  <2>3. StatusBefore(l, i, from)'
    BY <2>2, PastIsKept
  <2>4. actions'[i].from = from
    BY <1>3, <2>1 DEF StatusRows, HistoryKept
  <2> QED BY <2>3, <2>4
<1>5. StatusBefore(l, Len(actions) + 1, listings[l].moderation)'
  <2>1. PICK status, n, k : /\ status = listings[l].moderation
                            /\ n = Len(actions) + 1 /\ k = Len(actions') + 1
    OBVIOUS
  <2>2. StatusBefore(l, n, status)
    BY <2>1 DEF AuditChain
  <2>3. StatusBefore(l, n, status)'
    BY <2>2, PastIsKept
  <2>4. {i \in StatusRows(l)' : i < n} = {i \in StatusRows(l)' : i < k}
    BY <1>1, <1>3, <2>1 DEF StatusRows, HistoryKept
  <2>5. StatusBefore(l, k, status)'
    BY <2>3, <2>4 DEF StatusBefore
  <2> QED BY <2>1, <2>5
<1> QED
  BY <1>4, <1>5

(* A step that appends a status row for listing l, from its old status to  *)
(* its new one, prolongs its chain.                                        *)
LEMMA ChainProlonged ==
  ASSUME WellFormed, HistoryKept, AuditChain, NEW l \in Listings,
         NEW row \in Action, actions \in Seq(Action),
         actions' = Append(actions, row),
         Len(actions) + 1 \in StatusRows(l)',
         row.from = listings[l].moderation,
         row.to = listings'[l].moderation
  PROVE  /\ \A i \in StatusRows(l)' : StatusBefore(l, i, actions[i].from)'
         /\ StatusBefore(l, Len(actions) + 1, listings[l].moderation)'
<1>1. /\ DOMAIN actions = 1..Len(actions) /\ Len(actions) \in Nat
      /\ DOMAIN actions' = DOMAIN actions \cup {Len(actions) + 1}
      /\ actions'[Len(actions) + 1] = row
      /\ Len(actions') = Len(actions) + 1
  BY AppendRow, AppendProperties
<1>2. \A i \in DOMAIN actions : actions[i].case \in DOMAIN cases
  BY DEF WellFormed, ReferencesExist
<1>3. \A i \in StatusRows(l)' : i \in StatusRows(l) \/ i = Len(actions) + 1
  BY <1>1, <1>2 DEF StatusRows, HistoryKept
<1>4. PICK n : n = Len(actions) + 1
  OBVIOUS
<1>5. ASSUME NEW i \in StatusRows(l)' PROVE StatusBefore(l, i, actions[i].from)'
  <2>1. \A j \in StatusRows(l)' : j < i => j \in DOMAIN actions
    BY <1>1, <1>3 DEF StatusRows
  <2>2. PICK from : from = actions'[i].from
    OBVIOUS
  <2>3. StatusBefore(l, i, from)
    <3>1. CASE i \in StatusRows(l)
      BY <2>2, <3>1 DEF AuditChain, StatusRows, HistoryKept
    <3>2. CASE i = Len(actions) + 1
      BY <1>1, <2>2, <3>2 DEF AuditChain
    <3> QED BY <1>3, <3>1, <3>2
  <2>4. StatusBefore(l, i, from)'
    BY <2>1, <2>3, PastIsKept
  <2> QED BY <2>2, <2>4
<1>6. StatusBefore(l, Len(actions) + 1, listings[l].moderation)'
  <2>1. PICK status, k : status = listings'[l].moderation /\ k = Len(actions') + 1
    OBVIOUS
  <2>2. /\ n \in {i \in StatusRows(l)' : i < k}
        /\ \A j \in {i \in StatusRows(l)' : i < k} : j <= n
        /\ actions'[n].to = status
    BY <1>1, <1>3, <1>4, <2>1 DEF StatusRows
  <2>3. StatusBefore(l, k, status)'
    BY <2>2 DEF StatusBefore
  <2> QED BY <2>1, <2>3
<1> QED
  BY <1>5, <1>6

LEMMA NextAuditChain ==
  WellFormed /\ WellFormed' /\ AuditChain /\ [Next]_vars => AuditChain'
<1> SUFFICES ASSUME WellFormed, WellFormed', AuditChain, [Next]_vars,
                    NEW l \in Listings
             PROVE  /\ \A i \in StatusRows(l)' : StatusBefore(l, i, actions[i].from)'
                    /\ StatusBefore(l, Len(actions) + 1, listings[l].moderation)'
  BY DEF AuditChain
<1>0. /\ cases \in Seq(Case) /\ actions \in Seq(Action) /\ actions' \in Seq(Action)
      /\ listings \in [Listings -> Listing]
      /\ DOMAIN cases = 1..Len(cases) /\ Len(cases) \in Nat
      /\ \A c \in DOMAIN cases : cases[c] \in Case
      /\ \A i \in DOMAIN actions : actions[i].case \in DOMAIN cases
      /\ \A i \in DOMAIN actions' : actions'[i].case \in DOMAIN cases'
  BY LenProperties, RowOf DEF WellFormed, TypeOK, ReferencesExist
<1>1. ASSUME Unrecorded(StatusKinds), StatusesKept
      PROVE  /\ \A i \in StatusRows(l)' : StatusBefore(l, i, actions[i].from)'
             /\ StatusBefore(l, Len(actions) + 1, listings[l].moderation)'
  <2>1. /\ HistoryKept
        /\ \A i \in DOMAIN actions' :
             i \notin DOMAIN actions => actions'[i].kind \notin StatusKinds
    BY <1>0, <1>1, AppendRow DEF Unrecorded, HistoryKept
  <2>2. StatusRows(l)' \subseteq DOMAIN actions
    BY <2>1 DEF StatusRows, StatusKinds
  <2> QED BY <1>0, <1>1, <2>1, <2>2, ChainKept DEF StatusesKept
<1>2. ASSUME NEW k \in Listings, NEW c, NEW row \in Action,
             HistoryKept, actions' = Append(actions, row),
             row.case = c, c \in DOMAIN cases', cases'[c].listing = k,
             row.kind \in StatusKinds, row.from = listings[k].moderation,
             row.to = listings'[k].moderation,
             \A j \in Listings : j # k => listings'[j] = listings[j]
      PROVE  /\ \A i \in StatusRows(l)' : StatusBefore(l, i, actions[i].from)'
             /\ StatusBefore(l, Len(actions) + 1, listings[l].moderation)'
  <2>1. /\ DOMAIN actions' = DOMAIN actions \cup {Len(actions) + 1}
        /\ actions'[Len(actions) + 1] = row
    BY <1>0, <1>2, AppendRow
  <2>2. CASE k = l
    <3>1. Len(actions) + 1 \in StatusRows(l)'
      BY <1>2, <2>1, <2>2 DEF StatusRows, StatusKinds
    <3> QED BY <1>0, <1>2, <2>2, <3>1, ChainProlonged
  <2>3. CASE k # l
    <3>1. StatusRows(l)' \subseteq DOMAIN actions
      BY <1>2, <2>1, <2>3 DEF StatusRows
    <3>2. listings'[l].moderation = listings[l].moderation
      BY <1>2, <2>3
    <3> QED BY <1>0, <1>2, <3>1, <3>2, ChainKept
  <2> QED BY <2>2, <2>3
<1>3. ASSUME NEW k \in Listings, SubmitDraft(k)
      PROVE  /\ \A i \in StatusRows(l)' : StatusBefore(l, i, actions[i].from)'
             /\ StatusBefore(l, Len(actions) + 1, listings[l].moderation)'
  <2>1. PICK c, row : /\ c = Len(cases) + 1
                      /\ row = AuditRow(c, Owner[k], "opened", "draft",
                                        "pending_review")
    OBVIOUS
  <2>2. NewCase(k) \in Case /\ NewCase(k).listing = k
    BY DEF NewCase, Case, CaseStatus
  <2>3. /\ DOMAIN cases' = DOMAIN cases \cup {c}
        /\ \A d \in DOMAIN cases : cases'[d] = cases[d]
        /\ cases'[c].listing = k
    BY <1>0, <1>3, <2>1, <2>2, AppendRow DEF SubmitDraft
  <2>4. /\ row.case = c /\ row.kind \in StatusKinds /\ row.from = "draft"
        /\ row.to = "pending_review" /\ row \in Action
    BY <1>0, <2>1, AccountsAssumption
       DEF AuditRow, StatusKinds, Action, ActionKind, ModerationStatus
  <2>5. actions' = Append(actions, row)
    BY <1>3, <2>1 DEF SubmitDraft
  <2>6. HistoryKept
    BY <1>0, <2>3, <2>4, <2>5, AppendRow DEF HistoryKept
  <2>7. /\ listings[k].moderation = "draft"
        /\ listings'[k].moderation = "pending_review"
        /\ \A j \in Listings : j # k => listings'[j] = listings[j]
    BY <1>0, <1>3 DEF SubmitDraft, IsDraft, Listing
  <2> QED BY <1>2, <2>3, <2>4, <2>5, <2>6, <2>7
<1>4. ASSUME NEW m \in Moderators, DecideWrite(m)
      PROVE  /\ \A i \in StatusRows(l)' : StatusBefore(l, i, actions[i].from)'
             /\ StatusBefore(l, Len(actions) + 1, listings[l].moderation)'
  <2>1. PICK c, verdict : c = decisions[m].case /\ verdict = decisions[m].verdict
    OBVIOUS
  <2>2. c \in DOMAIN cases /\ verdict \in Verdicts /\ c \in Nat \ {0}
    BY <1>0, <1>4, <2>1 DEF WellFormed, ReferencesExist, DecideWrite
  <2>3. PICK k \in Listings : k = cases[c].listing
    BY <1>0, <2>2 DEF Case
  <2>4. PICK row : row = AuditRow(c, m, verdict, listings[k].moderation, verdict)
    OBVIOUS
  <2>5. /\ row.case = c /\ row.kind \in StatusKinds
        /\ row.from = listings[k].moderation /\ row.to = verdict
        /\ row \in Action
    BY <1>0, <2>2, <2>3, <2>4, AccountsAssumption
       DEF AuditRow, StatusKinds, Action, ActionKind, Listing, ModerationStatus,
           Verdicts
  <2>6. actions' = Append(actions, row)
    BY <1>4, <2>1, <2>3, <2>4 DEF DecideWrite, FromStatus
  <2>7. /\ DOMAIN cases' = DOMAIN cases
        /\ \A d \in DOMAIN cases : cases'[d].listing = cases[d].listing
    BY <1>0, <1>4, <2>1, <2>2 DEF DecideWrite
  <2>8. /\ listings'[k].moderation = verdict
        /\ \A j \in Listings : j # k => listings'[j] = listings[j]
    BY <1>0, <1>4, <2>1, <2>3 DEF DecideWrite
  <2>9. HistoryKept
    BY <1>0, <2>5, <2>6, <2>7, AppendRow DEF HistoryKept
  <2> QED BY <1>2, <2>2, <2>3, <2>5, <2>6, <2>7, <2>8, <2>9
<1> QED
  BY <1>1, <1>3, <1>4, StepKinds

(* The audit table explains the status of every listing: its status rows   *)
(* are a chain from draft to the present status, in any interleaving of    *)
(* decisions on the cases of one listing.                                  *)
THEOREM AuditExplainsStatus == Spec => []AuditChain
<1>1. Init => AuditChain
  BY DEF Init, AuditChain, StatusRows, StatusBefore
<1>2. Spec => []WellFormed
  BY QueueAlways, PTL
<1> QED
  BY <1>1, <1>2, NextAuditChain, PTL DEF Spec
=============================================================================
