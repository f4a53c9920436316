# Verification of adottaungatto

TLA+ models of the parts of this repository that keep state under concurrency:
the NestJS API (`apps/api`), the media worker and the geographic import
(`apps/worker`), the PostgreSQL schema they share (`packages/db`), and the
components of the web application (`apps/web`) that keep state across
asynchronous calls. Each module is translated from the services and their SQL;
TLC checks it on small instances, and TLAPS proves the central results for
instances of every size.

Paths below are relative to the repository.

## 1. The system

Three kinds of process share one PostgreSQL database, one object store and one
Redis: the API (any number of instances), the worker's media loop, and
commands that are run by hand (the same media batch once, the import of
places). The web application is a client of the API; most of it renders one
answer, but hearts, the notification badge and the section of nearby listings
keep state in the browser while questions are out.

**What a transaction is.** `queryRows` (`apps/api/src/database`) takes a
connection, runs one statement and gives it back. No service opens an explicit
transaction. So every SQL statement, however many data-modifying CTEs it has,
is a transaction of its own at READ COMMITTED:

- all its parts read one snapshot, taken when it starts;
- rows it locks (`for update`, or the target of an `update`) are checked again
  on their newest version when the lock is granted;
- rows it only reads, and results of its CTEs that are joined by id, are not;
- between two statements of a call anything can happen, and the process can
  die, with what it committed left behind.

This rule decides what is one action in the models: a statement whose
decisions rest on rows it locks is one action; a statement that acts on rows
it merely read is two, `...Read` (snapshot) and `...Write`; a call of several
statements has a step for each, and may stop between them for ever.

### Inventory

| Component | State | Operations | Hard behaviour | What makes it correct |
|---|---|---|---|---|
| Listing drafts (`listings.service.ts`) | `listings`: moderation and lifecycle status | create, edit, submit, delete | readiness is checked by queries before the submitting statement | a listing is submitted once, complete, and always in the queue |
| Moderation (`moderation.service.ts`) | `moderation_cases`, `moderation_actions` | claim, comment, approve, reject, suspend | decisions of two moderators, of two cases of one listing | one verdict per case; the audit rows explain the status |
| Reports (`reports.service.ts`) | `reports` | report a listing | three statements; a CTE that opens a case the rest of the statement cannot see | a report follows the decision on its case |
| Image gallery (`listings.service.ts`) | `listing_images`: order, cover, deletion | create, delete, set cover, reorder | find, count and insert are three statements; rows chosen from a snapshot; a partial unique index | a cover if there are images, a limit, distinct places |
| Image worker (`apps/worker/src/media`) | image status, objects in storage | tick: select, fetch, two puts, update, refresh | two processes without locks, crashes, caught and uncaught failures | ready means processed; outcomes are final; nothing is lost |
| Accounts and sessions (`auth.service.ts`, `users.service.ts`) | `users`, `sessions`, two token tables | register, login, logout, verify, reset, change, deactivate, delete | read, verify the password, write; tokens sent twice | deletion is final, tokens work once, a new password ends sessions |
| Phone verification (`users.service.ts`, `listings.service.ts`) | numbers and flags, two code tables | change number, ask, confirm, submit | the number changes while a code is on its way | a verified number was confirmed; only the newest code is good |
| Search document (`listing-search-documents.ts`) | `listing_search_documents` | refresh | a second statement after each change; may be lost or overtaken | the next refresh that nothing overtakes puts it right |
| Likes (`likes.service.ts`) | `listing_likes` | like, unlike | each is followed by a refresh | idempotent; the document counts them |
| Contact requests (`contacts.service.ts`) | `listing_contact_requests` | send | limits counted before the insert; mail between two statements, each of which can fail | limits hold; row, mail, notification and answer do not contradict each other |
| Notifications (`notifications.service.ts`, `realtime-notifications-provider.tsx`) | `notifications`, subscribers in memory, the browser's badge | create, mark, delete, subscribe, publish | unread count read asynchronously, per process; streams and events keep the `Set` they found | open streams are found; the badge ends right |
| Favorites (`favorites.service.ts`, `listing-favorite-toggle.tsx`, `lib/api/client.ts`) | `listing_favorites`, a cache and the hearts of a page | add, remove, ask, mount, unmount | optimistic state, a five-second timeout, overlap of two additions, lists that are partial | hearts agree, and say what is stored |
| Rate limit (`rate-limit`, `redis`) | a counter with an expiry in Redis | enforce | `INCR`, `EXPIRE`, `TTL` are three commands | nobody is locked out |
| Geographic import (`apps/worker/src/geo`) | runs, staged rows, regions, provinces, towns | stage, plan, promote, pick a place | rows are closed and replaced; runs in any order, repeated | open rows are the last sheet; stored places stay whole |
| Nearby listings (`nearby-listings-section.tsx`) | status, message, list, three request counters | mount, locate, ask, answer | answers in any order | the last attempt is shown; the section does not stay busy |

Public search and listing pages, mail formatting, configuration, health checks,
the domain and validation packages, forms and pages of the web application,
the UI package, seeds and benchmarks hold no state that these rules are about.

**How they interact.** Submission and the first report on a listing open a
case; a decision writes listing, case, audit and reports in one statement,
then refreshes the search document, creates notifications and sends mail; the
worker's outcome is what submission waits for; the phone flag is what
submission asks for; deleting an account blocks claims and decisions on its
listings but touches none of their rows. A contact request ends in a
notification of the owner, which the stream announces to the owner's browser.
Every request of a browser passes the rate limit; what it answers, and how
late, decides what a heart shows. A promotion replaces rows that listings
refer to.

`PROJECT.json` lists the hazards by line, with the property that watches each.

## 2. Modules

| Module | Models | Kind |
|---|---|---|
| `ListingLifecycle` | the promised life of a listing | abstract specification |
| `ListingModeration` | listings, cases, audit, reports | component, refines `ListingLifecycle` |
| `ImageGallery` | rows, order and cover of one draft's images | component |
| `ImagePipeline` | upload, confirmation, worker, submission | component with liveness |
| `AccountAccess` | one account, its sessions and tokens | component |
| `PhoneVerification` | numbers and codes of one owner and one draft | component |
| `SearchDocument` | the document, likes, and the calls that refresh it | component |
| `NotificationStream` | notifications of one user, stream, badge | component |
| `ContactRequests` | requests to one owner | composed over `NotificationStream` |
| `RateLimit` | one window of the limit in Redis | component with liveness |
| `FavoriteButtons` | one favorite and the hearts that show it | composed over `RateLimit` |
| `GeoImport` | sheets, runs, the three tables, a listing's place | component |
| `NearbyListings` | one mounted section | component with liveness |
| `...Proofs` | theorems about all of them but `RateLimit`'s liveness | TLAPS |
| `MC...` | symmetry and constants for TLC | instances |

`ImageProofs` is about `ImageGallery` and `ImagePipeline`, and
`WebApplicationProofs` about `FavoriteButtons` and `NearbyListings`; the names
that both modules of a pair would have are prefixed in one of them
(`PipelineNext`, `SectionNext`).

### ListingModeration

| Code | Model |
|---|---|
| `listings.moderation_status`, `lifecycle_status` | `listings[l]` |
| `moderation_cases` by `created_at` | `cases`, a sequence; a case's id is its place |
| `moderation_actions` | `actions`, a sequence of audit rows |
| `reports` | `reports[q]`, the row of request `q` |
| the report endpoint between its statements | `requests[q]` |
| a running decision statement | `decisions[m]`: case, verdict and the reports of its snapshot |
| `users.deleted_at` | `deletedUsers` |

`SubmitDraft`, `DeleteDraft`, `ClaimCase` and `CommentCase` are one action
each: they rest on the row they lock. The decision is `DecideRead` (owner and
active reports, from the snapshot), then `DecideWrite` or `DecideMiss`, which
evaluate `Decidable` again as the row locks do. The report endpoint is
`ReportStart` (the listing is public and not one's own), `ReportFindExisting`,
and the insert: `ReportRead` (or `ReportMiss`), then `ReportReuse` or
`ReportOpen`. `ReportOpen` answers 404 because the code does.

`ListingLifecycle` keeps the phase of each listing and nothing else.
`PhaseOf` is the refinement mapping: draft, review, public, removed,
discarded. Claims, comments and reports are stuttering steps.

### ImageGallery

`images` are the rows in creation order with `live` (`deleted_at` is null),
`order` and `cover`. A caller's call in progress is `calls[k]`: `at` names the
step, the rest is what the snapshot gave. An upload is four steps: `CreateDraft`
is the query that finds the draft, `CreateCount` the one that counts its images
(zero when the listing has stopped being an editable draft in between),
`CreateRead` and `CreateWrite` the insert, which does not look at the listing.
`IndexAllows` is the partial unique
index. The `...Fail` actions are the unique violations; PostgreSQL does not
fix the order in which a statement's rows reach the index, so a statement that
moves the cover may or may not fail and both are allowed. `Decide` ends
editing; statements that do not look at the listing again write all the same.

### ImagePipeline

`status` is `listing_images.status`; `originals` and `variants` are the
objects in storage; `work[w]` is the batch a worker has selected and the stage
of `processPendingImage` it is in. `ConfirmStat`/`ConfirmWrite` and
`SubmitCheck`/`SubmitWrite` are query and update. A failure inside the `try`
leads to `mark_rejected` (`FaultCaught`, and the error branches of `Fetch` and
`PutVariant`); one in the `catch`, or a crash, abandons the batch
(`FaultAbort`). `Settle` is the update's `where status = 'processing'`.

### AccountAccess

A call is named `k`; the password, session or token it creates is `k` too, so
"the newest password" and "the session opened with it" are comparisons of
names. Calls go `read`, `writing`, `done`. `Begin` takes the snapshot of the
sessions to revoke and the tokens to replace; the writes check the locked user
row and the locked token again, and revoke only what the snapshot held.
Accounts do not touch each other's rows, so one is enough.

### PhoneVerification

The profile and the draft are the two `Places`, with the same table of codes
and statements each. Numbers change by `UpdateProfile` and `UpdateDraft`;
codes by `RequestRead`/`RequestWrite` and `ConfirmRead`/`ConfirmWrite`. Asking
for a code consumes all the live codes of the place that are in the
statement's snapshot (`Voided`), whatever number they were sent to and even if
no new code takes their place. The submission reads readiness (`SubmitRead`) and writes later (`SubmitWrite`).

### SearchDocument

`status`, `likes` and `ready` are what the document is computed from;
`document` is the row. Every change is followed by `RefreshRead` (one
snapshot) and `RefreshWrite` (upsert, or delete of the row the snapshot held),
or by `Die`. `Expire` is a change that nothing refreshes. A like that finds
its row there answers without a refresh. `current` is the set of refreshes
whose snapshot nothing has outdated, and `settled` says that the last write
was one of those and nothing has changed since.

### NotificationStream and ContactRequests

`notes[n]` is a row; `publishes[p]` an event between the commit of its
statement and its delivery: the subscribers are looked up (`PublishToUser`),
the unread count is asked for (`CountForEvent`, `CountFails`), the answer is
handed out to whoever is in that `Set` by then (`Deliver`). `Set` objects have
an identity: `entry` is the one that the map holds for the user, `members[s]`
the streams in it, and streams and events keep the one they found in their
field `set`. `Subscribe` takes the entry's `Set` or a `New` one, an object that
nothing holds any more. `Unsubscribe` is the closure that `subscribeToUser`
returns: it deletes the stream from the `Set` it captured and, if that is
empty, removes the user's entry without looking which `Set` the entry is
(`EntryAfter`). `connections[c]` is an `Observable` with the snapshot it sends
first; `current` is the `EventSource` of the page and `badge` what it shows.
`Restart` is the process that holds the map.

A contact request is `Find`, `CountRecent`, `InsertPending`, `SendMail`,
`MarkSent` or `MarkFailed`, `Notify`. Two things can stop it. A statement fails
(`StatementFails`): the caller is answered with an error, and the row stays as
it is, pending if it was one of the two marks, sent if it was the notification.
Or the process dies (`Die`): nobody is answered. A statement that reports an
error is taken not to have been executed; one whose commit is lost on the way
back is left out. `mailed`
holds what reached the owner, which a failed call to the mail server may have
too. Time is the age of a row (`Age`): it crosses the hour and the day in the
order of creation.

### RateLimit and FavoriteButtons

`key` is the counter in Redis and whether it has an expiry; `enforced[k]` the
next command of a request. The verdict rests on the count of `INCR`, and `TTL`
notices a key without expiry, which `Rearm` repairs.

A heart is `buttons[b]`, `cache` the map that outlives the components. A heart
that mounts shows the cache or, without one, what its page was rendered with
(`FirstShown`): whether the listing is among the favorites that the API listed,
which lacks it if a page of that list failed. `syncs[b]` the question that the heart of the listing's page asks when it
mounts, `clicks[k]` a request. A click shows the new state at once, passes the
session guard, then the limit, then is added (`AddRead`, `AddWrite`) or
removed, and is answered; `Abandon` is the five seconds after which the web
server gives up and the old state comes back while the request runs on.

### GeoImport

`runs[s]` is the run of a sheet; `before` has the pairs of runs of which the
first was updated before the second (`updated_at`), so that a run that is
written becomes the last of them. Rows are never deleted: a promotion closes those that the sheet does not have as
they are (`Outdated`) and opens the sheet's (`Unmatched`, `Upsert`), each
table with the ids that the one above now has. Rows are unique by code and
first day, so that pair is the id. `Promote` is one transaction and is
disabled where PostgreSQL refuses it (a statement would write a row twice).
`Announcement` is the dry run: it counts the rows that the sheet would have with
the ids that parents have now (`PlannedProvinces`, `PlannedTowns`), and not
those that the promotion gives them. `place` is what a listing stores: a town with
its parents.

### NearbyListings

`locating`, `nearbys` and `recents` are the questions that are out;
`recentId`, `nearbyId` and `readyId` the component's three counters. `Miss` is
an attempt that ends without nearby listings and asks for the recent ones
again; `TooLate` and `NearbyUnderWay` are the tests a late answer meets.

## 3. What is checked

| Run | Question | Instance |
|---|---|---|
| `moderation_races` | Do queue, audit, claims, reports and the listing's life stay consistent under every interleaving of statements? | one listing; an owner who may delete the account; two moderators, who also report; two report calls; one comment |
| `gallery` | Is the gallery in order after calls that do not overlap, and how far can overlapping calls and a decision exceed its limit? | two callers, limit 2, four rows |
| `pipeline` | Are outcomes sound and final with two workers, crashes and edits, and is every confirmed image settled? | two images, loop and one-shot command, batch 2, one fault |
| `account` | Are tokens spent once, deletions final, sessions revoked with the password? | a registration and four more calls of any kind |
| `search` | Does a refresh that nothing overtakes always put the document right? | two users, four calls |
| `phone` | Is a verified number always one that was confirmed, and is only the newest code good? | two numbers, three calls |
| `contacts` | Are the four limits over sliding windows exceeded by no more than the requests that counted together? | three calls of three requesters about three listings |
| `inbox` | Do the four records of a request agree whichever statement fails, is every open stream found, and does the badge end right while streams open, close, fail and restart? | one request and one other notification, two events, two connections and three `Set`s at a time |
| `favorites` | Do hearts agree with each other and with the row, behind a limit that lets everybody in again? | two hearts, two requests, limit 1, one lost connection |
| `geo` | Are the open rows the last sheet, do stored places stay whole, and by exactly what does a promotion depart from its announcement? | four sheets over two regions, provinces and towns, four dates |
| `nearby` | Does the section say what it shows, and settle? | three attempts at the position, six questions for recent listings |

`report_answered_404` is expected to find a violation; see section 5.

**What the properties say.** Moderation: a listing under review has exactly
one open case although reports open cases too (`PendingHasOneOpenCase`); the
two status columns, which no constraint ties, agree
(`LifecycleFollowsModeration`); a case has one verdict, by its assignee
(`VerdictRecorded`); the audit rows of a listing form a chain that ends at its
status, even when two of its cases are decided at once (`AuditChain`); a
report is settled only as its own case was (`ReportsFollowVerdict`); a claim
is exclusive and a closed case frozen (`ClaimIsExclusive`);
`ImplementsLifecycle` is the refinement. Gallery: `GalleryInOrder` (a cover,
distinct places, the limit, but for the one image that a decision can let
through) without overlap; `ExcessIsBounded` always: overlapping uploads exceed
the limit by one image for each further session, however many they are, and a
decision lets each session insert one more.
Pipeline: `ReadyHasVariants`, `OutcomeIsFinal`, and the liveness property
`ConfirmedIsSettled`. Accounts: `DeletedIsErased`, `StatusMovesForward` and
`ResetOnce` always; `SessionsFollowPassword` without overlap. Phone:
`VerifiedWasConfirmed` always; `OlderCodesAreVoid`: two codes of one place are
live at once only if neither request had the other's code in its snapshot.
Search: `DocumentFollowsListing` is the repair of a document, not that it never
is stale. Contacts: `LimitsHold` always, up to one row for each further call
that was between its query and its insert at the same time;
`AnswerTellsOutcome` always: a request that is answered as sent is mailed,
marked and announced, one that is answered with an error is not announced,
nothing is marked as sent that was not mailed and nothing as failed that was
announced. It does not say that a caller who gets an error sent nothing, for
that is not so (section 5). Stream:
`OpenStreamsAreFound` always: the `Set` of every open stream is the one in the
map, and those left behind are empty; `BadgeIsRight` once nothing is on its
way.
Favorites: `HeartsAgree` always; `HeartIsRight` once nothing is on its way;
`NobodyLockedOut` is liveness. Places: `CurrentIsLastPromoted` and
`PlaceStaysWhole` as long as promotions are in order; `RepeatChangesNothing`
after promotions in any order, as long as no region and no province has two
open rows (section 5); `PlanIsApplied` gives the exact difference between the
dry run and the promotion in order that follows it: none for regions, and for
provinces and towns one closure and one insertion for each row that the dry
run calls unchanged although its parent is replaced (section 5). Nearby: `SaysWhatItShows`, `LastAttemptShown`, and `Settles` is
liveness.

**History variables.** Some promises of the code hold only as long as
something has not happened: two overlapping deletions leave images without a
cover, a login that verified the old password opens its session after the
change, two counts that are on their way together arrive in either order.
Those promises are stated with the condition instead of being dropped, because
they are still hard to keep over sequences of calls; every run has the other
behaviours too, and the unconditional properties are checked in all of them.
Where the harm itself has a bound (`together`, `during`), that bound is the
property. What a condition excludes and nothing bounds is listed in
`PROJECT.json` as a hazard without a property.

| Variable | Records |
|---|---|
| `overlapped` (gallery, account) | two calls were in progress together |
| `during` (phone) | for each request of a code, the requests that were under way when it was made |
| `together` (contacts) | the most calls that ever were between their query of the listing and their insert |
| `current`, `settled` (search) | which refreshes are up to date, see section 2; any refresh that nothing overtakes sets `settled` again |
| `crossed`, `lost` (stream) | two counts were on their way to this connection, or one failed; each connection starts anew |
| `strayed` (favorites) | overlapping requests of two hearts, an answer after the timeout, a list that failed while a heart asked or a page was rendered, a change in another tab; a question of the listing's page that was alone clears it |
| `orderly` (places) | every promotion was of a newer sheet, or a repetition |
| `alone` (nearby) | no second attempt began while one was under way |

**Bounds.** `MaxComments`, `Leavers`, `MaxRows`, `MaxFaults`, `MaxDate`,
`MaxRecent`, `MaxNearby` and the sets of calls cap what grows. Moderation: two
report calls are the least that give a listing two cases decided at the same
time (one call opens a second case after the first was decided; the second one
lands on a case under decision), and no statement reads rows of two listings.
Gallery: four rows let the limit be exceeded, an image be deleted and
replaced, and the cover pass twice; three callers would only repeat pairwise
races. The bound of `ExcessIsBounded` is reached while the listing is editable
(three images); after a decision it is five, which four rows cannot reach and
the theorem covers. Pipeline: two images and batch 2 give a batch that is abandoned half
way and picked up by the other worker; with one fault the loop recovers from a
crash. Account: five calls are a registration, a token, its two uses and one
other call, which is every race between two writers and a third party. Phone:
two numbers are enough to change away and back; request, confirmation and a
second confirmation are three calls. Search: approval, change, its undoing and
a fourth call give two refreshes in either order and one that heals. Contacts:
the limits (1 an hour and 2 a day per requester, 1 a day per listing, 2 an
hour per owner) with three requesters and three listings let each be reached
while the other three would admit one more, so that dropping any of them is
seen. Events count for no limit, so calls end before the notification there;
in `inbox`, where one request is enough, they go on. Inbox: two events and two
connections at a time, any number one after the other, are the least that
cross; each of them can hold a `Set` of its own, and the third is new when a
stream opens. Favorites: one heart that asks and one that does not, and two requests,
are each pair of actors; with limit 1 the second request of a window is turned
away, and one fault leaves a key without an expiry. Places: the four sheets
are a first one, one that renames a region above rows it leaves as they are
and moves and renames the rows of another, one without a date that puts
a town under another province, and one that is not valid; four dates put a sheet before, on and
after each other. Nearby: the first rendering asks for recent listings at most
twice, and each of three attempts can ask again.

`CHECK_DEADLOCK FALSE` is set in every configuration because calls, rows and
clicks are bounded, or run to an end: a system whose callers have all finished
stops.

**Fairness.** Three modules assume some; the others state safety only.

- `ImagePipeline`: weak fairness of `Step(LoopWorker)`. The loop is a
  `setInterval` that fires until the process is stopped and skips a tick only
  while the previous batch runs; inside a batch every storage and database
  call returns or throws, and either is a step. Crashes are bounded by
  `MaxFaults`: the process is restarted and dies finitely often. Nothing is
  assumed of owners, moderators or the one-shot command. Two images fit one
  batch, so the model does not depend on which rows the query orders first.
- `RateLimit`: weak fairness of `WindowCloses` (Redis expires a key that has
  an expiry) and of the commands of each request (Redis answers, or the
  connection fails, `MaxFaults` times). That requests keep arriving is not
  assumed but the premise of `NobodyLockedOut`; that a lost expiry is repaired
  rests on the next request.
- `NearbyListings`: weak fairness of the effect of the first rendering and of
  every answer. `getCurrentPosition` is called with a timeout, the permission
  query resolves or rejects, and the web server waits at most five seconds for
  the API. Nothing is assumed of the visitor's clicks.

## 4. What is proved

Eight modules hold the proofs. Each theorem is about every value of the
constants that the named assumptions of the module admit. Every invariant and
every action property that a run checks is proved, except that of the run that
is expected to fail; liveness is not.

| Module | Assumes | Theorem | Says |
|---|---|---|---|
| `ListingModerationProofs` | moderators and owners are users, null is not | `TypeCorrect` | rows are well formed |
| | | `PendingInQueueOnce` | a listing under review has exactly one open case |
| | | `StatusColumnsAgree` | approved exactly when published; only drafts are deleted |
| | | `ModerationImplementsLifecycle` | every statement is a step of `ListingLifecycle` or a stutter |
| | | `TakenDownForGood` | what was rejected or suspended is never public again |
| | | `ClaimsAreExclusive` | a claimed case stays with its moderator; a closed one never changes |
| | | `CasesAreRuledOnce` | a closed case has exactly one ruling, its own; an open one has none |
| | | `ReportsAreAnswered` | a report is settled only as its own case was |
| | | `AuditExplainsStatus` | the audit rows of a listing are one chain that ends at its status |
| `ImageProofs` | finitely many callers, the limit is positive, the number of rows is a number | `TypeCorrect`, `InOrder`, `Bounded` | `TypeOK`, `GalleryInOrder`, `ExcessIsBounded` |
| | the loop is a worker, bounds are numbers | `PipelineTypeCorrect`, `ReadyImagesHaveVariants`, `OutcomesAreFinal` | `PipelineTypeOK`, `ReadyHasVariants`, `OutcomeIsFinal` |
| `AccountAccessProofs` | null is not a call | `TypeCorrect`, `DeletionErases`, `StatusOnlyForward`, `TokensResetOnce`, `SessionsKeepUp` | the five properties of `account` |
| `SearchDocumentProofs` | finitely many users | `TypeCorrect`, `RefreshHeals` | `TypeOK`, `DocumentFollowsListing` |
| `PhoneVerificationProofs` | finitely many calls, null is neither call nor number | `TypeCorrect`, `VerifiedNumbersWereConfirmed`, `OnlyNewestCode` | `TypeOK`, `VerifiedWasConfirmed`, `OlderCodesAreVoid` |
| `ContactRequestsProofs` | limits are numbers, notification rows are finitely many, null is neither connection, `Set` nor number | `ContactsWellFormed`, `ContactLimitsHold`, `AnswersAreTrue` | `TypeOK`, `LimitsHold`, `AnswerTellsOutcome` |
| | | `StreamsAreFound`, `BadgeIsRightWhenQuiet` | `OpenStreamsAreFound`, `BadgeIsRight` |
| `WebApplicationProofs` | the limit is positive, null is neither heart nor state | `HeartsWellFormed`, `AllHeartsAgree`, `HeartsAreRight` | `TypeOK`, `HeartsAgree`, `HeartIsRight` |
| | bounds are numbers | `SectionWellFormed`, `SectionIsHonest`, `LastAttemptIsShown` | `SectionTypeOK`, `SaysWhatItShows`, `LastAttemptShown` |
| `GeoImportProofs` | sheets are sequences of lines, dates are bounded, an empty cell is no name, null is neither row nor id | `GeoTypeCorrect`, `CurrentIsLast`, `PlacesStayWhole` | `TypeOK`, `CurrentIsLastPromoted`, `PlaceStaysWhole` |
| | | `RepeatsChangeNothing`, `PlansAreApplied` | `RepeatChangesNothing`, `PlanIsApplied` |

The type invariants of the gallery, the pipeline, the search document and the
phones are proved and not in a configuration.

**Moderation.** `WellFormed` is `TypeOK` with `ReferencesExist`: case numbers
held by audit rows, reports, running decisions and running reports are those
of existing rows. Without it nothing could be said of `cases[c]` in
`DecideWrite`. `PendingHasOneOpenCase` is not inductive: a submission opens a
case, so a draft must have had none (`DraftHasNoCase`); a report opens a case
on the strength of a check two statements ago, so the listing it looked at
must not be able to be under review by then (`ReportedIsReviewed`: a listing
that somebody started to report has had a verdict, and no operation takes it
back to draft or review). The case is kept as a singleton
(`PendingHasSingleCase`: `OpenCases(l) = {c}`) so that cardinality is needed
only at the end. `Queue` is the conjunction, with
`LifecycleFollowsModeration`, and is what the refinement rests on. The lemmas
`AppendRow`, `UpdateRow` and `RowOf` say what an insert and an update do to a
table that is a sequence.

**Gallery.** `GalleryInOrder` needs to
know what a running call still holds: `SnapshotHolds` says, for each step,
what of the snapshot is true as long as calls have not overlapped (there is
room for one more; the position is free; the heir is live), and `Alone` that
nobody else is there to change it. That the heir exists is an induction over a
finite set, done once in `FiniteHasFirst`. `ExcessIsBounded` is not inductive
because a session that has counted will insert later: `RoomLeft` counts the
images together with the sessions that have counted but not inserted
(`Counted`) and, once a decision has made every count zero, with those that
have merely found the draft (`Coming`). A session passes the count only while
there are fewer images than the limit, so that the other sessions are all that
can come on top; an insert turns a session into an image.

**Pipeline.** An image is marked ready by a worker that put both variants some
steps ago: `WorkHolds` says that the variants of the stages behind a worker
are in storage. No step removes a variant, so what other workers and the owner
do in between does not matter.

**Account.** `AccountStep` is all that a step can do to the user's row, and
gives `DeletedIsErased` and `StatusMovesForward` without looking at calls: each
write checks the row again under its lock. `ResetOnce` needs `TokensSpent`: a
token exists only once the call that asked for it has been answered, a reset
that succeeded has spent its token, and tokens about to be replaced exist; so
no token ever becomes live again. `SessionsFollowPassword` needs
`CallsAreAlone`: without overlap, a call about to revoke sessions holds all
the active ones, and a login about to open one has verified the present
password; and `LoginsHaveAccount`: before the registration there is neither.

**Search.** `SnapshotsHold`: a refresh that nothing has outdated holds what is
right to write now, and if that is nothing, it has seen the document there is
to delete. The second half is the difficult one: a refresh that deletes does
so only if its snapshot had the document, and a refresh that is out of date and
writes it in between empties `current`.

**Phones.** `CodesHold` (a code exists once the call that asked for it is over
and before another call sees it, and is spent once it has confirmed a number)
makes `VerifiedWasConfirmed` inductive although numbers change in between, and
`CallsHold` gives a confirmation its code. `OlderCodesAreVoid` needs
`RequestsHold`: a request that has yet to write holds in its snapshot every
code of its place that is live, except those of requests that were under way
with it; what it voids when it writes is therefore all that must go.

**Moderation, audit and reports.** `StepKinds` sorts the steps by what they do
to the audit table: nothing that matters, a submission, or a ruling. From it
come `VerdictRecorded` (a case that is decided was open when the row lock was
granted, so its ruling is the first) and `AuditChain`. A link of the chain
compares a row with the latest earlier row about the same listing
(`StatusBefore`); since rows are only appended and a case keeps its listing,
what the earlier rows say never changes (`PastIsKept`), and only the end of
the chain is new. `ReportsFollowVerdict` needs `ReportsInPlace`: the reports
that a running decision has read are still linked to its case when it writes,
because a report gets its case in the step that ends its request.

**Contacts and stream.** `AnswerTellsOutcome` follows from tying call, row,
mailbox and notification together step by step (`RowsAreOfCalls`,
`OutcomesAgree`). For `LimitsHold` each limit is the size of a set of rows,
taken together with the calls that were admitted and have not inserted
(`WithinAll`): a call is admitted only while the rows are below the limit, and
the calls admitted before it are among the others that count; as time passes
the sets shrink, and an insert turns an admitted call into a row.
`OpenStreamsAreFound` is inductive with `SetsHold`: every stream is in the
`Set` it captured, that one is the entry's, and every other `Set` is empty, so
that the `Set` whose last stream leaves is always the one whose entry goes.
`BadgeIsRight` needs `CountsInOrder`: while
nothing crossed and nothing was lost, at most one count is on its way, and it
is right unless a change has committed whose own event is still to come.

**Hearts.** `HeartsAgree` is inductive given that a heart waits for its own
click only (`ClicksHaveHearts`). `HeartIsRight` speaks of quiet states; the
induction needs what every click and question under way says to be true as
long as nothing has strayed (`NothingStrayed`), and that a question of the
page that calls itself alone is alone (`AloneIsAlone`), because its answer
makes everything right again.

**Nearby section.** `SectionInv` orders the questions by the three counters: no
two questions for recent listings have one number, a section that failed waits
for none it would show, and while attempts do not overlap the questions that
are out are older than the attempt that counts (`NearbyIsLater`,
`NearIsShown`, `RecentIsShown`).

**Places.** What a promotion does to one table is the same for all three, so the
lemmas about it (`PromotedRows` to `PromotedInOrder`) are about any table: it
keeps every row, what is wanted is there afterwards, a second one finds
nothing to do, and one that is newer than every row leaves exactly what is
wanted. A valid sheet wants one row for each code if no parent has two open
rows (`RegionsWanted`, `ProvincesWanted`, `TownsWanted`). The invariant keeps
two facts: the last promotion would find nothing to do (`LastIsDone`, whatever
the order), and while promotions are in order no row is newer than the last
one and the open rows are what it wanted (`LastIsShown`).
`CurrentIsLastPromoted` counts them with bijections between lines, wanted rows
and open rows; that every province of a sheet has a line that is read last is
a well-founded descent (`ProvinceIsKept`). `PlanIsApplied` compares two counts
of one promotion: the rows it inserts are those that are not found as they are
wanted, and those it closes are the older ones that are gone or changed
(`TableAnnounced`, `AnnouncedCounts`). The dry run counts so with other parents
than the promotion. A row below a parent that is kept is counted alike by both
(`ParentKept`); one whose parent is replaced is closed and inserted by the
promotion whatever it says, and so counts once more on both sides exactly if
the dry run called it unchanged (`CountedMore`, applied in
`ProvincesOverlooked` and `TownsOverlooked`).

**Only model-checked:** the liveness properties `ConfirmedIsSettled`,
`NobodyLockedOut` and `Settles`, because liveness under fairness is out of
this prover's reach, and `NotFoundStoresNothing`, which does not hold.

## 5. Disagreements between code and documentation

`report_answered_404`: the first report on a listing without an open case is
stored, opens a case, writes the audit row, and is answered 404: the last
`select` joins `moderation_cases`, whose snapshot does not have the case that
the CTE has just inserted (`reports.service.ts`).

**Repeating a promotion.** `docs/italian-places-import.md` says that promotion is
idempotent: to repeat `geo:promote:apply` on the same staging must neither
insert nor close anything. The proof of `RepeatChangesNothing` failed without
the condition on open rows, and TLC gives the reason, with three sheets of one
line. A, of the latest date, has region 1 under its old name and province 1;
B and C, of one earlier date, have province 2 under the same region, which has
the old name in B and a new one in C. A, B and C are promoted in this order.
B finds the region of A as it is and adds its province. C does not find its
renamed region and inserts it; the row of A is not older than C, so it is not
closed, and region 1 has two open rows. From now on the join of C's
province with the open rows of its region gives two rows, of which the table
has one: the other is inserted, meets the row of the same first day and
overwrites it (`on conflict ... do update`). Repeating C turns the province
from one parent to the other each time, and reports an insertion each time.
It takes a promotion of an older sheet by `--import-run-id`; in
order, and as long as no parent has two open rows, the documentation is right,
which is what the theorem says.

**The announced plan.** `docs/italian-places-import.md` (lines 69 to 72) says that
`geo:promote:apply` applies the same plan ("lo stesso piano") that
`geo:promote` has counted without writing. The dry run joins provinces and
towns with the parents that are open today. If the promotion replaces one of
those (a region that is renamed, say) every row below it is closed and
inserted again, and those that the sheet leaves as they are were announced as
unchanged. `PlanIsApplied` states the difference exactly, and TLC reaches
promotions in which it is not zero: the promoted counts are the announced ones
plus one closure and one insertion for each such row.

**Delivered contact requests.** `docs/authz.md` (line 312) says that every
delivered request creates a notification in the app for the owner. If the mail
leaves and the update that marks the row then fails, or the insert of the
notification does, or the process dies, there is none
(`contacts.service.ts:300-324`). The caller is told of an error, or nothing;
the row stays pending in the first case and is sent in the second. Nothing in
the code takes the notification up again. `AnswerTellsOutcome` says what still
holds.

Other consequences of the code's choices that the models reach, and that no
document rules out, are hazards in `PROJECT.json`: a report that commits after
its case was decided stays linked to a closed case; two overlapping deletions
leave images without a cover; an upload that found the draft before a decision
is inserted after it, past the limit; an image that is added, or a number that
is removed, between the readiness queries and the submission goes to review
unprocessed, or missing; a case of an owner who has left
can be decided by nobody; a first like is answered with the count of its
snapshot; a session that was opened with the old password while it was changed
stays; a promotion of an older run leaves towns under closed parents; a
sheet with a header only is valid and closes every row.

## 6. What is not modelled

- Pages, forms, form actions, tables and dialogs of the web application, and
  the UI package: about half of the implementation's lines. They make one
  call, render its answer and keep what the user types; what can go wrong when
  calls overlap is in the modules of the API. The three client components that
  do keep state across calls are modelled.
- Public search, facets, ranking, distance, the moderation queue's filters,
  account lists: read-only SQL, computed by PostgreSQL and PostGIS.
- Row mapping, input parsing, error messages, OpenAPI descriptions: much of
  what remains of the services' lines, without a state change.
- Titles and texts of a draft, their validation and the duplicate-title check.
- Display name, profile type and notification preferences: single updates of
  independent columns.
- Password hashing, token formats, signed addresses, image pixels, mail texts
  and SMTP.
- What follows a decision after its commit other than the refresh and the
  notification: the mail.
- The boundaries import: it writes geometries to rows that exist.
- Seeds, demo data, benchmarks, smoke scripts, configuration, health checks.

For these reasons the modules stand for the stateful core, a small share of
the repository's lines; the rest has no transitions to model.

## 7. What is left

1. Submission: titles, and image, phone and title readiness in one module.
2. An abstract specification of one-time tokens that both `AccountAccess` and
   `PhoneVerification` implement.
