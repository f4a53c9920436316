-------------------------- MODULE ContactRequests --------------------------
(***************************************************************************)
(* Requests that users send to the owner of a listing, over the owner's    *)
(* notifications.                                                          *)
(*                                                                         *)
(* One call runs, in this order: the query that finds the listing open to  *)
(* contact, the query that counts recent requests, the insert of a pending *)
(* row, the mail, the update that marks the row, and the notification.     *)
(* Any of them can fail, and then the caller gets an error; the process    *)
(* can die between any two, and then the caller gets nothing.  The rows    *)
(* are of one owner; the clock is their age, which crosses an hour and a   *)
(* day in the order of their creation.                                     *)
(***************************************************************************)
EXTENDS NotificationStream, Sequences

CONSTANTS Requests,       \* calls; the row of a call has its name
          Requesters, Listings,
          RequesterHourly, RequesterDaily, ListingDaily, OwnerHourly

ASSUME ContactAssumption ==
  /\ Requests \subseteq Notes
  /\ {RequesterHourly, RequesterDaily, ListingDaily, OwnerHourly} \subseteq Nat

VARIABLES
  contacts,     \* the rows, in order of creation
  calls,        \* calls[k]: local state of call k
  mailed,       \* the mails that reached the owner
  together      \* history: the most calls that were between the query of the
                \* listing and their insert at the same time (at least 1)

contactVars == <<contacts, calls, mailed, together>>
vars == <<streamVars, contactVars>>

Statuses == {"pending", "sent", "failed"}
Contact == [call : Requests, from : Requesters, listing : Listings,
            status : Statuses, age : {"hour", "day", "older"}]
Call == [at : {"idle", "found", "allowed", "mailing", "accepted", "bounced",
               "notifying", "sent", "error", "refused", "dead"},
         from : Requesters \cup {None}, listing : Listings \cup {None}]

NoCall == [at |-> "idle", from |-> None, listing |-> None]

Init ==
  /\ StreamInit
  /\ contacts = <<>>
  /\ calls = [k \in Requests |-> NoCall]
  /\ mailed = {}
  /\ together = 1

-----------------------------------------------------------------------------
At(k, here) == calls[k].at = here

GoTo(k, there) == calls' = [calls EXCEPT ![k].at = there]

(* The requests created within a window that are of interest to a limit.   *)
Within(ages, Counted(_)) ==
  Cardinality({i \in DOMAIN contacts :
                 contacts[i].age \in ages /\ Counted(contacts[i])})

Hour == {"hour"}
Day == {"hour", "day"}

(* Calls that may count the rows, or have, and have not inserted theirs.   *)
Counting == {k \in Requests : At(k, "found") \/ At(k, "allowed")}

(* A contactable listing that is not the requester's own is found.         *)
Find(k, r, l) ==
  /\ At(k, "idle")
  /\ calls' = [calls EXCEPT ![k] = [at |-> "found", from |-> r, listing |-> l]]
  /\ together' = IF Cardinality(Counting) < together THEN together
                 ELSE Cardinality(Counting) + 1
  /\ UNCHANGED <<streamVars, contacts, mailed>>

(* Mutant: a limit is exceeded by one.                                     *)
WithinLimitsM(r, l) ==
  /\ Within(Day, LAMBDA c : c.from = r /\ c.listing = l) <= ListingDaily
  /\ Within(Hour, LAMBDA c : c.from = r) < RequesterHourly
  /\ Within(Day, LAMBDA c : c.from = r) < RequesterDaily
  /\ Within(Hour, LAMBDA c : TRUE) < OwnerHourly

(* enforceContactRateLimits: rows count whatever became of them.           *)
WithinLimits(r, l) ==
  /\ Within(Day, LAMBDA c : c.from = r /\ c.listing = l) < ListingDaily
  /\ Within(Hour, LAMBDA c : c.from = r) < RequesterHourly
  /\ Within(Day, LAMBDA c : c.from = r) < RequesterDaily
  /\ Within(Hour, LAMBDA c : TRUE) < OwnerHourly

CountRecent(k) ==
  /\ At(k, "found")
  /\ GoTo(k, IF WithinLimits(calls[k].from, calls[k].listing)
               THEN "allowed" ELSE "refused")
  /\ UNCHANGED <<streamVars, contacts, mailed, together>>

(* Mutant: the telephone is looked up after the insert.                    *)
PhoneMissingM(k) ==
  /\ At(k, "mailing")
  /\ GoTo(k, "refused")
  /\ UNCHANGED <<streamVars, contacts, mailed, together>>

(* The requester wants to share a telephone number and has none.           *)
PhoneMissing(k) ==
  /\ At(k, "allowed")
  /\ GoTo(k, "refused")
  /\ UNCHANGED <<streamVars, contacts, mailed, together>>

InsertPending(k) ==
  /\ At(k, "allowed")
  /\ contacts' = Append(contacts, [call |-> k, from |-> calls[k].from,
                                   listing |-> calls[k].listing,
                                   status |-> "pending", age |-> "hour"])
  /\ GoTo(k, "mailing")
  /\ UNCHANGED <<streamVars, mailed, together>>

(* The server takes the mail, or the call fails: it may have been taken.   *)
SendMail(k) ==
  /\ At(k, "mailing")
  /\ \/ GoTo(k, "accepted") /\ mailed' = mailed \cup {k}
     \/ GoTo(k, "bounced") /\ mailed' \in {mailed, mailed \cup {k}}
  /\ UNCHANGED <<streamVars, contacts, together>>

Mark(k, status) ==
  contacts' = [i \in DOMAIN contacts |->
                 IF contacts[i].call = k
                   THEN [contacts[i] EXCEPT !.status = status] ELSE contacts[i]]

MarkSent(k) ==
  /\ At(k, "accepted")
  /\ Mark(k, "sent")
  /\ GoTo(k, "notifying")
  /\ UNCHANGED <<streamVars, mailed, together>>

(* Mutant: a failed delivery goes on to the notification.                  *)
MarkFailedM(k) ==
  /\ At(k, "bounced")
  /\ Mark(k, "failed")
  /\ GoTo(k, "notifying")
  /\ UNCHANGED <<streamVars, mailed, together>>

MarkFailed(k) ==
  /\ At(k, "bounced")
  /\ Mark(k, "failed")
  /\ GoTo(k, "error")
  /\ UNCHANGED <<streamVars, mailed, together>>

(* createListingContactRequestNotification, then the answer.               *)
Notify(k, p) ==
  /\ At(k, "notifying")
  /\ Create(k, p)
  /\ GoTo(k, "sent")
  /\ UNCHANGED <<contacts, mailed, together>>

(* The next statement fails and is not executed: the count, the telephone  *)
(* or the insert, which leave no row; either mark, which leaves the row    *)
(* pending although the mail may have left; or the notification, which     *)
(* leaves it sent.  The caller gets an error.                              *)
StatementFails(k) ==
  /\ calls[k].at \in {"found", "allowed", "accepted", "bounced", "notifying"}
  /\ GoTo(k, "error")
  /\ UNCHANGED <<streamVars, contacts, mailed, together>>

(* The process dies: no step of the call follows, and no answer.           *)
Die(k) ==
  /\ calls[k].at \in {"found", "allowed", "mailing", "accepted", "bounced",
                      "notifying"}
  /\ GoTo(k, "dead")
  /\ UNCHANGED <<streamVars, contacts, mailed, together>>

Older(age) == IF age = "hour" THEN "day" ELSE "older"

(* An hour or a day has passed since a row was created.                    *)
Age(i) ==
  /\ contacts[i].age # "older"
  /\ \A j \in 1..(i - 1) : contacts[j].age # contacts[i].age
  /\ contacts' = [contacts EXCEPT ![i].age = Older(@)]
  /\ UNCHANGED <<streamVars, calls, mailed, together>>

(* Notifications that other services create: decisions, submissions.       *)
NotifyElse(n, p) ==
  /\ n \notin Requests
  /\ Create(n, p)
  /\ UNCHANGED contactVars

Next ==
  \/ \E k \in Requests :
       \/ \E r \in Requesters, l \in Listings : Find(k, r, l)
       \/ CountRecent(k) \/ PhoneMissing(k) \/ InsertPending(k) \/ SendMail(k)
       \/ MarkSent(k) \/ MarkFailed(k) \/ StatementFails(k) \/ Die(k)
       \/ \E p \in Publishes : Notify(k, p)
  \/ \E i \in DOMAIN contacts : Age(i)
  \/ \E n \in Notes, p \in Publishes : NotifyElse(n, p)
  \/ StreamStep /\ UNCHANGED contactVars

Spec == Init /\ [][Next]_vars

-----------------------------------------------------------------------------
(* Rows and calls are well formed, and only calls that got to their insert *)
(* have a row.                                                             *)
TypeOK ==
  /\ StreamTypeOK
  /\ contacts \in Seq(Contact) /\ Len(contacts) <= Cardinality(Requests)
  /\ calls \in [Requests -> Call]
  /\ mailed \subseteq Requests
  /\ together \in Nat \ {0}
  /\ \A k \in Requests :
       calls[k].at \in {"idle", "found", "allowed", "refused"} =>
         \A i \in DOMAIN contacts : contacts[i].call # k

(* Over every window, failed and abandoned requests included, a limit is   *)
(* exceeded by no more than the calls that can have counted the same rows: *)
(* one fewer than were ever between their query of the listing and their   *)
(* insert together.  Calls that do so one after another keep it.           *)
LimitsHold ==
  LET excess == together - 1
  IN /\ Within(Hour, LAMBDA c : TRUE) <= OwnerHourly + excess
     /\ \A r \in Requesters :
          /\ Within(Hour, LAMBDA c : c.from = r) <= RequesterHourly + excess
          /\ Within(Day, LAMBDA c : c.from = r) <= RequesterDaily + excess
          /\ \A l \in Listings :
               Within(Day, LAMBDA c : c.from = r /\ c.listing = l)
                 <= ListingDaily + excess

(* What the four records of a request, the row, the owner's mailbox, the   *)
(* owner's notifications and the caller's answer, never say against each   *)
(* other, whichever step fails and wherever the process dies.  A caller    *)
(* who is told that the request was sent sent it, mail, row and            *)
(* notification; one who is told of an error did not notify the owner.     *)
(* A row is marked as sent, and the owner is notified, only of mail that   *)
(* left; a row is marked as failed only of a request that was not          *)
(* announced and whose caller was not told that it was sent.               *)
AnswerTellsOutcome ==
  \A i \in DOMAIN contacts :
    LET k == contacts[i].call
        Row(status) == contacts[i].status = status
        Notified == notes[k] # "none"
    IN /\ At(k, "sent") => Row("sent") /\ Notified
       /\ At(k, "error") => ~Notified
       /\ Notified => Row("sent")
       /\ Row("sent") => k \in mailed
       /\ Row("failed") => At(k, "error")
=============================================================================
