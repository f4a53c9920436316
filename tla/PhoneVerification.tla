------------------------- MODULE PhoneVerification -------------------------
(***************************************************************************)
(* The telephone numbers of one owner and one listing draft, and the codes *)
(* that verify them.  The profile and the draft keep a number, a flag that *)
(* says it is verified, and a table of codes each; a draft of mode         *)
(* "account" shows the number of the profile.                              *)
(*                                                                         *)
(* Changing a number is one statement.  Asking for a code takes a snapshot *)
(* and writes later; confirming one and submitting the draft read first    *)
(* and write with a second statement.  A call that stops on the way leaves *)
(* what it has committed.  Whether a message with a code arrives, and      *)
(* whether the owner types it right, is left open.                         *)
(***************************************************************************)
EXTENDS Naturals, FiniteSets

CONSTANTS Calls,     \* requests to the API; a code is named after its request
          Numbers,   \* telephone numbers
          None       \* SQL null

ASSUME CallsAssumption == IsFiniteSet(Calls) /\ None \notin Calls \cup Numbers

Places == {"account", "listing"}
Modes == {"none", "account", "listing"}

VARIABLES
  phone,       \* phone[p]: the number kept at place p, and whether verified
  mode,        \* contact_phone_mode of the draft
  open,        \* open[p]: the account exists, the listing can be edited
  submitted,   \* the draft is under review
  codes,       \* codes[k]: the code that call k asked for
  calls        \* calls[k]: local state of call k; "during" is history: the
               \* requests for a code that were under way when k asked for one

vars == <<phone, mode, open, submitted, codes, calls>>

Phone == [number : Numbers \cup {None}, verified : BOOLEAN]
Code == [state : {"none", "live", "spent"}, place : Places \cup {None},
         number : Numbers \cup {None}, stamp : 0..Cardinality(Calls)]
Call == [at : {"idle", "writing", "done"},
         op : {"none", "request", "confirm", "submit"},
         place : Places \cup {None}, phone : Phone, code : Calls \cup {None},
         seen : SUBSET Calls, during : SUBSET Calls, stamp : 0..Cardinality(Calls), ok : BOOLEAN]

NoPhone == [number |-> None, verified |-> FALSE]
NoCode == [state |-> "none", place |-> None, number |-> None, stamp |-> 0]
NoCall == [at |-> "idle", op |-> "none", place |-> None, phone |-> NoPhone,
           code |-> None, seen |-> {}, during |-> {}, stamp |-> 0, ok |-> FALSE]

Init ==
  /\ phone = [p \in Places |-> NoPhone]
  /\ mode = "none"
  /\ open = [p \in Places |-> TRUE]
  /\ submitted = FALSE
  /\ codes = [k \in Calls |-> NoCode]
  /\ calls = [k \in Calls |-> NoCall]

-----------------------------------------------------------------------------
Move(k, local) == calls' = [calls EXCEPT ![k] = local]

Finish(k, ok) == Move(k, [calls[k] EXCEPT !.at = "done", !.ok = ok,
                                          !.phone = NoPhone, !.seen = {}])

Live(p) == {k \in Calls : codes[k].state = "live" /\ codes[k].place = p}

(* Mutant: the flag outlives the number it was given for.                  *)
ChangedM(p, n) == [phone[p] EXCEPT !.number = n]

(* A verified number that changes is not verified any more.                *)
Changed(p, n) == [number |-> n,
                  verified |-> phone[p].verified /\ phone[p].number = n]

-----------------------------------------------------------------------------
(* PATCH /users/me: the number of the profile is set or removed.           *)
UpdateProfile(n) ==
  /\ open["account"]
  /\ phone' = [phone EXCEPT !["account"] = Changed("account", n)]
  /\ UNCHANGED <<mode, open, submitted, codes, calls>>

NumberFor(m, n) == IF m = "listing" THEN n ELSE None

(* The draft's mode and number, which can change until a moderator has     *)
(* decided, under review included.                                         *)
UpdateDraft(m, n) ==
  /\ open["listing"]
  /\ mode' = m
  /\ phone' = [phone EXCEPT !["listing"] = Changed("listing", NumberFor(m, n))]
  /\ UNCHANGED <<open, submitted, codes, calls>>

(* The listing is decided on or thrown away; the account is deleted, which *)
(* takes its number with it.                                               *)
Close(p) ==
  /\ open[p]
  /\ open' = [open EXCEPT ![p] = FALSE]
  /\ phone' = IF p = "account" THEN [phone EXCEPT ![p] = NoPhone] ELSE phone
  /\ UNCHANGED <<mode, submitted, codes, calls>>

-----------------------------------------------------------------------------
Asking == {k \in Calls : calls[k].at = "writing" /\ calls[k].op = "request"}

(* Mutant: only the codes that were sent to the same number are voided.    *)
VoidedM(p) == {c \in Live(p) : codes[c].number = phone[p].number}

(* A new code voids all that the place still has.                          *)
Voided(p) == Live(p)

(* A code is asked for: the statement finds the number in its snapshot,    *)
(* with the codes it will replace.                                         *)
RequestRead(k, p) ==
  /\ calls[k].at = "idle"
  /\ open[p]
  /\ p = "listing" => mode = "listing"
  /\ Move(k, [NoCall EXCEPT !.at = "writing", !.op = "request", !.place = p,
                            !.phone = phone[p], !.seen = Voided(p),
                            !.during = Asking,
                            !.stamp = 1 + Cardinality({j \in Calls :
                                            calls[j].stamp > 0})])
  /\ UNCHANGED <<phone, mode, open, submitted, codes>>

(* They are consumed even if there is no number, or it is verified, and no *)
(* code takes their place.                                                 *)
RequestWrite(k) ==
  LET local == calls[k]
      wanted == local.phone.number # None /\ ~local.phone.verified
  IN /\ local.at = "writing" /\ local.op = "request"
     /\ codes' = [j \in Calls |->
                    IF j = k /\ wanted
                      THEN [state |-> "live", place |-> local.place,
                            number |-> local.phone.number,
                            stamp |-> local.stamp]
                    ELSE IF j \in local.seen
                      THEN [codes[j] EXCEPT !.state = "spent"]
                      ELSE codes[j]]
     /\ Finish(k, wanted)
     /\ UNCHANGED <<phone, mode, open, submitted>>

Expire(c) ==
  /\ codes[c].state = "live"
  /\ codes' = [codes EXCEPT ![c].state = "spent"]
  /\ UNCHANGED <<phone, mode, open, submitted, calls>>

(* A confirmation finds the newest live code, and the owner knows it.      *)
ConfirmRead(k, p) ==
  /\ calls[k].at = "idle"
  /\ \E c \in Live(p) :
       /\ \A d \in Live(p) : codes[d].stamp <= codes[c].stamp
       /\ Move(k, [NoCall EXCEPT !.at = "writing", !.op = "confirm",
                                 !.place = p, !.code = c])
  /\ UNCHANGED <<phone, mode, open, submitted, codes>>

Consumable(c) == codes[c].state = "live"
Matches(p, c) == open[p] /\ phone[p].number = codes[c].number

(* The code is consumed if it is still live, and the number verified if it *)
(* is still the one the code was sent to.                                  *)
ConfirmWrite(k) ==
  LET c == calls[k].code
      p == calls[k].place
      ok == Consumable(c) /\ Matches(p, c)
  IN /\ calls[k].at = "writing" /\ calls[k].op = "confirm"
     /\ codes' = IF Consumable(c) THEN [codes EXCEPT ![c].state = "spent"]
                 ELSE codes
     /\ phone' = IF ok THEN [phone EXCEPT ![p].verified = TRUE] ELSE phone
     /\ Finish(k, ok)
     /\ UNCHANGED <<mode, open, submitted>>

-----------------------------------------------------------------------------
(* validateDraftPhoneReadiness                                             *)
PhoneReady == mode \in Places => phone[mode].number # None /\ phone[mode].verified

(* The submission reads the draft and the profile, then writes without     *)
(* looking at them again.                                                  *)
SubmitRead(k) ==
  /\ calls[k].at = "idle"
  /\ open["listing"] /\ ~submitted
  /\ PhoneReady
  /\ Move(k, [NoCall EXCEPT !.at = "writing", !.op = "submit"])
  /\ UNCHANGED <<phone, mode, open, submitted, codes>>

SubmitWrite(k) ==
  LET ok == open["listing"] /\ ~submitted
  IN /\ calls[k].at = "writing" /\ calls[k].op = "submit"
     /\ submitted' = (submitted \/ ok)
     /\ Finish(k, ok)
     /\ UNCHANGED <<phone, mode, open, codes>>

Next ==
  \/ \E n \in Numbers \cup {None} : UpdateProfile(n)
  \/ \E m \in Modes, n \in Numbers : UpdateDraft(m, n)
  \/ \E p \in Places : Close(p)
  \/ \E k \in Calls :
       \/ \E p \in Places : RequestRead(k, p) \/ ConfirmRead(k, p)
       \/ RequestWrite(k) \/ ConfirmWrite(k)
       \/ SubmitRead(k) \/ SubmitWrite(k)
       \/ Expire(k)

Spec == Init /\ [][Next]_vars

-----------------------------------------------------------------------------
(* Rows and calls are well formed; a draft has a number of its own exactly *)
(* when its mode says so.                                                  *)
TypeOK ==
  /\ phone \in [Places -> Phone]
  /\ mode \in Modes
  /\ phone["listing"].number # None <=> mode = "listing"
  /\ open \in [Places -> BOOLEAN]
  /\ submitted \in BOOLEAN
  /\ codes \in [Calls -> Code]
  /\ calls \in [Calls -> Call]

Confirmed(k) == calls[k].op = "confirm" /\ calls[k].ok

(* A number that is shown as verified was confirmed with a code sent to    *)
(* that very number from that very place, however often it changed between *)
(* the request, the message, the confirmation's query and its update; and  *)
(* no code verified twice, however often it was sent at the same time.     *)
VerifiedWasConfirmed ==
  /\ \A p \in Places :
       phone[p].verified =>
         \E k \in Calls :
           /\ Confirmed(k)
           /\ calls[k].place = p
           /\ codes[calls[k].code].number = phone[p].number
  /\ \A j, k \in Calls :
       j # k /\ Confirmed(j) /\ Confirmed(k) => calls[j].code # calls[k].code

Overlapped(c, d) == c \in calls[d].during \/ d \in calls[c].during

(* Of the codes of one place only the newest is good, whatever happened to *)
(* the number in between: two are live together only if they were asked    *)
(* for at the same time, so that neither statement had the other's code in *)
(* its snapshot.                                                           *)
OlderCodesAreVoid ==
  \A p \in Places : \A c, d \in Live(p) : c # d => Overlapped(c, d)
=============================================================================
