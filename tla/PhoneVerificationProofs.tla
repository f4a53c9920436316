---------------------- MODULE PhoneVerificationProofs -----------------------
(***************************************************************************)
(* Proofs about PhoneVerification, for any numbers and any calls.          *)
(***************************************************************************)
EXTENDS PhoneVerification, FiniteSetTheorems, TLAPS

(* A call that has not begun has no state; a confirmation that is about to *)
(* write has a code and a place.                                           *)
CallsHold ==
  \A k \in Calls :
    /\ calls[k].at = "idle" => calls[k] = NoCall
    /\ calls[k].op = "confirm" => calls[k].code \in Calls /\ calls[k].place \in Places

(* A code exists once the call that asked for it is over, and before       *)
(* another call sees it; it has been spent when a confirmation succeeded.  *)
CodesHold ==
  /\ \A k \in Calls :
       codes[k].state # "none" => calls[k].op = "request" /\ calls[k].at = "done"
  /\ \A k \in Calls : \A c \in calls[k].seen : c \in Calls /\ codes[c].state # "none"
  /\ \A k \in Calls :
       Confirmed(k) => /\ calls[k].at = "done"
                       /\ codes[calls[k].code].state = "spent"

(* A request that is under way will void every code of its place, unless   *)
(* that was asked for at the same time; of two requests that are under way *)
(* the later one knows of the other.                                       *)
RequestsHold ==
  /\ \A c, d \in Asking : c # d => Overlapped(c, d)
  /\ \A d \in Asking : \A p : p = calls[d].place =>
       \A c \in Live(p) : c \in calls[d].seen \/ Overlapped(c, d)

IInv == /\ TypeOK /\ CallsHold /\ CodesHold /\ RequestsHold
        /\ VerifiedWasConfirmed /\ OlderCodesAreVoid

-----------------------------------------------------------------------------
(* A call that begins takes a number that is still free.                   *)
LEMMA NextStamp ==
  ASSUME TypeOK, NEW k \in Calls, calls[k] = NoCall
  PROVE  1 + Cardinality({j \in Calls : calls[j].stamp > 0}) \in 0..Cardinality(Calls)
<1> DEFINE S == {j \in Calls : calls[j].stamp > 0}
<1>1. /\ IsFiniteSet(Calls) /\ Cardinality(Calls) \in Nat
      /\ IsFiniteSet(Calls \ {k})
      /\ Cardinality(Calls \ {k}) = Cardinality(Calls) - 1
  BY CallsAssumption, FS_CardinalityType, FS_RemoveElement
<1>2. k \notin S
  BY DEF NoCall
<1>3. S \subseteq Calls \ {k}
  BY <1>2
<1> HIDE DEF S
<1>4. Cardinality(S) <= Cardinality(Calls \ {k}) /\ IsFiniteSet(S)
  BY <1>1, <1>3, FS_Subset
<1>5. Cardinality(S) \in Nat
  BY <1>4, FS_CardinalityType
<1>6. 1 + Cardinality(S) \in 0..Cardinality(Calls)
  BY <1>1, <1>4, <1>5
<1> QED
  BY <1>6 DEF S

(* No call is under way without a state of the right type.                 *)
LEMMA LocalTypes ==
  ASSUME TypeOK
  PROVE  /\ None \notin Calls /\ None \notin Numbers
         /\ NoPhone \in Phone
         /\ \A p \in Places : /\ phone[p] \in Phone
                              /\ phone[p].number \in Numbers \cup {None}
                              /\ phone[p].verified \in BOOLEAN
         /\ \A k \in Calls : calls[k] \in Call /\ codes[k] \in Code
         /\ \A p \in Places, n \in Numbers \cup {None} : Changed(p, n) \in Phone
<1>1. None \notin Calls /\ None \notin Numbers
  BY CallsAssumption
<1>2. \A p \in Places : /\ phone[p] \in Phone
                        /\ phone[p].number \in Numbers \cup {None}
                        /\ phone[p].verified \in BOOLEAN
  BY DEF TypeOK, Phone
<1>3. NoPhone \in Phone
  BY DEF NoPhone, Phone
<1>4. \A k \in Calls : calls[k] \in Call /\ codes[k] \in Code
  BY DEF TypeOK
<1>5. \A p \in Places, n \in Numbers \cup {None} : Changed(p, n) \in Phone
  BY <1>2 DEF Changed, Phone
<1> QED
  BY <1>1, <1>2, <1>3, <1>4, <1>5

(* A number that is verified after a change was so before, and is the same.*)
LEMMA ChangedNumber ==
  ASSUME NEW p, NEW n
  PROVE  /\ Changed(p, n).number = n
         /\ Changed(p, n).verified => phone[p].verified /\ phone[p].number = n
<1>1. Changed(p, n).verified = (phone[p].verified /\ phone[p].number = n)
  BY DEF Changed
<1>2. Changed(p, n).number = n
  BY DEF Changed
<1> QED
  BY <1>1, <1>2

-----------------------------------------------------------------------------
(* A change of a number, of the mode, or the end of a place.  A number     *)
(* that is verified after it was so before, and is the same.               *)
LEMMA NumberStep ==
  ASSUME IInv,
         UNCHANGED <<submitted, codes, calls>>,
         phone' \in [Places -> Phone], mode' \in Modes, open' \in [Places -> BOOLEAN],
         phone'["listing"].number # None <=> mode' = "listing",
         \A p \in Places : phone'[p].verified =>
                             phone[p].verified /\ phone'[p].number = phone[p].number
  PROVE  IInv'
<1>2. TypeOK'
  BY DEF IInv, TypeOK
<1>3. CallsHold' /\ CodesHold'
  BY DEF IInv, CallsHold, CodesHold, Confirmed
<1>4. RequestsHold' /\ OlderCodesAreVoid'
  BY DEF IInv, RequestsHold, OlderCodesAreVoid, Asking, Live, Overlapped
<1>5. VerifiedWasConfirmed'
  BY DEF IInv, VerifiedWasConfirmed, Confirmed
<1> QED
  BY <1>2, <1>3, <1>4, <1>5 DEF IInv

LEMMA NumbersKeepInv ==
  ASSUME IInv,
         \/ \E n \in Numbers \cup {None} : UpdateProfile(n)
         \/ \E m \in Modes, n \in Numbers : UpdateDraft(m, n)
         \/ \E p \in Places : Close(p)
  PROVE  IInv'
<1>0. /\ TypeOK /\ phone \in [Places -> Phone] /\ mode \in Modes
      /\ open \in [Places -> BOOLEAN]
      /\ phone["listing"].number # None <=> mode = "listing"
      /\ "account" \in Places /\ "listing" \in Places /\ "account" # "listing"
  BY DEF IInv, TypeOK, Places
<1>1. ASSUME NEW n \in Numbers \cup {None}, UpdateProfile(n) PROVE IInv'
  <2>1. /\ UNCHANGED <<mode, open, submitted, codes, calls>>
        /\ phone' = [phone EXCEPT !["account"] = Changed("account", n)]
    BY <1>1 DEF UpdateProfile
  <2>2. Changed("account", n) \in Phone
    BY <1>0, LocalTypes
  <2>3. /\ phone' \in [Places -> Phone]
        /\ phone'["account"] = Changed("account", n)
        /\ \A p \in Places : p # "account" => phone'[p] = phone[p]
    BY <1>0, <2>1, <2>2
  <2>4. \A p \in Places : phone'[p].verified =>
          phone[p].verified /\ phone'[p].number = phone[p].number
    BY <2>3, ChangedNumber
  <2> QED
    BY <1>0, <2>1, <2>3, <2>4, NumberStep
<1>2. ASSUME NEW m \in Modes, NEW n \in Numbers, UpdateDraft(m, n) PROVE IInv'
  <2>1. /\ UNCHANGED <<open, submitted, codes, calls>>
        /\ phone' = [phone EXCEPT !["listing"] = Changed("listing", NumberFor(m, n))]
        /\ mode' = m
    BY <1>2 DEF UpdateDraft
  <2>2. /\ NumberFor(m, n) \in Numbers \cup {None}
        /\ NumberFor(m, n) # None <=> m = "listing"
    BY CallsAssumption DEF NumberFor
  <2>3. /\ Changed("listing", NumberFor(m, n)) \in Phone
        /\ Changed("listing", NumberFor(m, n)).number = NumberFor(m, n)
    BY <1>0, <2>2, LocalTypes, ChangedNumber
  <2>4. /\ phone' \in [Places -> Phone]
        /\ phone'["listing"] = Changed("listing", NumberFor(m, n))
        /\ \A p \in Places : p # "listing" => phone'[p] = phone[p]
    BY <1>0, <2>1, <2>3
  <2>5. \A p \in Places : phone'[p].verified =>
          phone[p].verified /\ phone'[p].number = phone[p].number
    BY <2>4, ChangedNumber
  <2> QED
    BY <1>0, <2>1, <2>2, <2>3, <2>4, <2>5, NumberStep
<1>3. ASSUME NEW p \in Places, Close(p) PROVE IInv'
  <2>1. /\ UNCHANGED <<mode, submitted, codes, calls>>
        /\ open' = [open EXCEPT ![p] = FALSE]
        /\ phone' = IF p = "account" THEN [phone EXCEPT ![p] = NoPhone] ELSE phone
    BY <1>3 DEF Close
  <2>2. open' \in [Places -> BOOLEAN]
    BY <1>0, <2>1
  <2>3. /\ phone' \in [Places -> Phone]
        /\ phone'["listing"] = phone["listing"]
        /\ \A q \in Places : phone'[q] = phone[q] \/ phone'[q] = NoPhone
    BY <1>0, <2>1, LocalTypes
  <2>4. \A q \in Places : phone'[q].verified =>
          phone[q].verified /\ phone'[q].number = phone[q].number
    BY <2>3 DEF NoPhone
  <2> QED
    BY <1>0, <2>1, <2>2, <2>3, <2>4, NumberStep
<1> QED
  BY <1>1, <1>2, <1>3

-----------------------------------------------------------------------------
(* A step of call k that reads, or that writes codes and phones as given   *)
(* by the hypotheses, ends in a state whose calls are well formed.         *)
LEMMA Moved ==
  ASSUME IInv, NEW k \in Calls, NEW c \in Call, Move(k, c)
  PROVE  /\ calls' \in [Calls -> Call]
         /\ calls'[k] = c
         /\ \A j \in Calls \ {k} : calls'[j] = calls[j]
  BY DEF IInv, TypeOK, Move

(* What a call leaves behind when it ends.                                 *)
Ended(k, ok) == [calls[k] EXCEPT !.at = "done", !.ok = ok,
                                 !.phone = NoPhone, !.seen = {}]

LEMMA EndedCall ==
  ASSUME IInv, NEW k \in Calls, NEW ok \in BOOLEAN, Finish(k, ok)
  PROVE  /\ Move(k, Ended(k, ok)) /\ Ended(k, ok) \in Call
         /\ Ended(k, ok).at = "done" /\ Ended(k, ok).ok = ok
         /\ Ended(k, ok).op = calls[k].op /\ Ended(k, ok).code = calls[k].code
         /\ Ended(k, ok).place = calls[k].place /\ Ended(k, ok).seen = {}
         /\ Ended(k, ok).during = calls[k].during
<1>1. TypeOK /\ calls[k] \in Call /\ NoPhone \in Phone
  BY LocalTypes DEF IInv, TypeOK
<1> QED
  BY <1>1 DEF Finish, Ended, Call

(* The steps that begin a call.                                            *)
LEMMA BeginKeepsInv ==
  ASSUME IInv, NEW k \in Calls, NEW c \in Call, Move(k, c),
         UNCHANGED <<phone, mode, open, submitted, codes>>,
         calls[k].at = "idle", c.at = "writing", c.ok = FALSE,
         c.op = "confirm" => c.code \in Calls /\ c.place \in Places,
         c.op = "request" => c.seen = Live(c.place) /\ c.during = Asking,
         \A d \in c.seen : d \in Calls /\ codes[d].state # "none"
  PROVE  IInv'
<1>1. /\ calls' \in [Calls -> Call]
      /\ calls'[k] = c
      /\ \A j \in Calls \ {k} : calls'[j] = calls[j]
  BY Moved
<1>2. calls[k] = NoCall /\ ~Confirmed(k) /\ codes[k].state = "none"
  BY DEF IInv, CallsHold, CodesHold, NoCall, Confirmed
<1>3. TypeOK'
  BY <1>1 DEF IInv, TypeOK
<1>4. CallsHold'
  BY <1>1 DEF IInv, CallsHold
<1>5. ~Confirmed(k)' /\ \A j \in Calls \ {k} : Confirmed(j)' <=> Confirmed(j)
  BY <1>1 DEF Confirmed
<1>6. CodesHold'
  BY <1>1, <1>2, <1>5 DEF IInv, CodesHold
<1>7. /\ \A p : Live(p)' = Live(p) /\ k \notin Live(p)
      /\ Asking' = IF c.op = "request" THEN Asking \cup {k} ELSE Asking
      /\ k \notin Asking /\ Asking \subseteq Calls
  BY <1>1, <1>2 DEF Live, Asking
<1>8. \A i, j \in Calls \ {k} : Overlapped(i, j)' = Overlapped(i, j)
  BY <1>1 DEF Overlapped
<1>9. RequestsHold'
  <2>1. ASSUME NEW i \in Asking', NEW j \in Asking', i # j PROVE Overlapped(i, j)'
    <3>1. CASE i # k /\ j # k
      BY <1>7, <1>8, <2>1, <3>1 DEF IInv, RequestsHold
    <3>2. CASE i = k
      BY <1>1, <1>7, <2>1, <3>2 DEF Overlapped
    <3>3. CASE j = k
      BY <1>1, <1>7, <2>1, <3>3 DEF Overlapped
    <3> QED
      BY <3>1, <3>2, <3>3
  <2>2. ASSUME NEW j \in Asking', NEW p, p = calls'[j].place, NEW i \in Live(p)'
        PROVE  i \in calls'[j].seen \/ Overlapped(i, j)'
    <3>1. i # k /\ i \in Calls
      BY <1>7, <2>2 DEF Live
    <3>2. CASE j = k
      BY <1>1, <1>7, <2>2, <3>2
    <3>3. CASE j # k
      <4>1. j \in Asking /\ calls'[j] = calls[j] /\ p = calls[j].place /\ i \in Live(p)
        BY <1>1, <1>7, <2>2, <3>3
      <4> QED
        BY <1>7, <1>8, <3>1, <3>3, <4>1 DEF IInv, RequestsHold
    <3> QED
      BY <3>2, <3>3
  <2> QED
    BY <2>1, <2>2 DEF RequestsHold
<1>10. VerifiedWasConfirmed'
  BY <1>1, <1>2, <1>5 DEF IInv, VerifiedWasConfirmed
<1>11. OlderCodesAreVoid'
  <2>1. \A p \in Places : Live(p) \subseteq Calls \ {k}
    BY <1>7 DEF Live
  <2> QED
    BY <1>7, <1>8, <2>1 DEF IInv, OlderCodesAreVoid
<1> QED
  BY <1>3, <1>4, <1>6, <1>9, <1>10, <1>11 DEF IInv

LEMMA ReadsKeepInv ==
  ASSUME IInv, NEW k \in Calls,
         \/ \E p \in Places : RequestRead(k, p) \/ ConfirmRead(k, p)
         \/ SubmitRead(k)
  PROVE  IInv'
<1>0. TypeOK /\ (calls[k].at = "idle" => calls[k] = NoCall)
  BY DEF IInv, CallsHold
<1>1. ASSUME NEW p \in Places, RequestRead(k, p) PROVE IInv'
  <2> DEFINE n == 1 + Cardinality({j \in Calls : calls[j].stamp > 0})
             c == [NoCall EXCEPT !.at = "writing", !.op = "request", !.place = p,
                                 !.phone = phone[p], !.seen = Voided(p),
                                 !.during = Asking, !.stamp = n]
  <2>1. Move(k, c) /\ UNCHANGED <<phone, mode, open, submitted, codes>>
        /\ calls[k].at = "idle"
    BY <1>1 DEF RequestRead
  <2>2. n \in 0..Cardinality(Calls)
    BY <1>0, <2>1, NextStamp
  <2>3. phone[p] \in Phone /\ Live(p) \in SUBSET Calls /\ Asking \in SUBSET Calls
    BY <1>0, LocalTypes DEF Live, Asking
  <2> HIDE DEF n
  <2>4. /\ c \in Call /\ c.at = "writing" /\ c.op = "request" /\ c.ok = FALSE
        /\ c.seen = Live(p) /\ c.place = p /\ c.during = Asking
    BY <2>2, <2>3 DEF NoCall, Call, Voided
  <2>5. \A d \in Live(p) : d \in Calls /\ codes[d].state # "none"
    BY DEF Live
  <2> HIDE DEF c
  <2> QED
    BY <2>1, <2>4, <2>5, BeginKeepsInv
<1>2. ASSUME NEW p \in Places, ConfirmRead(k, p) PROVE IInv'
  <2>1. PICK d \in Live(p) :
          Move(k, [NoCall EXCEPT !.at = "writing", !.op = "confirm",
                                 !.place = p, !.code = d])
    BY <1>2 DEF ConfirmRead
  <2> DEFINE c == [NoCall EXCEPT !.at = "writing", !.op = "confirm",
                                 !.place = p, !.code = d]
  <2>2. /\ Move(k, c) /\ UNCHANGED <<phone, mode, open, submitted, codes>>
        /\ calls[k].at = "idle" /\ d \in Calls
    BY <1>2, <2>1 DEF ConfirmRead, Live
  <2>3. NoPhone \in Phone /\ 0 \in 0..Cardinality(Calls)
    BY <1>0, LocalTypes, CallsAssumption, FS_CardinalityType
  <2>4. /\ c \in Call /\ c.at = "writing" /\ c.op = "confirm" /\ c.ok = FALSE
        /\ c.code = d /\ c.place = p /\ c.seen = {}
    BY <2>2, <2>3 DEF NoCall, Call
  <2> HIDE DEF c
  <2> QED
    BY <2>2, <2>4, BeginKeepsInv
<1>3. CASE SubmitRead(k)
  <2> DEFINE c == [NoCall EXCEPT !.at = "writing", !.op = "submit"]
  <2>1. /\ Move(k, c) /\ UNCHANGED <<phone, mode, open, submitted, codes>>
        /\ calls[k].at = "idle"
    BY <1>3 DEF SubmitRead
  <2>2. NoPhone \in Phone /\ 0 \in 0..Cardinality(Calls)
    BY <1>0, LocalTypes, CallsAssumption, FS_CardinalityType
  <2>3. /\ c \in Call /\ c.at = "writing" /\ c.op = "submit" /\ c.ok = FALSE
        /\ c.seen = {}
    BY <2>2 DEF NoCall, Call
  <2> HIDE DEF c
  <2> QED
    BY <2>1, <2>3, BeginKeepsInv
<1> QED
  BY <1>1, <1>2, <1>3

-----------------------------------------------------------------------------
(* The statement of a request adds its own code and spends others.         *)
LEMMA RequestKeepsInv ==
  ASSUME IInv, NEW k \in Calls, RequestWrite(k)
  PROVE  IInv'
<1> DEFINE local == calls[k]
           wanted == local.phone.number # None /\ ~local.phone.verified
           code == [state |-> "live", place |-> local.place,
                    number |-> local.phone.number, stamp |-> local.stamp]
<1>0. /\ TypeOK /\ local.at = "writing" /\ local.op = "request"
      /\ Finish(k, wanted) /\ wanted \in BOOLEAN
      /\ UNCHANGED <<phone, mode, open, submitted>>
      /\ codes' = [j \in Calls |->
                     IF j = k /\ wanted THEN code
                     ELSE IF j \in local.seen THEN [codes[j] EXCEPT !.state = "spent"]
                     ELSE codes[j]]
  BY DEF IInv, RequestWrite
<1>1. local \in Call /\ \A j \in Calls : codes[j] \in Code
  BY <1>0, LocalTypes
<1>2. code \in Code
  BY <1>1 DEF Code, Call, Phone
<1> DEFINE ended == Ended(k, wanted)
<1>3. /\ Move(k, ended) /\ ended \in Call /\ ended.at = "done"
      /\ ended.op = "request" /\ ended.seen = {} /\ ended.during = local.during
  BY <1>0, EndedCall
<1>4. codes[k].state = "none" /\ ~Confirmed(k)
  BY <1>0 DEF IInv, CodesHold, Confirmed
<1>5. k \notin local.seen /\ local.seen \subseteq Calls
      /\ \A j \in local.seen : codes[j].state # "none"
  BY <1>4 DEF IInv, CodesHold
<1>6. /\ calls' \in [Calls -> Call] /\ calls'[k] = ended
      /\ \A j \in Calls \ {k} : calls'[j] = calls[j]
  <2> HIDE DEF ended
  <2> QED
    BY <1>3, Moved
<1>7. codes' \in [Calls -> Code]
  <2> HIDE DEF ended, wanted, code
  <2> QED
    BY <1>0, <1>1, <1>2 DEF Code
<1>8. /\ \A j \in Calls \ {k} : codes'[j].number = codes[j].number
      /\ \A j \in Calls \ {k} : codes'[j].state = codes[j].state
                                \/ (codes[j].state # "none" /\ codes'[j].state = "spent")
      /\ codes'[k].state \in {"none", "live"}
      /\ codes'[k].state = "live" => codes'[k].place = local.place
      /\ \A j \in Calls \ {k} : codes'[j].place = codes[j].place
      /\ \A j \in local.seen : codes'[j].state = "spent"
  <2>1. code.state = "live" /\ code.place = local.place
    OBVIOUS
  <2> HIDE DEF ended, wanted, code
  <2> QED
    BY <1>0, <1>1, <1>4, <1>5, <2>1 DEF Code
<1>16. /\ Asking' = Asking \ {k} /\ k \in Asking
       /\ \A p : Live(p)' \subseteq (Live(p) \ local.seen) \cup
                                   (IF p = local.place THEN {k} ELSE {})
  <2>1. Asking' = Asking \ {k} /\ k \in Asking
    <3> HIDE DEF ended
    <3> QED
      BY <1>0, <1>3, <1>6 DEF Asking
  <2>2. \A p : Live(p)' \subseteq (Live(p) \ local.seen) \cup
                                   (IF p = local.place THEN {k} ELSE {})
    <3> HIDE DEF ended, wanted, code, local
    <3> QED
      BY <1>8 DEF Live
  <2> QED
    BY <2>1, <2>2
<1>17. \A i, j : i \in Calls /\ j \in Calls => Overlapped(i, j)' = Overlapped(i, j)
  <2>1. \A j \in Calls : calls'[j].during = calls[j].during
    <3> HIDE DEF ended
    <3> QED
      BY <1>3, <1>6
  <2> QED
    BY <2>1 DEF Overlapped
<1>18. \A i, p : i \in Live(p) => i \in Calls
  BY DEF Live
<1>19. \A j \in Calls \ {k} : calls'[j] = calls[j]
  BY <1>6
<1>20. \A p : k \notin Live(p)
  BY <1>4 DEF Live
<1>21. ASSUME NEW i \in Live(local.place), i \notin local.seen
       PROVE  Overlapped(i, k)'
  BY <1>16, <1>17, <1>18, <1>21 DEF IInv, RequestsHold
<1> HIDE DEF ended, wanted, code, local
<1>9. TypeOK'
  BY <1>0, <1>6, <1>7 DEF TypeOK
<1>10. CallsHold'
  BY <1>3, <1>6 DEF IInv, CallsHold
<1>11. ~Confirmed(k)' /\ \A j \in Calls \ {k} : Confirmed(j)' <=> Confirmed(j)
  BY <1>3, <1>6 DEF Confirmed
<1>12. \A j \in Calls : Confirmed(j) => calls[j].code \in Calls \ {k}
  BY <1>4 DEF IInv, CallsHold, CodesHold, Confirmed
<1>13. CodesHold'
  <2>1. \A j \in Calls : codes'[j].state # "none" =>
          calls'[j].op = "request" /\ calls'[j].at = "done"
    BY <1>3, <1>6, <1>8 DEF IInv, CodesHold
  <2>2. \A j \in Calls : \A c \in calls'[j].seen : c \in Calls /\ codes'[c].state # "none"
    <3>1. \A j \in Calls \ {k} : \A c \in calls[j].seen :
            c \in Calls \ {k} /\ codes'[c].state # "none"
      BY <1>4, <1>8 DEF IInv, CodesHold
    <3> QED
      BY <1>3, <1>6, <3>1
  <2>3. \A j \in Calls : Confirmed(j)' => /\ calls'[j].at = "done"
                                          /\ codes'[calls'[j].code].state = "spent"
    BY <1>6, <1>8, <1>11, <1>12 DEF IInv, CodesHold
  <2> QED
    BY <2>1, <2>2, <2>3 DEF CodesHold
<1>14. RequestsHold'
  <2>1. \A i, j \in Asking' : i # j => Overlapped(i, j)'
    <3>1. Asking' \subseteq Asking /\ Asking \subseteq Calls
      BY <1>16 DEF Asking
    <3> QED
      BY <1>17, <3>1 DEF IInv, RequestsHold
  <2>2. ASSUME NEW j \in Asking', NEW p, p = calls'[j].place, NEW i \in Live(p)'
        PROVE  i \in calls'[j].seen \/ Overlapped(i, j)'
    <3>1. j \in Asking /\ j # k /\ j \in Calls /\ calls'[j] = calls[j]
      BY <1>16, <1>19 DEF Asking
    <3>2. p = calls[j].place /\ (i \in Live(p) \/ i = k)
      BY <1>16, <2>2, <3>1
    <3>3. CASE i = k
      BY <1>16, <1>17, <3>1, <3>3 DEF IInv, RequestsHold
    <3>4. CASE i \in Live(p)
      BY <1>17, <1>18, <3>1, <3>2, <3>4 DEF IInv, RequestsHold
    <3> QED
      BY <3>2, <3>3, <3>4
  <2> QED
    BY <2>1, <2>2 DEF RequestsHold
<1>22. OlderCodesAreVoid'
  <2>1. ASSUME NEW p \in Places, NEW i \in Live(p)', NEW j \in Live(p)', i # j
        PROVE  Overlapped(i, j)'
    <3>1. CASE i # k /\ j # k
      BY <1>16, <1>17, <1>18, <2>1, <3>1 DEF IInv, OlderCodesAreVoid
    <3>2. CASE i = k
      <4>1. p = local.place /\ j \in Live(local.place) /\ j \notin local.seen
        BY <1>16, <1>20, <2>1, <3>2
      <4> QED
        BY <1>21, <3>2, <4>1 DEF Overlapped
    <3>3. CASE j = k
      <4>1. p = local.place /\ i \in Live(local.place) /\ i \notin local.seen
        BY <1>16, <1>20, <2>1, <3>3
      <4> QED
        BY <1>21, <3>3, <4>1
    <3> QED
      BY <3>1, <3>2, <3>3
  <2> QED
    BY <2>1 DEF OlderCodesAreVoid
<1>15. VerifiedWasConfirmed'
  <2>1. \A j \in Calls : Confirmed(j) =>
          /\ j # k /\ Confirmed(j)' /\ calls'[j] = calls[j]
          /\ codes'[calls[j].code].number = codes[calls[j].code].number
    BY <1>4, <1>6, <1>8, <1>11, <1>12
  <2>2. \A p \in Places :
          phone'[p].verified =>
            \E j \in Calls : /\ Confirmed(j)'
                             /\ calls'[j].place = p
                             /\ codes'[calls'[j].code].number = phone'[p].number
    BY <1>0, <2>1 DEF IInv, VerifiedWasConfirmed
  <2>3. \A i, j \in Calls : i # j /\ Confirmed(i)' /\ Confirmed(j)' =>
          calls'[i].code # calls'[j].code
    BY <1>6, <1>11 DEF IInv, VerifiedWasConfirmed
  <2> QED
    BY <2>2, <2>3 DEF VerifiedWasConfirmed
<1> QED
  BY <1>9, <1>10, <1>13, <1>14, <1>15, <1>22 DEF IInv

(* Requests and codes stay in order when codes are spent and no request    *)
(* begins.                                                                 *)
LEMMA FewerCodes ==
  ASSUME IInv,
         \A j \in Calls : codes'[j].state = "live" => codes[j].state = "live",
         \A j \in Calls : codes'[j].place = codes[j].place,
         \A j \in Calls : /\ j \in Asking' => j \in Asking /\ calls'[j] = calls[j]
                          /\ calls'[j].during = calls[j].during
  PROVE  RequestsHold' /\ OlderCodesAreVoid'
<1>1. \A p : Live(p)' \subseteq Live(p) /\ Live(p) \subseteq Calls
  BY DEF Live
<1>2. Asking' \subseteq Asking /\ \A j \in Asking' : j \in Calls /\ calls'[j] = calls[j]
  BY DEF Asking
<1>3. \A i, j \in Calls : Overlapped(i, j)' = Overlapped(i, j)
  BY DEF Overlapped
<1>4. OlderCodesAreVoid'
  BY <1>1, <1>3 DEF IInv, OlderCodesAreVoid
<1>5. \A i, j \in Asking' : i # j => Overlapped(i, j)'
  BY <1>2, <1>3 DEF IInv, RequestsHold
<1>6. \A j \in Asking' : \A p : p = calls'[j].place =>
        \A i \in Live(p)' : i \in calls'[j].seen \/ Overlapped(i, j)'
  BY <1>1, <1>2, <1>3 DEF IInv, RequestsHold
<1> QED
  BY <1>4, <1>5, <1>6 DEF RequestsHold

(* A code that expires is spent.                                           *)
LEMMA ExpiryKeepsInv ==
  ASSUME IInv, NEW k \in Calls, Expire(k)
  PROVE  IInv'
<1>0. /\ TypeOK /\ codes[k].state = "live" /\ codes \in [Calls -> Code]
      /\ codes' = [codes EXCEPT ![k].state = "spent"]
      /\ UNCHANGED <<phone, mode, open, submitted, calls>>
  BY DEF IInv, TypeOK, Expire
<1>1. /\ codes' \in [Calls -> Code]
      /\ \A j \in Calls : codes'[j].number = codes[j].number
      /\ \A j \in Calls : codes'[j].state = codes[j].state
                          \/ (codes[j].state # "none" /\ codes'[j].state = "spent")
  BY <1>0 DEF Code
<1>2. TypeOK' /\ CallsHold'
  BY <1>0, <1>1 DEF IInv, TypeOK, CallsHold
<1>3. \A j \in Calls : /\ Confirmed(j)' <=> Confirmed(j)
                       /\ Confirmed(j) => calls[j].code \in Calls
  BY <1>0 DEF IInv, CallsHold, Confirmed
<1>4. CodesHold'
  BY <1>0, <1>1, <1>3 DEF IInv, CodesHold
<1>5. RequestsHold' /\ OlderCodesAreVoid'
  <2>1. \A j \in Calls : codes'[j].state = "live" => codes[j].state = "live"
    BY <1>1
  <2>2. \A j \in Calls : codes'[j].place = codes[j].place
    BY <1>0 DEF Code
  <2>3. \A j \in Calls : /\ j \in Asking' => j \in Asking /\ calls'[j] = calls[j]
                         /\ calls'[j].during = calls[j].during
    BY <1>0 DEF Asking
  <2> QED
    BY <2>1, <2>2, <2>3, FewerCodes
<1>6. VerifiedWasConfirmed'
  BY <1>0, <1>1, <1>3 DEF IInv, VerifiedWasConfirmed
<1> QED
  BY <1>2, <1>4, <1>5, <1>6 DEF IInv

(* A confirmation spends its code, and verifies the number it was sent to. *)
LEMMA ConfirmKeepsInv ==
  ASSUME IInv, NEW k \in Calls, ConfirmWrite(k)
  PROVE  IInv'
<1> DEFINE c == calls[k].code
           p == calls[k].place
           ok == Consumable(c) /\ Matches(p, c)
           ended == Ended(k, ok)
<1>0. /\ TypeOK /\ calls[k].at = "writing" /\ calls[k].op = "confirm"
      /\ Finish(k, ok) /\ ok \in BOOLEAN
      /\ UNCHANGED <<mode, open, submitted>>
      /\ codes' = IF Consumable(c) THEN [codes EXCEPT ![c].state = "spent"] ELSE codes
      /\ phone' = IF ok THEN [phone EXCEPT ![p].verified = TRUE] ELSE phone
  BY DEF IInv, ConfirmWrite
<1>1. c \in Calls /\ p \in Places /\ codes \in [Calls -> Code] /\ phone \in [Places -> Phone]
  BY <1>0 DEF IInv, CallsHold, TypeOK
<1>2. /\ Move(k, ended) /\ ended \in Call /\ ended.at = "done" /\ ended.ok = ok
      /\ ended.op = "confirm" /\ ended.seen = {} /\ ended.code = c /\ ended.place = p
      /\ ended.during = calls[k].during
  BY <1>0, EndedCall
<1> HIDE DEF ended
<1>3. /\ calls' \in [Calls -> Call] /\ calls'[k] = ended
      /\ \A j \in Calls \ {k} : calls'[j] = calls[j]
  BY <1>2, Moved
<1>4. ok => Consumable(c) /\ codes[c].state = "live" /\ phone[p].number = codes[c].number
  BY DEF Consumable, Matches
<1>5. ~Confirmed(k)
  BY <1>0 DEF IInv, CodesHold
<1> HIDE DEF ok, c, p
<1>6. /\ codes' \in [Calls -> Code]
      /\ \A j \in Calls : codes'[j].number = codes[j].number
      /\ \A j \in Calls : codes'[j].state = codes[j].state
                          \/ (codes[j].state # "none" /\ codes'[j].state = "spent")
      /\ \A j \in Calls : codes'[j].place = codes[j].place
      /\ Consumable(c) => codes'[c].state = "spent"
  BY <1>0, <1>1 DEF Code, Consumable
<1>7. /\ phone' \in [Places -> Phone]
      /\ \A q \in Places : phone'[q].number = phone[q].number
      /\ \A q \in Places : phone'[q].verified => phone[q].verified \/ (ok /\ q = p)
  BY <1>0, <1>1 DEF Phone
<1>8. TypeOK'
  <2>1. "listing" \in Places
    BY DEF Places
  <2> QED
    BY <1>0, <1>3, <1>6, <1>7, <2>1 DEF TypeOK
<1>9. CallsHold'
  BY <1>1, <1>2, <1>3 DEF IInv, CallsHold
<1>10. /\ Confirmed(k)' <=> ok
       /\ \A j \in Calls \ {k} : Confirmed(j)' <=> Confirmed(j)
       /\ \A j \in Calls \ {k} : Confirmed(j) => calls[j].code \in Calls
  BY <1>2, <1>3 DEF IInv, CallsHold, Confirmed
<1>11. CodesHold'
  <2>1. \A j \in Calls : codes'[j].state # "none" =>
          calls'[j].op = "request" /\ calls'[j].at = "done"
    BY <1>0, <1>3, <1>6 DEF IInv, CodesHold
  <2>2. \A j \in Calls : \A d \in calls'[j].seen : d \in Calls /\ codes'[d].state # "none"
    BY <1>2, <1>3, <1>6 DEF IInv, CodesHold
  <2>3. \A j \in Calls : Confirmed(j)' => /\ calls'[j].at = "done"
                                          /\ codes'[calls'[j].code].state = "spent"
    BY <1>2, <1>3, <1>4, <1>6, <1>10 DEF IInv, CodesHold
  <2> QED
    BY <2>1, <2>2, <2>3 DEF CodesHold
<1>12. RequestsHold' /\ OlderCodesAreVoid'
  <2>1. \A j \in Calls : codes'[j].state = "live" => codes[j].state = "live"
    BY <1>6
  <2>2. \A j \in Calls : /\ j \in Asking' => j \in Asking /\ calls'[j] = calls[j]
                         /\ calls'[j].during = calls[j].during
    BY <1>2, <1>3 DEF Asking
  <2> QED
    BY <1>6, <2>1, <2>2, FewerCodes
<1>13. VerifiedWasConfirmed'
  <2>1. ASSUME NEW q \in Places, phone'[q].verified
        PROVE  \E j \in Calls : /\ Confirmed(j)'
                                /\ calls'[j].place = q
                                /\ codes'[calls'[j].code].number = phone'[q].number
    <3>1. CASE phone[q].verified
      <4>1. PICK j \in Calls : /\ Confirmed(j)
                               /\ calls[j].place = q
                               /\ codes[calls[j].code].number = phone[q].number
        BY <3>1 DEF IInv, VerifiedWasConfirmed
      <4>2. j \in Calls \ {k}
        BY <1>5, <4>1
      <4> QED
        BY <1>3, <1>6, <1>7, <1>10, <4>1, <4>2
    <3>2. CASE ok /\ q = p
      BY <1>1, <1>2, <1>3, <1>4, <1>6, <1>7, <1>10, <3>2
    <3> QED
      BY <1>7, <2>1, <3>1, <3>2
  <2>2. \A i, j \in Calls : i # j /\ Confirmed(i)' /\ Confirmed(j)' =>
          calls'[i].code # calls'[j].code
    <3>1. \A j \in Calls \ {k} : ok /\ Confirmed(j) => calls[j].code # c
      BY <1>4 DEF IInv, CodesHold
    <3>2. \A i, j \in Calls : i # j /\ Confirmed(i) /\ Confirmed(j) =>
            calls[i].code # calls[j].code
      BY DEF IInv, VerifiedWasConfirmed
    <3> QED
      BY <1>2, <1>3, <1>10, <3>1, <3>2
  <2> QED
    BY <2>1, <2>2 DEF VerifiedWasConfirmed
<1> QED
  BY <1>8, <1>9, <1>11, <1>12, <1>13 DEF IInv

(* A submission changes neither codes nor numbers.                         *)
LEMMA SubmitKeepsInv ==
  ASSUME IInv, NEW k \in Calls, SubmitWrite(k)
  PROVE  IInv'
<1> DEFINE ok == open["listing"] /\ ~submitted
           ended == Ended(k, ok)
<1>0. /\ TypeOK /\ calls[k].at = "writing" /\ calls[k].op = "submit"
      /\ Finish(k, ok) /\ ok \in BOOLEAN /\ submitted' \in BOOLEAN
      /\ UNCHANGED <<phone, mode, open, codes>>
  BY DEF IInv, SubmitWrite
<1>1. /\ Move(k, ended) /\ ended \in Call /\ ended.at = "done"
      /\ ended.op = "submit" /\ ended.seen = {} /\ ended.during = calls[k].during
  BY <1>0, EndedCall
<1> HIDE DEF ended, ok
<1>2. /\ calls' \in [Calls -> Call] /\ calls'[k] = ended
      /\ \A j \in Calls \ {k} : calls'[j] = calls[j]
  BY <1>1, Moved
<1>3. TypeOK'
  BY <1>0, <1>2 DEF TypeOK
<1>4. CallsHold'
  BY <1>1, <1>2 DEF IInv, CallsHold
<1>5. /\ ~Confirmed(k) /\ ~Confirmed(k)'
      /\ \A j \in Calls \ {k} : Confirmed(j)' <=> Confirmed(j)
  BY <1>0, <1>1, <1>2 DEF Confirmed
<1>6. CodesHold'
  BY <1>0, <1>1, <1>2, <1>5 DEF IInv, CodesHold
<1>7. RequestsHold' /\ OlderCodesAreVoid'
  <2>1. \A j \in Calls : /\ j \in Asking' => j \in Asking /\ calls'[j] = calls[j]
                         /\ calls'[j].during = calls[j].during
    BY <1>1, <1>2 DEF Asking
  <2>2. \A j \in Calls : /\ codes'[j].state = "live" => codes[j].state = "live"
                         /\ codes'[j].place = codes[j].place
    BY <1>0
  <2> QED
    BY <2>1, <2>2, FewerCodes
<1>8. VerifiedWasConfirmed'
  BY <1>0, <1>2, <1>5 DEF IInv, VerifiedWasConfirmed
<1> QED
  BY <1>3, <1>4, <1>6, <1>7, <1>8 DEF IInv

-----------------------------------------------------------------------------
LEMMA InitIInv == Init => IInv
<1> SUFFICES ASSUME Init PROVE IInv
  OBVIOUS
<1>1. NoPhone \in Phone /\ NoPhone.number = None /\ NoPhone.verified = FALSE
  BY DEF NoPhone, Phone
<1>2. 0 \in 0..Cardinality(Calls)
  BY CallsAssumption, FS_CardinalityType
<1>3. /\ NoCall \in Call /\ NoCall.at = "idle" /\ NoCall.op = "none"
      /\ NoCall.seen = {}
  BY <1>1, <1>2 DEF NoCall, Call
<1>4. NoCode \in Code /\ NoCode.state = "none"
  BY <1>2 DEF NoCode, Code
<1>5. /\ \A p \in Places : phone[p] = NoPhone
      /\ \A k \in Calls : calls[k] = NoCall /\ codes[k] = NoCode
      /\ phone \in [Places -> Phone] /\ calls \in [Calls -> Call]
      /\ codes \in [Calls -> Code]
  BY <1>1, <1>3, <1>4 DEF Init
<1>6. TypeOK
  <2>1. "listing" \in Places
    BY DEF Places
  <2> QED
    BY <1>1, <1>5, <2>1 DEF Init, TypeOK, Modes
<1>7. CallsHold /\ CodesHold /\ VerifiedWasConfirmed
  BY <1>1, <1>3, <1>4, <1>5
     DEF CallsHold, CodesHold, VerifiedWasConfirmed, Confirmed
<1>8. RequestsHold /\ OlderCodesAreVoid
  BY <1>3, <1>4, <1>5 DEF RequestsHold, OlderCodesAreVoid, Asking, Live
<1> QED
  BY <1>6, <1>7, <1>8 DEF IInv

LEMMA NextIInv == IInv /\ [Next]_vars => IInv'
<1> SUFFICES ASSUME IInv, [Next]_vars PROVE IInv'
  OBVIOUS
<1>1. CASE UNCHANGED vars
  <2>1. TypeOK' /\ CallsHold' /\ CodesHold' /\ VerifiedWasConfirmed'
    BY <1>1 DEF vars, IInv, TypeOK, CallsHold, CodesHold, VerifiedWasConfirmed, Confirmed
  <2>2. RequestsHold' /\ OlderCodesAreVoid'
    BY <1>1 DEF vars, IInv, RequestsHold, OlderCodesAreVoid, Asking, Live, Overlapped
  <2> QED
    BY <2>1, <2>2 DEF IInv
<1> QED
  BY <1>1, NumbersKeepInv, ReadsKeepInv, RequestKeepsInv, ConfirmKeepsInv,
     SubmitKeepsInv, ExpiryKeepsInv DEF Next

(* Numbers, codes and calls are well formed in every behaviour.            *)
THEOREM TypeCorrect == Spec => []TypeOK
<1>1. IInv => TypeOK
  BY DEF IInv
<1> QED
  BY <1>1, InitIInv, NextIInv, PTL DEF Spec

(* A verified number was confirmed with a code that was sent to it, and no *)
(* code verified twice, however calls and changes interleave.              *)
THEOREM VerifiedNumbersWereConfirmed == Spec => []VerifiedWasConfirmed
<1>1. IInv => VerifiedWasConfirmed
  BY DEF IInv
<1> QED
  BY <1>1, InitIInv, NextIInv, PTL DEF Spec

(* Of the codes of one place only the newest is good, unless several were  *)
(* asked for at the same time, for any numbers and any number of calls.    *)
THEOREM OnlyNewestCode == Spec => []OlderCodesAreVoid
<1>1. IInv => OlderCodesAreVoid
  BY DEF IInv
<1> QED
  BY <1>1, InitIInv, NextIInv, PTL DEF Spec
=============================================================================
