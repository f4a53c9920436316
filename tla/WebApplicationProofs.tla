----------------------- MODULE WebApplicationProofs -----------------------
(***************************************************************************)
(* Proofs about the parts of the web application that keep state across    *)
(* calls: FavoriteButtons with the rate limit under it, for any number of  *)
(* hearts and requests and any limit, and NearbyListings, for any number   *)
(* of questions.                                                           *)
(***************************************************************************)
EXTENDS FavoriteButtons, NearbyListings, TLAPS

TypesFit ==
  /\ favorite \in BOOLEAN
  /\ cache \in BOOLEAN \cup {None}
  /\ buttons \in [Buttons -> Button]
  /\ syncs \in [Buttons -> Sync]
  /\ clicks \in [Calls -> Click]
  /\ strayed \in BOOLEAN

(* A heart that waits is there and waits for one click, which is on its    *)
(* way; an abandoned click belongs to no heart.                            *)
WaitsForItsClick(b) ==
  /\ buttons[b].pending => buttons[b].mounted
  /\ buttons[b].pending <=> \E k \in Calls : clicks[k].by = b
  /\ \A j, k \in Calls : clicks[j].by = b /\ clicks[k].by = b => j = k

ClicksHaveHearts ==
  /\ \A b \in Buttons : WaitsForItsClick(b)
  /\ \A k \in Calls : clicks[k].by # None =>
       clicks[k].at # "idle" /\ ~clicks[k].abandoned

(* A question stays alone while nothing else is on its way.                *)
AloneIsAlone ==
  \A b \in Buttons : syncs[b].alone =>
    syncs[b].at # "none" /\ ~Clicking /\ ~SyncingElsewhere(b)

(* While nothing has happened that hearts cannot know: what every click    *)
(* and every question on its way says of the favorite is true, and with    *)
(* no click on its way so is what is shown and cached.                     *)
ClickIsTrue(k) ==
  /\ ~clicks[k].abandoned /\ cache = clicks[k].want
  /\ clicks[k].was = ~clicks[k].want
  /\ favorite = IF clicks[k].at = "saved" THEN clicks[k].want ELSE clicks[k].was
  /\ clicks[k].at = "inserting" => clicks[k].want /\ clicks[k].found = favorite

ClicksAreTrue ==
  /\ \A j, k \in Calls : clicks[j].at # "idle" /\ clicks[k].at # "idle" => j = k
  /\ \A k \in Calls : clicks[k].at # "idle" => ClickIsTrue(k)

QuestionsAreTrue ==
  \A b \in Buttons : syncs[b].at # "none" =>
    syncs[b].alone /\ (syncs[b].at = "read" => syncs[b].value = favorite)

ShownIsTrue ==
  ~Clicking =>
    /\ cache \in {None, favorite}
    /\ \A b \in Buttons : buttons[b].mounted => buttons[b].shown = favorite

NothingStrayed ==
  ~strayed => ClicksAreTrue /\ QuestionsAreTrue /\ ShownIsTrue

-----------------------------------------------------------------------------
(* The rate limit.                                                         *)

LEMMA LimitStarts == LimitInit => LimitTypeOK
<1>1. 0 \in Counted /\ 0 \in 0..MaxFaults
  BY LimitAssumption DEF Counted
<1> QED
  BY <1>1 DEF LimitInit, LimitTypeOK, NoKey, Idle, Key, Enforced

LEMMA LimitStepKeepsTypes == LimitTypeOK /\ LimitStep => LimitTypeOK'
<1> SUFFICES ASSUME LimitTypeOK, LimitStep PROVE LimitTypeOK'
  OBVIOUS
<1> USE LimitAssumption
<1>1. /\ key \in Key /\ (key.armed => key.count > 0)
      /\ enforced \in [Calls -> Enforced] /\ faults \in 0..MaxFaults
  BY DEF LimitTypeOK
<1>2. key.count \in Counted /\ key.armed \in BOOLEAN
  BY <1>1 DEF Key
<1>3. Arm \in Key /\ (Arm.armed => Arm.count > 0)
  <2>1. CASE key.count = 0
    BY <1>1, <2>1 DEF Arm
  <2>2. CASE key.count # 0
    <3>1. Arm = [key EXCEPT !.armed = TRUE] /\ Arm \in Key
      BY <1>1, <2>2 DEF Arm, Key
    <3>2. Arm.count = key.count /\ key.count > 0
      BY <1>1, <1>2, <2>2, <3>1 DEF Key, Counted
    <3> QED BY <3>1, <3>2
  <2> QED BY <2>1, <2>2
<1>4. ASSUME NEW k \in Calls, Increment(k) PROVE LimitTypeOK'
  <2> DEFINE count == IF key.count > Limit THEN key.count ELSE key.count + 1
  <2>1. count \in Counted /\ count > 0
    BY <1>2 DEF Counted
  <2>2. /\ key' = [key EXCEPT !.count = count]
        /\ enforced' = [enforced EXCEPT ![k] =
                          [at |-> IF count = 1 THEN "expire" ELSE "ttl",
                           count |-> count]]
        /\ faults' = faults
    BY <1>4 DEF Increment
  <2> HIDE DEF count
  <2>3. key' \in Key /\ key'.count > 0
    BY <1>1, <2>1, <2>2 DEF Key
  <2>4. enforced' \in [Calls -> Enforced]
    BY <1>1, <2>1, <2>2 DEF Enforced
  <2> QED BY <1>1, <2>2, <2>3, <2>4 DEF LimitTypeOK
<1>5. ASSUME NEW k \in Calls, NEW there, GoOn(k, there),
             there \in {"ttl", "rearm", "passed", "blocked", "unavailable"}
      PROVE  enforced' \in [Calls -> Enforced]
  BY <1>1, <1>5 DEF GoOn, Enforced
<1>6. ASSUME NEW k \in Calls, ExpireFirst(k) PROVE LimitTypeOK'
  BY <1>1, <1>3, <1>5, <1>6 DEF ExpireFirst, LimitTypeOK
<1>7. ASSUME NEW k \in Calls, ReadTtl(k) PROVE LimitTypeOK'
  BY <1>1, <1>5, <1>7 DEF ReadTtl, Verdict, LimitTypeOK
<1>8. ASSUME NEW k \in Calls, Rearm(k) PROVE LimitTypeOK'
  BY <1>1, <1>3, <1>5, <1>8 DEF Rearm, Verdict, LimitTypeOK
<1>9. ASSUME NEW k \in Calls, RedisFails(k) PROVE LimitTypeOK'
  BY <1>1, <1>5, <1>9 DEF RedisFails, LimitTypeOK
<1>10. CASE WindowCloses
  BY <1>1, <1>10 DEF WindowCloses, NoKey, Key, Counted, LimitTypeOK
<1> QED
  BY <1>4, <1>6, <1>7, <1>8, <1>9, <1>10 DEF LimitStep

LEMMA NextLimit == LimitTypeOK /\ [Next]_vars => LimitTypeOK'
<1> SUFFICES ASSUME LimitTypeOK, [Next]_vars PROVE LimitTypeOK'
  OBVIOUS
<1>1. CASE UNCHANGED limitVars
  BY <1>1 DEF limitVars, LimitTypeOK
<1>2. ASSUME NEW b \in Buttons, NEW k \in Calls, ClickHeart(b, k)
      PROVE  LimitTypeOK'
  BY <1>2 DEF ClickHeart, LimitTypeOK, Enforced
<1>3. ASSUME NEW k \in Calls, Enforce(k) PROVE LimitTypeOK'
  <2>1. Idle \in Enforced
    BY LimitAssumption DEF Idle, Enforced, Counted
  <2> QED BY <1>3, <2>1 DEF Enforce, LimitTypeOK
<1> QED
  BY <1>1, <1>2, <1>3, LimitStepKeepsTypes
     DEF Next, Mount, Unmount, SyncRead, SyncFails, SyncAnswered, Refuse,
         AddRead, AddWrite, Remove, Answer, Abandon, ChangeElsewhere, vars

-----------------------------------------------------------------------------
(* What the steps do to hearts, questions and clicks.                      *)

(* A publication is shown by every heart and stays in the cache.           *)
LEMMA Published ==
  ASSUME NEW value \in BOOLEAN, NEW hearts \in [Buttons -> Button],
         Publish(value, hearts)
  PROVE  /\ cache' = value
         /\ buttons' \in [Buttons -> Button]
         /\ \A b \in Buttons : /\ buttons'[b].mounted = hearts[b].mounted
                               /\ buttons'[b].pending = hearts[b].pending
                               /\ hearts[b].mounted => buttons'[b].shown = value
<1>1. \A b \in Buttons : [hearts[b] EXCEPT !.shown = value] \in Button
  BY DEF Button
<1> QED
  BY <1>1 DEF Publish, Button

LEMMA ClickGoesOn ==
  ASSUME clicks \in [Calls -> Click], NEW k \in Calls, NEW there,
         GoToStep(k, there),
         there \in {"allowed", "inserting", "saved", "failed"}
  PROVE  /\ clicks' \in [Calls -> Click]
         /\ \A j \in Calls : j # k => clicks'[j] = clicks[j]
         /\ clicks'[k].at = there
         /\ UNCHANGED <<clicks[k].want, clicks[k].was, clicks[k].found,
                        clicks[k].by, clicks[k].abandoned>>
  BY DEF GoToStep, Click

(* Disturbing the questions changes nothing else.                          *)
LEMMA QuestionsDisturbed ==
  ASSUME syncs \in [Buttons -> Sync]
  PROVE  /\ Disturbed(syncs) \in [Buttons -> Sync]
         /\ \A b \in Buttons : /\ Disturbed(syncs)[b].at = syncs[b].at
                               /\ Disturbed(syncs)[b].value = syncs[b].value
                               /\ Disturbed(syncs)[b].alone = FALSE
  BY DEF Disturbed, Sync

(* A click of a heart.                                                     *)
LEMMA HeartClicked ==
  ASSUME TypesFit, NEW b \in Buttons, NEW k \in Calls, ClickHeart(b, k)
  PROVE  /\ buttons[b].mounted /\ ~buttons[b].pending /\ clicks[k].at = "idle"
         /\ cache' \in BOOLEAN /\ cache' # buttons[b].shown
         /\ \A c \in Buttons :
              /\ buttons'[c].mounted = buttons[c].mounted
              /\ buttons'[c].pending = (buttons[c].pending \/ c = b)
              /\ buttons[c].mounted => buttons'[c].shown = cache'
         /\ clicks' \in [Calls -> Click]
         /\ \A j \in Calls : j # k => clicks'[j] = clicks[j]
         /\ clicks'[k].at \in {"limit", "failed"}
         /\ clicks'[k].want = cache' /\ clicks'[k].was = buttons[b].shown
         /\ clicks'[k].by = b /\ ~clicks'[k].abandoned
         /\ syncs'[b].at = "none"
         /\ \A c \in Buttons : /\ c # b => syncs'[c].at = syncs[c].at
                               /\ ~syncs'[c].alone
         /\ ~strayed' => ~strayed /\ ~Clicking /\ ~SyncingElsewhere(b)
<1> DEFINE hearts == [buttons EXCEPT ![b].pending = TRUE]
<1>0. /\ buttons \in [Buttons -> Button] /\ clicks \in [Calls -> Click]
      /\ syncs \in [Buttons -> Sync]
  BY DEF TypesFit
<1>1. /\ hearts \in [Buttons -> Button] /\ buttons[b].shown \in BOOLEAN
      /\ \A c \in Buttons : /\ hearts[c].mounted = buttons[c].mounted
                            /\ hearts[c].pending = (buttons[c].pending \/ c = b)
  BY <1>0 DEF Button
<1>2. /\ buttons[b].mounted /\ ~buttons[b].pending /\ clicks[k].at = "idle"
      /\ Publish(~buttons[b].shown, hearts)
      /\ strayed' = (strayed \/ Clicking \/ SyncingElsewhere(b))
      /\ syncs' = QuestionsAfterClick(b)
  BY DEF ClickHeart
<1> HIDE DEF hearts
<1>3. PICK value \in BOOLEAN : value = ~buttons[b].shown /\ Publish(value, hearts)
  BY <1>2
<1>4. PICK authenticated \in BOOLEAN :
        clicks' = [clicks EXCEPT ![k] =
                     [at |-> IF authenticated THEN "limit" ELSE "failed",
                      want |-> value, was |-> ~value,
                      found |-> FALSE, by |-> b, abandoned |-> FALSE]]
  BY <1>3 DEF ClickHeart
<1>5. /\ cache' = value
      /\ \A c \in Buttons : /\ buttons'[c].mounted = hearts[c].mounted
                            /\ buttons'[c].pending = hearts[c].pending
                            /\ hearts[c].mounted => buttons'[c].shown = value
  BY <1>1, <1>3, Published
<1>6. /\ clicks' \in [Calls -> Click]
      /\ \A j \in Calls : j # k => clicks'[j] = clicks[j]
      /\ clicks'[k].at \in {"limit", "failed"} /\ clicks'[k].want = value
      /\ clicks'[k].was = ~value
      /\ clicks'[k].by = b /\ ~clicks'[k].abandoned
  <2>1. \A at \in {"limit", "failed"} :
          [at |-> at, want |-> value, was |-> ~value,
           found |-> FALSE, by |-> b, abandoned |-> FALSE] \in Click
    BY DEF Click
  <2> QED BY <1>0, <1>4, <2>1
<1>7. ~value = buttons[b].shown /\ value # buttons[b].shown
  BY <1>1, <1>3
<1>8. /\ syncs'[b].at = "none"
      /\ \A c \in Buttons : /\ c # b => syncs'[c].at = syncs[c].at
                            /\ ~syncs'[c].alone
  BY <1>0, <1>2, QuestionsDisturbed DEF QuestionsAfterClick, NoSync
<1>9. ~strayed' => ~strayed /\ ~Clicking /\ ~SyncingElsewhere(b)
  BY <1>2
<1>10. \A c \in Buttons :
         /\ buttons'[c].mounted = buttons[c].mounted
         /\ buttons'[c].pending = (buttons[c].pending \/ c = b)
         /\ buttons[c].mounted => buttons'[c].shown = cache'
  BY <1>1, <1>5
<1>11. clicks'[k].want = cache' /\ clicks'[k].was = buttons[b].shown
  <2>1. CASE value = TRUE
    BY <1>1, <1>5, <1>6, <1>7, <2>1
  <2>2. CASE value = FALSE
    BY <1>1, <1>5, <1>6, <1>7, <2>2
  <2> QED BY <2>1, <2>2
<1>12. cache' \in BOOLEAN /\ cache' # buttons[b].shown
  BY <1>5, <1>7
<1>13. buttons[b].mounted /\ ~buttons[b].pending /\ clicks[k].at = "idle"
  BY <1>2
<1> QED
  BY <1>6, <1>8, <1>9, <1>10, <1>11, <1>12, <1>13

-----------------------------------------------------------------------------
(* Types.                                                                  *)

LEMMA NextTypes == TypesFit /\ [Next]_vars => TypesFit'
<1> SUFFICES ASSUME TypesFit, [Next]_vars PROVE TypesFit'
  OBVIOUS
<1>0. /\ favorite \in BOOLEAN /\ cache \in BOOLEAN \cup {None}
      /\ buttons \in [Buttons -> Button] /\ syncs \in [Buttons -> Sync]
      /\ clicks \in [Calls -> Click] /\ strayed \in BOOLEAN
  BY DEF TypesFit
<1>a. NoButton \in Button /\ NoSync \in Sync /\ NoClick \in Click
  BY DEF NoButton, NoSync, NoClick, Button, Sync, Click
<1>b. Disturbed(syncs) \in [Buttons -> Sync]
  BY <1>0, QuestionsDisturbed
<1>c. ASSUME NEW k \in Calls
      PROVE  Release(k) \in [Buttons -> Button] /\ clicks[k].want \in BOOLEAN
             /\ clicks[k].was \in BOOLEAN
  BY <1>0, <1>c DEF Release, Button, Click
<1>1. ASSUME NEW b \in Buttons, NEW listed \in BOOLEAN, Mount(b, listed)
      PROVE  TypesFit'
  <2>1. FirstShown(listed) \in BOOLEAN
    BY <1>0 DEF FirstShown
  <2>2. buttons' \in [Buttons -> Button]
    BY <1>0, <1>1, <2>1 DEF Mount, Button
  <2>3. (~Clicking /\ ~SyncingElsewhere(b)) \in BOOLEAN
    OBVIOUS
  <2>4. syncs' \in [Buttons -> Sync]
    <3>1. \A only \in BOOLEAN :
            [Disturbed(syncs) EXCEPT ![b] =
               [at |-> "asked", value |-> FALSE, alone |-> only]]
              \in [Buttons -> Sync]
      BY <1>b DEF Sync
    <3> QED BY <1>0, <1>1, <2>3, <3>1 DEF Mount
  <2>5. strayed' \in BOOLEAN
    BY <1>1 DEF Mount
  <2> QED BY <1>0, <1>1, <2>2, <2>4, <2>5 DEF Mount, TypesFit
<1>2. ASSUME NEW b \in Buttons, Unmount(b) PROVE TypesFit'
  <2>1. buttons' \in [Buttons -> Button] /\ syncs' \in [Buttons -> Sync]
    BY <1>0, <1>2, <1>a DEF Unmount
  <2>2. clicks' \in [Calls -> Click]
    BY <1>0, <1>2 DEF Unmount, Click
  <2> QED BY <1>0, <1>2, <2>1, <2>2 DEF Unmount, TypesFit
<1>3. ASSUME NEW b \in Buttons, SyncRead(b) PROVE TypesFit'
  <2>1. PICK listed \in BOOLEAN :
          /\ syncs' = [syncs EXCEPT ![b].at = "read",
                                    ![b].value = favorite /\ listed]
          /\ strayed' = (strayed \/ (favorite /\ ~listed))
    BY <1>3 DEF SyncRead
  <2>2. syncs' \in [Buttons -> Sync]
    BY <1>0, <2>1 DEF Sync
  <2> QED BY <1>0, <1>3, <2>1, <2>2 DEF SyncRead, TypesFit
<1>4. ASSUME NEW b \in Buttons, SyncFails(b) PROVE TypesFit'
  BY <1>0, <1>4, <1>a DEF SyncFails, TypesFit
<1>5. ASSUME NEW b \in Buttons, SyncAnswered(b) PROVE TypesFit'
  <2>1. syncs[b].value \in BOOLEAN
    BY <1>0 DEF Sync
  <2>2. cache' \in BOOLEAN /\ buttons' \in [Buttons -> Button]
    BY <1>0, <1>5, <2>1, Published DEF SyncAnswered
  <2>3. syncs' \in [Buttons -> Sync] /\ strayed' \in BOOLEAN
    BY <1>0, <1>5, <1>a DEF SyncAnswered
  <2> QED BY <1>0, <1>5, <2>2, <2>3 DEF SyncAnswered, TypesFit
<1>6. ASSUME NEW b \in Buttons, NEW k \in Calls, ClickHeart(b, k)
      PROVE  TypesFit'
  <2>1. cache' \in BOOLEAN /\ clicks' \in [Calls -> Click]
    BY <1>6, HeartClicked
  <2>2. buttons' \in [Buttons -> Button]
    <3>1. PICK value \in BOOLEAN :
            Publish(value, [buttons EXCEPT ![b].pending = TRUE])
      BY <1>6 DEF ClickHeart
    <3>2. [buttons EXCEPT ![b].pending = TRUE] \in [Buttons -> Button]
      BY <1>0 DEF Button
    <3> QED BY <3>1, <3>2, Published
  <2>3. syncs' \in [Buttons -> Sync] /\ strayed' \in BOOLEAN
    BY <1>6, <1>a, <1>b DEF ClickHeart, QuestionsAfterClick
  <2> QED BY <1>0, <1>6, <2>1, <2>2, <2>3 DEF ClickHeart, TypesFit
<1>7. ASSUME NEW k \in Calls, NEW there, GoToStep(k, there),
             there \in {"allowed", "inserting", "saved", "failed"}
      PROVE  clicks' \in [Calls -> Click]
  BY <1>0, <1>7, ClickGoesOn
<1>8. ASSUME NEW k \in Calls,
             Enforce(k) \/ Refuse(k) \/ AddWrite(k) \/ Remove(k)
      PROVE  TypesFit'
  <2>1. favorite' \in BOOLEAN /\ UNCHANGED <<cache, buttons, syncs, strayed>>
    BY <1>0, <1>8 DEF Enforce, Refuse, AddWrite, Remove
  <2>2. clicks' \in [Calls -> Click]
    BY <1>7, <1>8 DEF Enforce, Refuse, AddWrite, Remove
  <2> QED BY <1>0, <2>1, <2>2 DEF TypesFit
<1>9. ASSUME NEW k \in Calls, AddRead(k) PROVE TypesFit'
  <2>1. clicks' \in [Calls -> Click]
    BY <1>0, <1>9 DEF AddRead, Click
  <2> QED BY <1>0, <1>9, <2>1 DEF AddRead, TypesFit
<1>10. ASSUME NEW k \in Calls, Answer(k) PROVE TypesFit'
  <2>1. ShownAfter(k) \in BOOLEAN
    BY <1>c DEF ShownAfter
  <2>2. cache' \in BOOLEAN \cup {None} /\ buttons' \in [Buttons -> Button]
    BY <1>0, <1>10, <1>c, <2>1, Published DEF Answer
  <2> QED BY <1>0, <1>10, <1>a, <2>2 DEF Answer, TypesFit
<1>11. ASSUME NEW k \in Calls, Abandon(k) PROVE TypesFit'
  <2>1. cache' \in BOOLEAN /\ buttons' \in [Buttons -> Button]
    BY <1>11, <1>c, Published DEF Abandon
  <2>2. clicks' \in [Calls -> Click]
    BY <1>0, <1>11 DEF Abandon, Click
  <2> QED BY <1>0, <1>11, <2>1, <2>2 DEF Abandon, TypesFit
<1>12. CASE ChangeElsewhere
  BY <1>0, <1>12, <1>b DEF ChangeElsewhere, TypesFit
<1>13. CASE UNCHANGED buttonVars
  BY <1>0, <1>13 DEF buttonVars, TypesFit
<1> QED
  BY <1>1, <1>2, <1>3, <1>4, <1>5, <1>6, <1>8, <1>9, <1>10, <1>11, <1>12, <1>13
     DEF Next, vars

-----------------------------------------------------------------------------
(* Hearts and their clicks.                                                *)

(* A step of a click that stays on its way and belongs to the same heart.  *)
LEMMA SameOwners ==
  ASSUME ClicksHaveHearts, UNCHANGED buttons,
         \A k \in Calls : /\ clicks'[k].by = clicks[k].by
                          /\ clicks'[k].abandoned = clicks[k].abandoned
                          /\ clicks'[k].at = "idle" => clicks[k].at = "idle"
  PROVE  ClicksHaveHearts'
  BY DEF ClicksHaveHearts, WaitsForItsClick

(* A click is over for its heart, answered or not.                         *)
LEMMA HeartReleased ==
  ASSUME TypesFit, ClicksHaveHearts, NEW k \in Calls, NEW value \in BOOLEAN,
         Publish(value, Release(k)),
         \A j \in Calls : j # k => clicks'[j] = clicks[j],
         clicks'[k].by = None
  PROVE  ClicksHaveHearts'
<1>1. buttons \in [Buttons -> Button] /\ Release(k) \in [Buttons -> Button]
  BY DEF TypesFit, Release, Button
<1>2. \A b \in Buttons :
        /\ Release(k)[b].mounted = buttons[b].mounted
        /\ Release(k)[b].pending = (buttons[b].pending /\ clicks[k].by # b)
  BY <1>1 DEF Release, Button
<1>3. \A b \in Buttons :
        /\ buttons'[b].mounted = buttons[b].mounted
        /\ buttons'[b].pending = (buttons[b].pending /\ clicks[k].by # b)
  BY <1>1, <1>2, Published
<1>4. \A b \in Buttons : WaitsForItsClick(b)'
  <2> SUFFICES ASSUME NEW b \in Buttons PROVE WaitsForItsClick(b)'
    OBVIOUS
  <2>1. WaitsForItsClick(b) /\ b # None
    BY ButtonAssumption DEF ClicksHaveHearts
  <2>2. \A j \in Calls : clicks'[j].by = b <=> clicks[j].by = b /\ j # k
    BY <2>1
  <2> QED BY <1>3, <2>1, <2>2 DEF WaitsForItsClick
<1> QED
  BY <1>4 DEF ClicksHaveHearts

LEMMA NextHearts == TypesFit /\ ClicksHaveHearts /\ [Next]_vars => ClicksHaveHearts'
<1> SUFFICES ASSUME TypesFit, ClicksHaveHearts, [Next]_vars
             PROVE  ClicksHaveHearts'
  OBVIOUS
<1>0. /\ buttons \in [Buttons -> Button] /\ clicks \in [Calls -> Click]
      /\ syncs \in [Buttons -> Sync]
  BY DEF TypesFit
<1>a. CASE UNCHANGED <<buttons, clicks>>
  BY <1>a, SameOwners
<1>b. ASSUME NEW k \in Calls, NEW there, GoToStep(k, there),
             there \in {"allowed", "inserting", "saved", "failed"},
             UNCHANGED buttons
      PROVE  ClicksHaveHearts'
  <2>1. /\ \A j \in Calls : j # k => clicks'[j] = clicks[j]
        /\ clicks'[k].at = there
        /\ UNCHANGED <<clicks[k].by, clicks[k].abandoned>>
    BY <1>0, <1>b, ClickGoesOn
  <2> QED BY <1>b, <2>1, SameOwners
<1>1. ASSUME NEW b \in Buttons, NEW listed \in BOOLEAN, Mount(b, listed)
      PROVE  ClicksHaveHearts'
  <2>1. /\ ~buttons[b].mounted /\ UNCHANGED clicks
        /\ buttons'[b].mounted /\ ~buttons'[b].pending
        /\ \A c \in Buttons : c # b => buttons'[c] = buttons[c]
    BY <1>0, <1>1 DEF Mount
  <2> QED BY <2>1 DEF ClicksHaveHearts, WaitsForItsClick
<1>2. ASSUME NEW b \in Buttons, Unmount(b) PROVE ClicksHaveHearts'
  <2>1. /\ ~buttons'[b].mounted /\ ~buttons'[b].pending
        /\ \A c \in Buttons : c # b => buttons'[c] = buttons[c]
    BY <1>0, <1>2 DEF Unmount, NoButton
  <2>2. \A k \in Calls : /\ clicks'[k].at = clicks[k].at
                         /\ clicks'[k].abandoned = clicks[k].abandoned
                         /\ clicks'[k].by = IF clicks[k].by = b THEN None
                                            ELSE clicks[k].by
    BY <1>0, <1>2 DEF Unmount, Click
  <2>3. ASSUME NEW c \in Buttons PROVE WaitsForItsClick(c)'
    <3>1. WaitsForItsClick(c) /\ c # None
      BY ButtonAssumption DEF ClicksHaveHearts
    <3>2. \A k \in Calls : clicks'[k].by = c <=> clicks[k].by = c /\ c # b
      BY <2>2, <3>1
    <3> QED BY <2>1, <3>1, <3>2 DEF WaitsForItsClick
  <2> QED BY <2>2, <2>3 DEF ClicksHaveHearts
<1>3. ASSUME NEW b \in Buttons, SyncAnswered(b) PROVE ClicksHaveHearts'
  <2>1. syncs[b].value \in BOOLEAN
    BY <1>0 DEF Sync
  <2>2. \A c \in Buttons : /\ buttons'[c].mounted = buttons[c].mounted
                           /\ buttons'[c].pending = buttons[c].pending
    BY <1>0, <1>3, <2>1, Published DEF SyncAnswered
  <2> QED BY <1>3, <2>2 DEF SyncAnswered, ClicksHaveHearts, WaitsForItsClick
<1>4. ASSUME NEW b \in Buttons, NEW k \in Calls, ClickHeart(b, k)
      PROVE  ClicksHaveHearts'
  <2>1. clicks[k].at = "idle" /\ ~buttons[b].pending /\ buttons[b].mounted
    BY <1>4, HeartClicked
  <2>2. \A c \in Buttons : /\ buttons'[c].mounted = buttons[c].mounted
                           /\ buttons'[c].pending = (buttons[c].pending \/ c = b)
    BY <1>4, HeartClicked
  <2>3. /\ clicks'[k].at # "idle" /\ clicks'[k].by = b /\ ~clicks'[k].abandoned
        /\ \A j \in Calls : j # k => clicks'[j] = clicks[j]
    BY <1>4, HeartClicked
  <2>4. clicks[k].by = None
    BY <2>1 DEF ClicksHaveHearts
  <2>5. ASSUME NEW c \in Buttons PROVE WaitsForItsClick(c)'
    <3>1. WaitsForItsClick(c) /\ WaitsForItsClick(b) /\ c # None
      BY ButtonAssumption DEF ClicksHaveHearts
    <3>2. \A j \in Calls : clicks'[j].by = c
                             <=> IF j = k THEN c = b ELSE clicks[j].by = c
      BY <2>3
    <3>3. CASE c = b
      <4>1. buttons'[b].mounted /\ buttons'[b].pending
        BY <2>1, <2>2
      <4>2. \A j \in Calls : clicks'[j].by = b <=> j = k
        BY <2>1, <3>1, <3>2, <3>3 DEF WaitsForItsClick
      <4> QED BY <3>3, <4>1, <4>2 DEF WaitsForItsClick
    <3>4. CASE c # b
      BY <2>2, <2>4, <3>1, <3>2, <3>4 DEF WaitsForItsClick
    <3> QED BY <3>3, <3>4
  <2> QED BY <2>3, <2>5 DEF ClicksHaveHearts
<1>5. ASSUME NEW k \in Calls, AddRead(k) PROVE ClicksHaveHearts'
  <2>1. \A j \in Calls : /\ clicks'[j].by = clicks[j].by
                         /\ clicks'[j].abandoned = clicks[j].abandoned
                         /\ clicks'[j].at = "idle" => clicks[j].at = "idle"
    BY <1>0, <1>5 DEF AddRead, Click
  <2> QED BY <1>5, <2>1, SameOwners DEF AddRead
<1>6. ASSUME NEW k \in Calls, Answer(k) PROVE ClicksHaveHearts'
  <2>1. /\ clicks'[k] = NoClick
        /\ \A j \in Calls : j # k => clicks'[j] = clicks[j]
    BY <1>0, <1>6 DEF Answer
  <2>2. CASE clicks[k].abandoned
    <3>1. clicks[k].by = None /\ UNCHANGED buttons
      BY <1>6, <2>2 DEF Answer, ClicksHaveHearts
    <3>2. \A j \in Calls : clicks'[j].by = clicks[j].by
      BY <2>1, <3>1 DEF NoClick
    <3> QED BY <2>1, <3>1, <3>2 DEF ClicksHaveHearts, WaitsForItsClick
  <2>3. CASE ~clicks[k].abandoned
    <3>1. ShownAfter(k) \in BOOLEAN
      BY <1>0 DEF ShownAfter, Click
    <3> QED BY <1>6, <2>1, <2>3, <3>1, HeartReleased DEF Answer, NoClick
  <2> QED BY <2>2, <2>3
<1>7. ASSUME NEW k \in Calls, Abandon(k) PROVE ClicksHaveHearts'
  <2>1. /\ clicks'[k].by = None /\ clicks[k].was \in BOOLEAN
        /\ \A j \in Calls : j # k => clicks'[j] = clicks[j]
    BY <1>0, <1>7 DEF Abandon, Click
  <2> QED BY <1>7, <2>1, HeartReleased DEF Abandon
<1> QED
  BY <1>a, <1>b, <1>1, <1>2, <1>3, <1>4, <1>5, <1>6, <1>7
     DEF Next, SyncRead, SyncFails, Enforce, Refuse, AddWrite, Remove,
         ChangeElsewhere, buttonVars, vars

-----------------------------------------------------------------------------
(* Hearts agree: whatever is published is published to all of them.        *)

LEMMA PublishedAgrees ==
  ASSUME NEW value \in BOOLEAN, NEW hearts \in [Buttons -> Button],
         Publish(value, hearts)
  PROVE  HeartsAgree'
<1>1. \A b \in Buttons : /\ buttons'[b].mounted = hearts[b].mounted
                         /\ hearts[b].mounted => buttons'[b].shown = value
  BY Published
<1> QED
  BY <1>1, Published DEF HeartsAgree

LEMMA NextAgree == TypesFit /\ HeartsAgree /\ [Next]_vars => HeartsAgree'
<1> SUFFICES ASSUME TypesFit, HeartsAgree, [Next]_vars PROVE HeartsAgree'
  OBVIOUS
<1>0. /\ buttons \in [Buttons -> Button] /\ clicks \in [Calls -> Click]
      /\ syncs \in [Buttons -> Sync]
  BY DEF TypesFit
<1>a. CASE UNCHANGED <<cache, buttons>>
  BY <1>a DEF HeartsAgree
<1>1. ASSUME NEW b \in Buttons, NEW listed \in BOOLEAN, Mount(b, listed)
      PROVE  HeartsAgree'
  <2>1. /\ UNCHANGED cache /\ buttons'[b].shown = FirstShown(listed)
        /\ \A c \in Buttons : c # b => buttons'[c] = buttons[c]
    BY <1>0, <1>1 DEF Mount
  <2> QED BY <2>1 DEF FirstShown, HeartsAgree
<1>2. ASSUME NEW b \in Buttons, Unmount(b) PROVE HeartsAgree'
  <2>1. /\ UNCHANGED cache /\ ~buttons'[b].mounted
        /\ \A c \in Buttons : c # b => buttons'[c] = buttons[c]
    BY <1>0, <1>2 DEF Unmount, NoButton
  <2> QED BY <2>1 DEF HeartsAgree
<1>3. ASSUME NEW b \in Buttons, SyncAnswered(b) PROVE HeartsAgree'
  <2>1. syncs[b].value \in BOOLEAN
    BY <1>0 DEF Sync
  <2> QED BY <1>0, <1>3, <2>1, PublishedAgrees DEF SyncAnswered
<1>4. ASSUME NEW b \in Buttons, NEW k \in Calls, ClickHeart(b, k)
      PROVE  HeartsAgree'
  BY <1>4, HeartClicked DEF HeartsAgree
<1>5. ASSUME NEW k \in Calls
      PROVE  /\ Release(k) \in [Buttons -> Button]
             /\ ShownAfter(k) \in BOOLEAN /\ clicks[k].was \in BOOLEAN
  BY <1>0, <1>5 DEF Release, ShownAfter, Button, Click
<1>6. ASSUME NEW k \in Calls, Answer(k) \/ Abandon(k) PROVE HeartsAgree'
  BY <1>a, <1>5, <1>6, PublishedAgrees DEF Answer, Abandon
<1> QED
  BY <1>a, <1>1, <1>2, <1>3, <1>4, <1>6
     DEF Next, SyncRead, SyncFails, Enforce, Refuse, AddRead, AddWrite, Remove,
         ChangeElsewhere, buttonVars, vars

-----------------------------------------------------------------------------
(* Questions that are alone.                                               *)

(* Clicks end and questions end: nothing new is on its way.                *)
LEMMA StillAlone ==
  ASSUME AloneIsAlone,
         Clicking' => Clicking,
         \A b \in Buttons : /\ syncs'[b].at # "none" => syncs[b].at # "none"
                            /\ syncs'[b].alone => syncs[b].alone
                                                 /\ syncs'[b].at # "none"
  PROVE  AloneIsAlone'
  BY DEF AloneIsAlone, SyncingElsewhere

LEMMA NextAlone == TypesFit /\ AloneIsAlone /\ [Next]_vars => AloneIsAlone'
<1> SUFFICES ASSUME TypesFit, AloneIsAlone, [Next]_vars PROVE AloneIsAlone'
  OBVIOUS
<1>0. clicks \in [Calls -> Click] /\ syncs \in [Buttons -> Sync]
  BY DEF TypesFit
<1>a. CASE syncs' = syncs /\ (Clicking' => Clicking)
  BY <1>a, StillAlone DEF AloneIsAlone
<1>b. ASSUME NEW b \in Buttons, syncs' = [syncs EXCEPT ![b] = NoSync],
             Clicking' => Clicking
      PROVE  AloneIsAlone'
  <2>1. /\ syncs'[b].at = "none" /\ ~syncs'[b].alone
        /\ \A c \in Buttons : c # b => syncs'[c] = syncs[c]
    BY <1>0, <1>b DEF NoSync
  <2>2. \A c \in Buttons : /\ syncs'[c].at # "none" => syncs[c].at # "none"
                           /\ syncs'[c].alone => syncs[c].alone
                                                /\ syncs'[c].at # "none"
    BY <2>1 DEF AloneIsAlone
  <2> QED BY <1>b, <2>2, StillAlone
<1>c. ASSUME NEW k \in Calls, clicks[k].at # "idle",
             \A j \in Calls : j # k => clicks'[j] = clicks[j]
      PROVE  Clicking' => Clicking
  BY <1>c DEF Clicking
<1>1. ASSUME NEW b \in Buttons, NEW listed \in BOOLEAN, Mount(b, listed)
      PROVE  AloneIsAlone'
  <2>1. UNCHANGED clicks /\ Clicking' = Clicking
    BY <1>1 DEF Mount, Clicking
  <2>2. CASE b \notin Syncing
    BY <1>1, <1>a, <2>1, <2>2 DEF Mount
  <2>3. CASE b \in Syncing
    <3>1. syncs' = [Disturbed(syncs) EXCEPT ![b] =
                      [at |-> "asked", value |-> FALSE,
                       alone |-> ~Clicking /\ ~SyncingElsewhere(b)]]
      BY <1>1, <2>3 DEF Mount
    <3>2. /\ syncs'[b].at = "asked"
          /\ syncs'[b].alone = (~Clicking /\ ~SyncingElsewhere(b))
          /\ \A c \in Buttons : c # b => /\ syncs'[c].at = syncs[c].at
                                        /\ ~syncs'[c].alone
      BY <1>0, <3>1, QuestionsDisturbed
    <3>3. SyncingElsewhere(b)' => SyncingElsewhere(b)
      BY <3>2 DEF SyncingElsewhere
    <3> QED BY <2>1, <3>2, <3>3 DEF AloneIsAlone
  <2> QED BY <2>2, <2>3
<1>2. ASSUME NEW b \in Buttons, Unmount(b) PROVE AloneIsAlone'
  <2>1. \A k \in Calls : clicks'[k].at = clicks[k].at
    BY <1>0, <1>2 DEF Unmount, Click
  <2> QED BY <1>2, <1>b, <2>1 DEF Unmount, Clicking
<1>3. ASSUME NEW b \in Buttons, SyncRead(b) PROVE AloneIsAlone'
  <2>1. syncs'[b].at = "read" /\ syncs'[b].alone = syncs[b].alone
        /\ syncs[b].at = "asked"
        /\ \A c \in Buttons : c # b => syncs'[c] = syncs[c]
    BY <1>0, <1>3 DEF SyncRead, Sync
  <2>2. \A c \in Buttons : /\ syncs'[c].at # "none" => syncs[c].at # "none"
                           /\ syncs'[c].alone => syncs[c].alone
                                                /\ syncs'[c].at # "none"
    BY <2>1 DEF AloneIsAlone
  <2> QED BY <1>3, <2>2, StillAlone DEF SyncRead, Clicking
<1>4. ASSUME NEW b \in Buttons, SyncFails(b) \/ SyncAnswered(b)
      PROVE  AloneIsAlone'
  BY <1>4, <1>b DEF SyncFails, SyncAnswered, Clicking
<1>5. ASSUME NEW b \in Buttons, NEW k \in Calls, ClickHeart(b, k)
      PROVE  AloneIsAlone'
  BY <1>5, HeartClicked DEF AloneIsAlone
<1>6. ASSUME NEW k \in Calls, Enforce(k) \/ Refuse(k) \/ AddRead(k)
                \/ AddWrite(k) \/ Remove(k) \/ Answer(k) \/ Abandon(k)
      PROVE  AloneIsAlone'
  <2>1. syncs' = syncs /\ clicks[k].at # "idle"
    BY <1>6 DEF Enforce, Refuse, AddRead, AddWrite, Remove, Answer, Abandon
  <2>2. \A j \in Calls : j # k => clicks'[j] = clicks[j]
    BY <1>0, <1>6 DEF Enforce, Refuse, AddRead, AddWrite, Remove, Answer,
                      Abandon, GoToStep
  <2> QED BY <1>a, <1>c, <2>1, <2>2
<1>7. CASE ChangeElsewhere
  <2>1. \A b \in Buttons : ~syncs'[b].alone
    BY <1>0, <1>7, QuestionsDisturbed DEF ChangeElsewhere
  <2> QED BY <2>1 DEF AloneIsAlone
<1>8. CASE UNCHANGED buttonVars
  BY <1>8, <1>a DEF buttonVars, Clicking
<1> QED
  BY <1>1, <1>2, <1>3, <1>4, <1>5, <1>6, <1>7, <1>8 DEF Next, vars

-----------------------------------------------------------------------------
(* What hearts know.                                                       *)

(* While a click is on its way no question is.                             *)
LEMMA NoQuestionsWithClicks ==
  ASSUME AloneIsAlone, QuestionsAreTrue, Clicking
  PROVE  \A b \in Buttons : syncs[b].at = "none"
  BY DEF AloneIsAlone, QuestionsAreTrue

(* A step of the only click, after which it is still true and on its way.  *)
LEMMA ClickStaysTrue ==
  ASSUME AloneIsAlone, ClicksAreTrue, QuestionsAreTrue, NEW k \in Calls,
         clicks[k].at # "idle", clicks'[k].at # "idle", ClickIsTrue(k)',
         \A j \in Calls : j # k => clicks'[j] = clicks[j],
         UNCHANGED syncs
  PROVE  NothingStrayed'
<1>1. \A b \in Buttons : syncs[b].at = "none"
  BY NoQuestionsWithClicks DEF Clicking
<1>2. \A j \in Calls : clicks'[j].at # "idle" => j = k
  BY DEF ClicksAreTrue
<1>3. ClicksAreTrue'
  BY <1>2 DEF ClicksAreTrue
<1>4. QuestionsAreTrue'
  BY <1>1 DEF QuestionsAreTrue
<1>5. ShownIsTrue'
  BY DEF ShownIsTrue, Clicking
<1> QED
  BY <1>3, <1>4, <1>5 DEF NothingStrayed

LEMMA MountStaysTrue ==
  ASSUME TypesFit, AloneIsAlone, NothingStrayed, NEW b \in Buttons, NEW listed \in BOOLEAN,
         Mount(b, listed)
  PROVE  NothingStrayed'
<1> SUFFICES ASSUME ~strayed' PROVE (ClicksAreTrue /\ QuestionsAreTrue /\ ShownIsTrue)'
  BY DEF NothingStrayed
<1>0. /\ buttons \in [Buttons -> Button] /\ syncs \in [Buttons -> Sync]
      /\ favorite \in BOOLEAN
  BY DEF TypesFit
<1>1. /\ UNCHANGED <<favorite, cache, clicks>>
      /\ buttons'[b].shown = FirstShown(listed)
      /\ \A c \in Buttons : c # b => buttons'[c] = buttons[c]
  BY <1>0 DEF Mount
<1>2. /\ ~strayed
      /\ b \in Syncing => ~Clicking /\ ~SyncingElsewhere(b)
      /\ cache = None /\ favorite => listed
  BY DEF Mount
<1>3. ClicksAreTrue /\ QuestionsAreTrue /\ ShownIsTrue
  BY <1>2 DEF NothingStrayed
<1>4. ClicksAreTrue'
  BY <1>1, <1>3 DEF ClicksAreTrue, ClickIsTrue
<1>5. QuestionsAreTrue'
  <2>1. CASE b \notin Syncing
    BY <1>1, <1>3, <2>1 DEF Mount, QuestionsAreTrue
  <2>2. CASE b \in Syncing
    <3>1. syncs' = [Disturbed(syncs) EXCEPT ![b] =
                      [at |-> "asked", value |-> FALSE, alone |-> TRUE]]
      BY <1>2, <2>2 DEF Mount
    <3>2. /\ syncs'[b].at = "asked" /\ syncs'[b].alone
          /\ \A c \in Buttons : c # b => syncs'[c].at = syncs[c].at
      BY <1>0, <3>1, QuestionsDisturbed
    <3> QED BY <1>2, <2>2, <3>2 DEF QuestionsAreTrue, SyncingElsewhere
  <2> QED BY <2>1, <2>2
<1>6. ShownIsTrue'
  <2>1. ~Clicking => FirstShown(listed) = favorite
    BY <1>0, <1>2, <1>3 DEF ShownIsTrue, FirstShown
  <2> QED BY <1>1, <1>3, <2>1 DEF ShownIsTrue, Clicking
<1> QED
  BY <1>4, <1>5, <1>6

LEMMA AnsweredQuestionIsTrue ==
  ASSUME TypesFit, AloneIsAlone, NothingStrayed, NEW b \in Buttons,
         SyncAnswered(b)
  PROVE  NothingStrayed'
<1> SUFFICES ASSUME ~strayed' PROVE NothingStrayed'
  BY DEF NothingStrayed
<1>0. /\ buttons \in [Buttons -> Button] /\ syncs \in [Buttons -> Sync]
      /\ syncs[b].value \in BOOLEAN
  BY DEF TypesFit, Sync
<1>1. syncs[b].alone /\ syncs[b].value = favorite
  <2>1. CASE strayed
    BY <2>1 DEF SyncAnswered
  <2>2. CASE ~strayed
    BY <2>2 DEF SyncAnswered, NothingStrayed, QuestionsAreTrue
  <2> QED BY <2>1, <2>2
<1>2. ~Clicking /\ ~SyncingElsewhere(b)
  BY <1>1 DEF AloneIsAlone
<1>3. ~Clicking' /\ UNCHANGED favorite
  BY <1>2 DEF SyncAnswered, Clicking
<1>4. \A c \in Buttons : syncs'[c].at = "none"
  BY <1>0, <1>2 DEF SyncAnswered, SyncingElsewhere, NoSync
<1>5. /\ cache' = favorite
      /\ \A c \in Buttons : buttons'[c].mounted => buttons'[c].shown = favorite
  <2>1. \A c \in Buttons : /\ buttons'[c].mounted = buttons[c].mounted
                           /\ buttons[c].mounted => buttons'[c].shown = syncs[b].value
    BY <1>0, Published DEF SyncAnswered
  <2> QED BY <1>1, <2>1 DEF SyncAnswered, Publish
<1>6. ShownIsTrue'
  BY <1>3, <1>5 DEF ShownIsTrue
<1> QED
  BY <1>3, <1>4, <1>6 DEF Clicking, ClicksAreTrue, QuestionsAreTrue,
                          NothingStrayed

LEMMA ClickStartsTrue ==
  ASSUME TypesFit, NothingStrayed, NEW b \in Buttons, NEW k \in Calls,
         ClickHeart(b, k)
  PROVE  NothingStrayed'
<1> SUFFICES ASSUME ~strayed' PROVE (ClicksAreTrue /\ QuestionsAreTrue /\ ShownIsTrue)'
  BY DEF NothingStrayed
<1>1. /\ ~strayed /\ ~Clicking /\ ~SyncingElsewhere(b)
      /\ buttons[b].mounted
  BY HeartClicked
<1>2. buttons[b].shown = favorite /\ UNCHANGED favorite
  BY <1>1 DEF NothingStrayed, ShownIsTrue, ClickHeart
<1>3. /\ \A j \in Calls : j # k => clicks'[j] = clicks[j]
      /\ clicks'[k].at \in {"limit", "failed"}
      /\ cache' \in BOOLEAN /\ clicks'[k].want = cache'
      /\ cache' # favorite /\ clicks'[k].was = favorite
      /\ ~clicks'[k].abandoned
  BY <1>2, HeartClicked
<1>4. \A j \in Calls : clicks'[j].at # "idle" => j = k
  BY <1>1, <1>3 DEF Clicking
<1>5. ClickIsTrue(k)'
  <2>1. clicks'[k].was = ~clicks'[k].want
    <3>1. favorite \in BOOLEAN
      BY DEF TypesFit
    <3> QED BY <1>3, <3>1
  <2> QED BY <1>2, <1>3, <2>1 DEF ClickIsTrue
<1>6. ClicksAreTrue'
  BY <1>4, <1>5 DEF ClicksAreTrue
<1>7. QuestionsAreTrue'
  <2>1. \A c \in Buttons : syncs'[c].at = "none"
    BY <1>1, HeartClicked DEF SyncingElsewhere
  <2> QED BY <2>1 DEF QuestionsAreTrue
<1>8. ShownIsTrue'
  BY <1>3 DEF ShownIsTrue, Clicking
<1> QED
  BY <1>6, <1>7, <1>8

(* The steps of a request, up to its answer.                               *)
LEMMA RequestStaysTrue ==
  ASSUME TypesFit, AloneIsAlone, NothingStrayed, NEW k \in Calls,
         Enforce(k) \/ Refuse(k) \/ AddRead(k) \/ AddWrite(k) \/ Remove(k)
  PROVE  NothingStrayed'
<1> SUFFICES ASSUME ~strayed' PROVE NothingStrayed'
  BY DEF NothingStrayed
<1>0. clicks \in [Calls -> Click] /\ favorite \in BOOLEAN
      /\ clicks[k].want \in BOOLEAN /\ clicks[k].was \in BOOLEAN
  BY DEF TypesFit, Click
<1>1. ~strayed /\ clicks[k].at # "idle" /\ UNCHANGED <<cache, syncs>>
  BY DEF Enforce, Refuse, AddRead, AddWrite, Remove
<1>2. ClicksAreTrue /\ QuestionsAreTrue /\ ClickIsTrue(k)
  BY <1>1 DEF NothingStrayed, ClicksAreTrue
<1>3. /\ \A j \in Calls : j # k => clicks'[j] = clicks[j]
      /\ UNCHANGED <<clicks[k].want, clicks[k].was, clicks[k].abandoned>>
  BY <1>0 DEF Enforce, Refuse, AddRead, AddWrite, Remove, GoToStep, Click
<1>4. clicks'[k].at # "idle" /\ ClickIsTrue(k)'
  <2>1. CASE Enforce(k)
    <3>1. UNCHANGED favorite /\ clicks[k].at = "limit"
          /\ clicks'[k].at \in {"allowed", "failed"}
      BY <1>0, <2>1, ClickGoesOn DEF Enforce
    <3> QED BY <1>1, <1>2, <1>3, <3>1 DEF ClickIsTrue
  <2>2. CASE Refuse(k)
    <3>1. UNCHANGED favorite /\ clicks[k].at = "allowed"
          /\ clicks'[k].at = "failed"
      BY <1>0, <2>2, ClickGoesOn DEF Refuse
    <3> QED BY <1>1, <1>2, <1>3, <3>1 DEF ClickIsTrue
  <2>3. CASE AddRead(k)
    <3>1. UNCHANGED favorite /\ clicks[k].at = "allowed" /\ clicks[k].want
          /\ clicks'[k].at = "inserting" /\ clicks'[k].found = favorite
      BY <1>0, <2>3 DEF AddRead, Click
    <3> QED BY <1>1, <1>2, <1>3, <3>1 DEF ClickIsTrue
  <2>4. CASE AddWrite(k)
    <3>1. favorite' = TRUE /\ clicks[k].at = "inserting"
          /\ clicks[k].want /\ clicks[k].found = favorite
      BY <1>2, <2>4 DEF AddWrite, ClickIsTrue
    <3>2. clicks'[k].at = "saved"
      BY <1>0, <2>4, <3>1, ClickGoesOn DEF AddWrite
    <3> QED BY <1>0, <1>1, <1>2, <1>3, <3>1, <3>2 DEF ClickIsTrue
  <2>5. CASE Remove(k)
    <3>1. favorite' = FALSE /\ ~clicks[k].want /\ clicks'[k].at = "saved"
      BY <1>0, <2>5, ClickGoesOn DEF Remove
    <3> QED BY <1>0, <1>1, <1>2, <1>3, <3>1 DEF ClickIsTrue
  <2> QED BY <2>1, <2>2, <2>3, <2>4, <2>5
<1> QED
  BY <1>1, <1>2, <1>3, <1>4, ClickStaysTrue

LEMMA AnswerIsTrue ==
  ASSUME TypesFit, AloneIsAlone, NothingStrayed, NEW k \in Calls, Answer(k)
  PROVE  NothingStrayed'
<1> SUFFICES ASSUME ~strayed' PROVE (ClicksAreTrue /\ QuestionsAreTrue /\ ShownIsTrue)'
  BY DEF NothingStrayed
<1>0. /\ clicks \in [Calls -> Click] /\ buttons \in [Buttons -> Button]
      /\ ShownAfter(k) \in BOOLEAN /\ Release(k) \in [Buttons -> Button]
  BY DEF TypesFit, ShownAfter, Release, Click, Button
<1>1. /\ ~strayed /\ clicks[k].at \in {"saved", "failed"}
      /\ UNCHANGED <<favorite, syncs>>
  BY DEF Answer
<1>2. ClicksAreTrue /\ QuestionsAreTrue /\ ClickIsTrue(k)
  BY <1>1 DEF NothingStrayed, ClicksAreTrue
<1>3. ShownAfter(k) = favorite /\ Publish(ShownAfter(k), Release(k))
  BY <1>1, <1>2 DEF ClickIsTrue, ShownAfter, Answer
<1>4. \A j \in Calls : clicks'[j].at = "idle"
  <2>1. clicks'[k] = NoClick /\ \A j \in Calls : j # k => clicks'[j] = clicks[j]
    BY <1>0 DEF Answer
  <2> QED BY <1>1, <1>2, <2>1 DEF ClicksAreTrue, NoClick
<1>5. ClicksAreTrue'
  BY <1>4 DEF ClicksAreTrue
<1>6. QuestionsAreTrue'
  <2>1. \A b \in Buttons : syncs[b].at = "none"
    BY <1>1, <1>2, NoQuestionsWithClicks DEF Clicking
  <2> QED BY <1>1, <2>1 DEF QuestionsAreTrue
<1>7. ShownIsTrue'
  <2>1. /\ cache' = ShownAfter(k)
        /\ \A b \in Buttons : buttons'[b].mounted => buttons'[b].shown = ShownAfter(k)
    BY <1>0, <1>3, Published
  <2> QED BY <1>1, <1>3, <2>1 DEF ShownIsTrue
<1> QED
  BY <1>5, <1>6, <1>7

LEMMA NextTrue ==
  TypesFit /\ AloneIsAlone /\ NothingStrayed /\ [Next]_vars => NothingStrayed'
<1> SUFFICES ASSUME TypesFit, AloneIsAlone, NothingStrayed, [Next]_vars
             PROVE  NothingStrayed'
  OBVIOUS
<1>0. /\ buttons \in [Buttons -> Button] /\ syncs \in [Buttons -> Sync]
      /\ clicks \in [Calls -> Click]
  BY DEF TypesFit
<1>1. ASSUME NEW b \in Buttons, Unmount(b) PROVE NothingStrayed'
  <2>1. /\ UNCHANGED <<favorite, cache, strayed>>
        /\ syncs'[b].at = "none" /\ ~buttons'[b].mounted
        /\ \A c \in Buttons : c # b => /\ syncs'[c] = syncs[c]
                                       /\ buttons'[c] = buttons[c]
    BY <1>0, <1>1 DEF Unmount, NoSync, NoButton
  <2>2. \A k \in Calls : /\ clicks'[k].at = clicks[k].at
                         /\ clicks'[k].want = clicks[k].want
                         /\ clicks'[k].was = clicks[k].was
                         /\ clicks'[k].found = clicks[k].found
                         /\ clicks'[k].abandoned = clicks[k].abandoned
    BY <1>0, <1>1 DEF Unmount, Click
  <2>3. ClicksAreTrue => ClicksAreTrue'
    BY <2>1, <2>2 DEF ClicksAreTrue, ClickIsTrue
  <2>4. (QuestionsAreTrue => QuestionsAreTrue') /\ (ShownIsTrue => ShownIsTrue')
    BY <2>1, <2>2 DEF QuestionsAreTrue, ShownIsTrue, Clicking
  <2> QED BY <2>1, <2>3, <2>4 DEF NothingStrayed
<1>2. ASSUME NEW b \in Buttons, SyncRead(b) \/ SyncFails(b)
      PROVE  NothingStrayed'
  <2>1. UNCHANGED <<favorite, cache, buttons, clicks>> /\ (~strayed' => ~strayed)
    <3>1. CASE SyncRead(b)
      <4>1. \E listed : strayed' = (strayed \/ (favorite /\ ~listed))
        BY <3>1 DEF SyncRead
      <4> QED BY <3>1, <4>1 DEF SyncRead
    <3>2. CASE SyncFails(b)
      BY <3>2 DEF SyncFails
    <3> QED BY <1>2, <3>1, <3>2
  <2>2. (ClicksAreTrue => ClicksAreTrue') /\ (ShownIsTrue => ShownIsTrue')
    BY <2>1 DEF ClicksAreTrue, ClickIsTrue, ShownIsTrue, Clicking
  <2>3. ~strayed' /\ QuestionsAreTrue => QuestionsAreTrue'
    <3>1. CASE SyncFails(b)
      BY <1>0, <2>1, <3>1 DEF SyncFails, NoSync, QuestionsAreTrue
    <3>2. CASE SyncRead(b)
      <4>1. PICK listed \in BOOLEAN :
              /\ syncs' = [syncs EXCEPT ![b].at = "read",
                                        ![b].value = favorite /\ listed]
              /\ strayed' = (strayed \/ (favorite /\ ~listed))
        BY <3>2 DEF SyncRead
      <4>2. /\ syncs[b].at = "asked" /\ syncs'[b].at = "read"
            /\ syncs'[b].alone = syncs[b].alone
            /\ \A c \in Buttons : c # b => syncs'[c] = syncs[c]
        BY <1>0, <3>2, <4>1 DEF SyncRead, Sync
      <4>3. ~strayed' => syncs'[b].value = favorite
        <5>1. CASE favorite = TRUE
          BY <1>0, <4>1, <5>1 DEF Sync
        <5>2. CASE favorite = FALSE
          BY <1>0, <4>1, <5>2 DEF Sync
        <5> QED BY <5>1, <5>2 DEF TypesFit
      <4> QED BY <2>1, <4>2, <4>3 DEF QuestionsAreTrue
    <3> QED BY <1>2, <3>1, <3>2
  <2> QED BY <2>1, <2>2, <2>3 DEF NothingStrayed
<1>3. ASSUME NEW k \in Calls, Abandon(k) PROVE NothingStrayed'
  BY <1>3 DEF Abandon, NothingStrayed
<1>4. CASE ChangeElsewhere
  BY <1>4 DEF ChangeElsewhere, NothingStrayed
<1>5. CASE UNCHANGED buttonVars
  BY <1>5 DEF buttonVars, NothingStrayed, ClicksAreTrue, ClickIsTrue,
              QuestionsAreTrue, ShownIsTrue, Clicking
<1> QED
  BY <1>1, <1>2, <1>3, <1>4, <1>5, MountStaysTrue, AnsweredQuestionIsTrue,
     ClickStartsTrue, RequestStaysTrue, AnswerIsTrue DEF Next, vars

-----------------------------------------------------------------------------
(* The invariant of the specification, and what follows from it.           *)

LEMMA InitHearts ==
  Init => LimitTypeOK /\ TypesFit /\ ClicksHaveHearts /\ HeartsAgree
          /\ AloneIsAlone /\ NothingStrayed
<1> SUFFICES ASSUME Init
             PROVE  LimitTypeOK /\ TypesFit /\ ClicksHaveHearts /\ HeartsAgree
                    /\ AloneIsAlone /\ NothingStrayed
  OBVIOUS
<1>1. LimitTypeOK
  BY LimitStarts DEF Init
<1>2. NoButton \in Button /\ NoSync \in Sync /\ NoClick \in Click
  BY DEF NoButton, NoSync, NoClick, Button, Sync, Click
<1>3. TypesFit
  BY <1>2 DEF Init, TypesFit
<1>4. /\ cache = None
      /\ \A b \in Buttons : /\ ~buttons[b].mounted /\ ~buttons[b].pending
                            /\ syncs[b].at = "none" /\ ~syncs[b].alone
      /\ \A k \in Calls : clicks[k].by = None /\ clicks[k].at = "idle"
  BY DEF Init, NoButton, NoSync, NoClick
<1>5. ClicksHaveHearts
  BY <1>4, ButtonAssumption DEF ClicksHaveHearts, WaitsForItsClick
<1>6. HeartsAgree /\ AloneIsAlone /\ NothingStrayed
  BY <1>4 DEF HeartsAgree, AloneIsAlone, NothingStrayed, ClicksAreTrue,
              QuestionsAreTrue, ShownIsTrue
<1> QED
  BY <1>1, <1>3, <1>5, <1>6

LEMMA HeartsAlways ==
  Spec => [](LimitTypeOK /\ TypesFit /\ ClicksHaveHearts /\ HeartsAgree
             /\ AloneIsAlone /\ NothingStrayed)
BY InitHearts, NextLimit, NextTypes, NextHearts, NextAgree, NextAlone, NextTrue,
   PTL DEF Spec

(* Hearts, requests and the limit's key are well formed, and a heart is    *)
(* disabled just while its own click is on its way, for any number of      *)
(* hearts and requests and any limit.                                      *)
THEOREM HeartsWellFormed == Spec => []TypeOK
<1>1. LimitTypeOK /\ TypesFit /\ ClicksHaveHearts => TypeOK
  <2> SUFFICES ASSUME LimitTypeOK, TypesFit, ClicksHaveHearts PROVE TypeOK
    OBVIOUS
  <2>1. \A b \in Buttons :
          buttons[b].pending <=>
            \E k \in Calls : clicks[k].by = b /\ ~clicks[k].abandoned
    BY ButtonAssumption DEF ClicksHaveHearts, WaitsForItsClick
  <2> QED BY <2>1 DEF TypesFit, TypeOK
<1> QED
  BY <1>1, HeartsAlways, PTL

(* The hearts of a listing agree with the cache and so with each other.    *)
THEOREM AllHeartsAgree == Spec => []HeartsAgree
BY HeartsAlways, PTL

(* With nothing on its way the hearts show what is stored, unless          *)
(* something has happened that the browser cannot know.                    *)
THEOREM HeartsAreRight == Spec => []HeartIsRight
<1>1. NothingStrayed => HeartIsRight
  BY DEF NothingStrayed, ShownIsTrue, HeartIsRight
<1> QED
  BY <1>1, HeartsAlways, PTL

-----------------------------------------------------------------------------
(* The section of nearby listings: what holds of its questions.            *)

NothingAtFirst ==
  /\ permission = "unasked" => outcome = "none" /\ ~Attempting
  /\ permission = "asked" \/ Attempting => locates

(* A section that has failed waits for no recent listings it would show.   *)
OneOfEach ==
  /\ \A q, r \in recents : q.id = r.id => q = r
  /\ status = "error" => \A r \in recents : r.id # recentId

OneAttempt ==
  alone => \/ locating = 0 /\ nearbys \subseteq {nearbyId}
           \/ locating = 1 /\ nearbys = {}

(* Questions for recent listings that are out are older than the attempt   *)
(* that is under way, and than the one that has found listings.            *)
NearbyIsLater ==
  alone /\ nearbys # {} => \A r \in recents : r.start < nearbyId

NearIsShown ==
  alone /\ outcome = "near" =>
    list = "near" /\ \A r \in recents : r.start < readyId

(* After an attempt without listings the recent ones are on their way,     *)
(* have failed, or are shown.                                              *)
RecentIsShown ==
  alone /\ outcome = "recent" /\ ~Attempting =>
    \/ \E r \in recents : r.id = recentId /\ r.start = nearbyId
    \/ status = "error"
    \/ list = "recent"

(* Questions for recent listings, one or two at a time.                    *)
LEMMA RecentAsked ==
  ASSUME SectionTypeOK, NEW n \in {1, 2}, AskRecent(n)
  PROVE  /\ recentId' = recentId + n
         /\ recents \subseteq recents'
         /\ \A r \in recents' \ recents :
              /\ r \in [id : 1 .. recentId', start : 0 .. nearbyId]
              /\ r.id > recentId /\ r.start = nearbyId
         /\ \A q, r \in recents' \ recents : q.id = r.id => q = r
         /\ \E r \in recents' : r.id = recentId' /\ r.start = nearbyId
         /\ message' = "recent" /\ status' \in {"locating", "loading"}
<1>0. recentId \in Nat /\ nearbyId \in Nat
  BY DEF SectionTypeOK
<1>1. /\ recentId' = recentId + n
      /\ message' = "recent" /\ status' \in {"locating", "loading"}
      /\ recents' = recents \cup
           {[id |-> recentId + i, start |-> nearbyId] : i \in 1 .. n}
  BY DEF AskRecent
<1>2. \A r \in recents' \ recents :
        \E i \in 1 .. n : r = [id |-> recentId + i, start |-> nearbyId]
  BY <1>1
<1>3. \A r \in recents' \ recents :
        /\ r \in [id : 1 .. recentId', start : 0 .. nearbyId]
        /\ r.id > recentId /\ r.start = nearbyId
  BY <1>0, <1>1, <1>2
<1>4. \A q, r \in recents' \ recents : q.id = r.id => q = r
  BY <1>0, <1>2
<1>5. \E r \in recents' : r.id = recentId' /\ r.start = nearbyId
  <2>1. [id |-> recentId + n, start |-> nearbyId] \in recents'
    BY <1>1
  <2> QED BY <1>1, <2>1
<1> QED
  BY <1>1, <1>3, <1>4, <1>5

LEMMA QuestionsAreFound ==
  ASSUME SectionTypeOK
  PROVE  \A r \in recents : /\ r.id \in 1 .. recentId
                             /\ r.start \in 0 .. nearbyId
  BY DEF SectionTypeOK

-----------------------------------------------------------------------------
(* Types.                                                                  *)

LEMMA SectionTypes ==
  SectionTypeOK /\ NothingAtFirst /\ [SectionNext]_sectionVars => SectionTypeOK'
<1> SUFFICES ASSUME SectionTypeOK, NothingAtFirst, [SectionNext]_sectionVars
             PROVE  SectionTypeOK'
  OBVIOUS
<1>0. /\ recentId \in Nat /\ nearbyId \in Nat /\ readyId \in 0 .. nearbyId
      /\ recents \subseteq [id : 1 .. recentId, start : 0 .. nearbyId]
      /\ nearbys \subseteq 1 .. nearbyId
      /\ locating \in Nat
  BY DEF SectionTypeOK
<1>a. ASSUME NEW n \in {1, 2}, AskRecent(n)
      PROVE  /\ recentId' \in Nat /\ status' \in Statuses /\ message' = "recent"
             /\ recents' \subseteq [id : 1 .. recentId', start : 0 .. nearbyId]
  <2>1. recentId' = recentId + n /\ \A r \in recents' \ recents :
          r \in [id : 1 .. recentId', start : 0 .. nearbyId]
    BY <1>a, RecentAsked
  <2>2. 1 .. recentId \subseteq 1 .. recentId'
    BY <1>0, <2>1
  <2> QED BY <1>0, <1>a, <2>1, <2>2, RecentAsked DEF Statuses
<1>b. ASSUME Miss
      PROVE  /\ recentId' \in Nat /\ status' \in Statuses /\ message' = "recent"
             /\ recents' \subseteq [id : 1 .. recentId', start : 0 .. nearbyId]
             /\ outcome' = "recent"
             /\ UNCHANGED <<locates, list, nearbyId, readyId>>
  BY <1>a, <1>b DEF Miss
<1>c. ASSUME Locate, locates, permission' \in {"asked", "known"}
      PROVE  SectionTypeOK'
  BY <1>0, <1>c DEF Locate, ids, SectionTypeOK, Statuses
<1>1. CASE MountSection
  BY <1>a, <1>1 DEF MountSection, SectionTypeOK
<1>2. CASE PermissionGranted
  BY <1>c, <1>2 DEF PermissionGranted, NothingAtFirst, Locate, SectionTypeOK
<1>3. CASE PermissionMissing
  BY <1>b, <1>3 DEF PermissionMissing, SectionTypeOK
<1>4. CASE UsePosition
  BY <1>b, <1>c, <1>4 DEF UsePosition, Locate, SectionTypeOK
<1>5. CASE PositionFound
  <2>1. /\ locating' \in Nat /\ (locating' > 0 => locates) /\ nearbyId' \in Nat
        /\ readyId' \in 0 .. nearbyId'
        /\ nearbys' \subseteq 1 .. nearbyId'
        /\ recents' \subseteq [id : 1 .. recentId', start : 0 .. nearbyId']
    BY <1>0, <1>5 DEF PositionFound, SectionTypeOK
  <2> QED BY <1>5, <2>1 DEF PositionFound, SectionTypeOK, Statuses
<1>6. CASE PositionMissing
  BY <1>0, <1>b, <1>6 DEF PositionMissing, SectionTypeOK
<1>7. ASSUME NEW n \in nearbys, Nearby(n) PROVE SectionTypeOK'
  <2>1. nearbys' \subseteq 1 .. nearbyId
    BY <1>0, <1>7 DEF Nearby, NearbyLate, NearbyFound, NearbyMissing,
                      NearbyReturns
  <2>2. CASE NearbyLate(n)
    BY <2>1, <2>2 DEF NearbyLate, NearbyReturns, shown, ids, SectionTypeOK
  <2>3. CASE NearbyFound(n)
    BY <1>0, <2>1, <2>3
       DEF NearbyFound, NearbyReturns, SectionTypeOK, Statuses
  <2>4. CASE NearbyMissing(n)
    BY <1>b, <2>1, <2>4 DEF NearbyMissing, NearbyReturns, SectionTypeOK
  <2> QED BY <1>7, <2>2, <2>3, <2>4 DEF Nearby
<1>8. ASSUME NEW r \in recents, Recent(r) PROVE SectionTypeOK'
  <2>1. RecentReturns(r)
    BY <1>8 DEF Recent, RecentLate, RecentFound, RecentFailed, RecentFailedLate
  <2>2. /\ status' \in Statuses
        /\ message' \in {"none", "recent", "searching", "near", "failed"}
        /\ list' \in {"none", "recent", "near"}
    BY <1>8 DEF Recent, RecentLate, RecentFound, RecentFailed, RecentFailedLate,
                shown, SectionTypeOK, Statuses
  <2> QED BY <2>1, <2>2 DEF RecentReturns, ids, SectionTypeOK
<1>9. CASE UNCHANGED sectionVars
  BY <1>9 DEF sectionVars, shown, ids, SectionTypeOK
<1> QED
  BY <1>1, <1>2, <1>3, <1>4, <1>5, <1>6, <1>7, <1>8, <1>9
     DEF SectionNext, PermissionReturns, PositionReturns

-----------------------------------------------------------------------------
(* What the section says.                                                  *)

LEMMA SectionStarts ==
  ASSUME SectionTypeOK, NothingAtFirst, [SectionNext]_sectionVars
  PROVE  NothingAtFirst'
<1>1. CASE MountSection
  BY <1>1 DEF MountSection, NothingAtFirst, Attempting
<1>2. CASE PermissionReturns
  BY <1>2 DEF PermissionReturns, PermissionGranted, PermissionMissing, Locate,
              Miss, NothingAtFirst, Attempting
<1>3. CASE UsePosition
  BY <1>3 DEF UsePosition, Locate, Miss, NothingAtFirst, Attempting
<1>4. CASE PositionReturns
  <2>1. locating > 0 /\ UNCHANGED <<locates, permission>>
    BY <1>4 DEF PositionReturns, PositionFound, PositionMissing, Miss
  <2> QED BY <2>1 DEF NothingAtFirst, Attempting
<1>5. ASSUME NEW n \in nearbys, Nearby(n) PROVE NothingAtFirst'
  <2>1. UNCHANGED <<locates, permission>>
    BY <1>5 DEF Nearby, NearbyLate, NearbyFound, NearbyMissing, NearbyReturns
  <2> QED BY <2>1 DEF NothingAtFirst, Attempting
<1>6. ASSUME NEW r \in recents, Recent(r) PROVE NothingAtFirst'
  BY <1>6 DEF Recent, RecentLate, RecentFound, RecentFailed, RecentFailedLate,
              RecentReturns, NothingAtFirst, Attempting
<1>7. CASE UNCHANGED sectionVars
  BY <1>7 DEF sectionVars, NothingAtFirst, Attempting
<1> QED
  BY <1>1, <1>2, <1>3, <1>4, <1>5, <1>6, <1>7 DEF SectionNext

(* Questions that were asked, or answered, and a section that has not      *)
(* failed meanwhile.                                                       *)
LEMMA SectionQuestions ==
  ASSUME SectionTypeOK, OneOfEach, [SectionNext]_sectionVars
  PROVE  OneOfEach'
<1>0. recentId \in Nat /\ \A r \in recents : r.id \in 1 .. recentId
  BY QuestionsAreFound DEF SectionTypeOK
<1>a. ASSUME NEW n \in {1, 2}, AskRecent(n) PROVE OneOfEach'
  <2>1. \A q, r \in recents' : q.id = r.id => q = r
    <3> SUFFICES ASSUME NEW q \in recents', NEW r \in recents', q.id = r.id
                 PROVE  q = r
      OBVIOUS
    <3>1. CASE q \in recents /\ r \in recents
      BY <3>1 DEF OneOfEach
    <3>2. CASE q \notin recents /\ r \notin recents
      BY <1>a, <3>2, RecentAsked
    <3>3. \A p \in recents' \ recents : p.id > recentId
      BY <1>a, RecentAsked
    <3>4. \A p \in recents : ~(p.id > recentId)
      BY <1>0
    <3> QED BY <3>1, <3>2, <3>3, <3>4
  <2>2. status' # "error"
    BY <1>a, RecentAsked
  <2> QED BY <2>1, <2>2 DEF OneOfEach
<1>b. ASSUME Miss PROVE OneOfEach'
  BY <1>a, <1>b DEF Miss
<1>c. ASSUME UNCHANGED <<recents, recentId>>,
             status' = "error" => status = "error"
      PROVE  OneOfEach'
  BY <1>c DEF OneOfEach
<1>1. CASE MountSection
  BY <1>a, <1>1 DEF MountSection
<1>2. CASE PermissionReturns
  BY <1>b, <1>c, <1>2
     DEF PermissionReturns, PermissionGranted, PermissionMissing, Locate, ids
<1>3. CASE UsePosition
  BY <1>b, <1>c, <1>3 DEF UsePosition, Locate, ids
<1>4. CASE PositionReturns
  BY <1>b, <1>c, <1>4 DEF PositionReturns, PositionFound, PositionMissing
<1>5. ASSUME NEW n \in nearbys, Nearby(n) PROVE OneOfEach'
  BY <1>b, <1>c, <1>5
     DEF Nearby, NearbyLate, NearbyFound, NearbyMissing, shown, ids
<1>6. ASSUME NEW r \in recents, Recent(r) PROVE OneOfEach'
  <2>1. recents' = recents \ {r} /\ UNCHANGED recentId
    BY <1>6 DEF Recent, RecentLate, RecentFound, RecentFailed, RecentFailedLate,
                RecentReturns, ids
  <2>2. status' = "error" => status = "error" \/ r.id = recentId
    BY <1>6 DEF Recent, RecentLate, RecentFound, RecentFailed, RecentFailedLate,
                shown
  <2> QED BY <2>1, <2>2 DEF OneOfEach
<1>7. CASE UNCHANGED sectionVars
  BY <1>7, <1>c DEF sectionVars, shown, ids
<1> QED
  BY <1>1, <1>2, <1>3, <1>4, <1>5, <1>6, <1>7 DEF SectionNext

LEMMA SectionSays ==
  ASSUME SectionTypeOK, OneOfEach, SaysWhatItShows, [SectionNext]_sectionVars
  PROVE  SaysWhatItShows'
<1>a. ASSUME status' \in {"locating", "loading"} PROVE SaysWhatItShows'
  BY <1>a DEF SaysWhatItShows
<1>b. ASSUME UNCHANGED shown PROVE SaysWhatItShows'
  BY <1>b DEF shown, SaysWhatItShows
<1>c. ASSUME NEW n \in {1, 2}, AskRecent(n) PROVE SaysWhatItShows'
  BY <1>a, <1>c, RecentAsked
<1>1. CASE MountSection
  BY <1>c, <1>1 DEF MountSection
<1>2. CASE PermissionReturns
  BY <1>a, <1>c, <1>2
     DEF PermissionReturns, PermissionGranted, PermissionMissing, Locate, Miss
<1>3. CASE UsePosition
  BY <1>a, <1>c, <1>3 DEF UsePosition, Locate, Miss
<1>4. CASE PositionReturns
  BY <1>a, <1>c, <1>4 DEF PositionReturns, PositionFound, PositionMissing, Miss
<1>5. ASSUME NEW n \in nearbys, Nearby(n) PROVE SaysWhatItShows'
  <2>1. CASE NearbyLate(n)
    BY <1>b, <2>1 DEF NearbyLate
  <2>2. CASE NearbyFound(n)
    BY <2>2 DEF NearbyFound, SaysWhatItShows
  <2>3. CASE NearbyMissing(n)
    BY <1>c, <2>3 DEF NearbyMissing, Miss
  <2> QED BY <1>5, <2>1, <2>2, <2>3 DEF Nearby
<1>6. ASSUME NEW r \in recents, Recent(r) PROVE SaysWhatItShows'
  <2>1. CASE RecentLate(r) \/ RecentFailedLate(r)
    BY <1>b, <2>1 DEF RecentLate, RecentFailedLate
  <2>2. CASE RecentFound(r)
    <3>1. status # "error"
      BY <1>6, <2>2 DEF RecentFound, TooLate, OneOfEach
    <3> QED BY <2>2, <3>1 DEF RecentFound, SaysWhatItShows
  <2>3. CASE RecentFailed(r)
    BY <2>3 DEF RecentFailed, SaysWhatItShows
  <2> QED BY <1>6, <2>1, <2>2, <2>3 DEF Recent
<1>7. CASE UNCHANGED sectionVars
  BY <1>7, <1>b DEF sectionVars
<1> QED
  BY <1>1, <1>2, <1>3, <1>4, <1>5, <1>6, <1>7 DEF SectionNext

-----------------------------------------------------------------------------
(* What the section shows.                                                 *)

(* While attempts do not overlap there is one question at a time.          *)
LEMMA SectionAttempts ==
  ASSUME SectionTypeOK, OneAttempt, [SectionNext]_sectionVars
  PROVE  OneAttempt'
<1>0. locating \in Nat
  BY DEF SectionTypeOK
<1>a. ASSUME Locate PROVE OneAttempt'
  <2>1. locating' = locating + 1 /\ nearbys' = nearbys
    BY <1>a DEF Locate
  <2>2. alone' => ~Attempting
    BY <1>a DEF Locate
  <2>3. alone' => locating = 0 /\ nearbys = {}
    BY <1>0, <2>2 DEF Attempting
  <2> QED BY <2>1, <2>3 DEF OneAttempt
<1>b. ASSUME UNCHANGED <<locating, nearbys, nearbyId>>, alone' => alone
      PROVE  OneAttempt'
  BY <1>b DEF OneAttempt
<1>1. CASE MountSection
  BY <1>b, <1>1 DEF MountSection
<1>2. CASE PermissionReturns
  BY <1>a, <1>b, <1>2
     DEF PermissionReturns, PermissionGranted, PermissionMissing, Miss
<1>3. CASE UsePosition
  BY <1>a, <1>b, <1>3 DEF UsePosition, Miss
<1>4. CASE PositionFound
  BY <1>0, <1>4 DEF PositionFound, OneAttempt
<1>5. CASE PositionMissing
  BY <1>0, <1>5 DEF PositionMissing, Miss, OneAttempt
<1>6. ASSUME NEW n \in nearbys, Nearby(n) PROVE OneAttempt'
  <2>1. nearbys' \subseteq nearbys /\ UNCHANGED <<locating, nearbyId, alone>>
    BY <1>6 DEF Nearby, NearbyLate, NearbyFound, NearbyMissing, NearbyReturns,
                Miss, ids
  <2> QED BY <2>1 DEF OneAttempt
<1>7. ASSUME NEW r \in recents, Recent(r) PROVE OneAttempt'
  BY <1>b, <1>7 DEF Recent, RecentLate, RecentFound, RecentFailed,
                    RecentFailedLate, RecentReturns, ids
<1>8. CASE UNCHANGED sectionVars
  BY <1>b, <1>8 DEF sectionVars, ids
<1> QED
  BY <1>1, <1>2, <1>3, <1>4, <1>5, <1>6, <1>7, <1>8
     DEF SectionNext, PermissionReturns, PositionReturns

(* No recent listings are asked for while nearby ones are on their way.    *)
LEMMA SectionLater ==
  ASSUME SectionTypeOK, NothingAtFirst, OneAttempt, NearbyIsLater,
         [SectionNext]_sectionVars
  PROVE  NearbyIsLater'
<1>0. /\ locating \in Nat /\ nearbyId \in Nat
      /\ \A r \in recents : r.start \in 0 .. nearbyId
  BY QuestionsAreFound DEF SectionTypeOK
<1>a. ASSUME nearbys' = {} PROVE NearbyIsLater'
  BY <1>a DEF NearbyIsLater
<1>b. ASSUME recents' \subseteq recents, nearbys' \subseteq nearbys,
             alone' => alone, UNCHANGED nearbyId
      PROVE  NearbyIsLater'
  BY <1>b DEF NearbyIsLater
<1>1. CASE MountSection
  BY <1>a, <1>1 DEF MountSection, NothingAtFirst, Attempting
<1>2. CASE PermissionGranted
  BY <1>b, <1>2 DEF PermissionGranted, Locate, ids
<1>3. CASE PermissionMissing
  BY <1>a, <1>3 DEF PermissionMissing, Attempting, NearbyIsLater
<1>4. CASE UsePosition
  BY <1>a, <1>b, <1>4
     DEF UsePosition, Locate, ids, NothingAtFirst, Attempting
<1>5. CASE PositionFound
  BY <1>0, <1>5 DEF PositionFound, NearbyIsLater
<1>6. CASE PositionMissing
  <2>1. alone => nearbys = {}
    BY <1>0, <1>6 DEF PositionMissing, OneAttempt
  <2> QED BY <1>6, <2>1 DEF PositionMissing, NearbyIsLater
<1>7. ASSUME NEW n \in nearbys, Nearby(n) PROVE NearbyIsLater'
  <2>1. CASE NearbyMissing(n)
    <3>1. alone => nearbys' = {}
      BY <1>0, <2>1 DEF NearbyMissing, NearbyReturns, OneAttempt
    <3> QED BY <2>1, <3>1 DEF NearbyMissing, NearbyReturns, NearbyIsLater
  <2>2. CASE ~NearbyMissing(n)
    BY <1>7, <1>b, <2>2
       DEF Nearby, NearbyLate, NearbyFound, NearbyReturns, ids
  <2> QED BY <2>1, <2>2
<1>8. ASSUME NEW r \in recents, Recent(r) PROVE NearbyIsLater'
  BY <1>8, <1>b DEF Recent, RecentLate, RecentFound, RecentFailed,
                    RecentFailedLate, RecentReturns, ids
<1>9. CASE UNCHANGED sectionVars
  BY <1>9, <1>b DEF sectionVars, ids
<1> QED
  BY <1>1, <1>2, <1>3, <1>4, <1>5, <1>6, <1>7, <1>8, <1>9
     DEF SectionNext, PermissionReturns, PositionReturns

(* Nearby listings stay until the next attempt has ended.                  *)
LEMMA SectionNear ==
  ASSUME SectionTypeOK, NothingAtFirst, NearbyIsLater, NearIsShown,
         [SectionNext]_sectionVars
  PROVE  NearIsShown'
<1>0. /\ nearbyId \in Nat /\ readyId \in 0 .. nearbyId
      /\ \A r \in recents : r.start \in 0 .. nearbyId
  BY QuestionsAreFound DEF SectionTypeOK
<1>a. ASSUME outcome' # "near" PROVE NearIsShown'
  BY <1>a DEF NearIsShown
<1>b. ASSUME recents' \subseteq recents, UNCHANGED <<list, readyId, outcome>>,
             alone' => alone
      PROVE  NearIsShown'
  BY <1>b DEF NearIsShown
<1>c. ASSUME Miss PROVE NearIsShown'
  BY <1>a, <1>c DEF Miss
<1>1. CASE MountSection
  BY <1>a, <1>1 DEF MountSection, NothingAtFirst
<1>2. CASE PermissionReturns
  BY <1>b, <1>c, <1>2
     DEF PermissionReturns, PermissionGranted, PermissionMissing, Locate, ids
<1>3. CASE UsePosition
  BY <1>b, <1>c, <1>3 DEF UsePosition, Locate, ids
<1>4. CASE PositionReturns
  BY <1>b, <1>c, <1>4 DEF PositionReturns, PositionFound, PositionMissing
<1>5. ASSUME NEW n \in nearbys, Nearby(n) PROVE NearIsShown'
  <2>1. CASE NearbyLate(n)
    BY <1>b, <2>1 DEF NearbyLate, NearbyReturns, shown, ids
  <2>2. CASE NearbyFound(n)
    BY <2>2 DEF NearbyFound, NearbyReturns, NearbyIsLater, NearIsShown
  <2>3. CASE NearbyMissing(n)
    BY <1>c, <2>3 DEF NearbyMissing
  <2> QED BY <1>5, <2>1, <2>2, <2>3 DEF Nearby
<1>6. ASSUME NEW r \in recents, Recent(r) PROVE NearIsShown'
  <2>1. /\ recents' \subseteq recents
        /\ UNCHANGED <<readyId, outcome, alone>>
    BY <1>6 DEF Recent, RecentLate, RecentFound, RecentFailed, RecentFailedLate,
                RecentReturns, ids
  <2>2. ASSUME r.start < readyId PROVE list' = list
    BY <1>0, <1>6, <2>2
       DEF Recent, RecentLate, RecentFound, RecentFailed, RecentFailedLate,
           TooLate, shown
  <2> QED BY <2>1, <2>2 DEF NearIsShown
<1>7. CASE UNCHANGED sectionVars
  BY <1>7, <1>b DEF sectionVars, shown, ids
<1> QED
  BY <1>1, <1>2, <1>3, <1>4, <1>5, <1>6, <1>7 DEF SectionNext

(* Recent listings are on their way once an attempt has ended without      *)
(* nearby ones.                                                            *)
LEMMA SectionRecent ==
  ASSUME SectionTypeOK, NothingAtFirst, OneOfEach, OneAttempt, RecentIsShown,
         [SectionNext]_sectionVars
  PROVE  RecentIsShown'
<1>0. /\ locating \in Nat /\ nearbyId \in Nat /\ readyId \in 0 .. nearbyId
  BY DEF SectionTypeOK
<1>a. ASSUME outcome' # "recent" \/ Attempting' PROVE RecentIsShown'
  BY <1>a DEF RecentIsShown
<1>b. ASSUME UNCHANGED <<recents, recentId, nearbyId, status, list, outcome>>,
             Attempting' = Attempting, alone' => alone
      PROVE  RecentIsShown'
  BY <1>b DEF RecentIsShown
<1>c. ASSUME Miss PROVE RecentIsShown'
  <2>1. UNCHANGED nearbyId /\ \E r \in recents' : r.id = recentId' /\ r.start = nearbyId
    BY <1>c, RecentAsked DEF Miss
  <2> QED BY <2>1 DEF RecentIsShown
<1>d. ASSUME Locate PROVE RecentIsShown'
  <2>1. locating' > 0
    BY <1>0, <1>d DEF Locate
  <2> QED BY <1>a, <2>1 DEF Attempting
<1>1. CASE MountSection
  BY <1>a, <1>1 DEF MountSection, NothingAtFirst
<1>2. CASE PermissionReturns
  BY <1>c, <1>d, <1>2 DEF PermissionReturns, PermissionGranted, PermissionMissing
<1>3. CASE UsePosition
  BY <1>c, <1>d, <1>3 DEF UsePosition
<1>4. CASE PositionFound
  BY <1>a, <1>4 DEF PositionFound, Attempting
<1>5. CASE PositionMissing
  BY <1>c, <1>5 DEF PositionMissing
<1>6. ASSUME NEW n \in nearbys, Nearby(n) PROVE RecentIsShown'
  <2>1. CASE NearbyLate(n)
    <3>1. ~alone
      BY <2>1 DEF NearbyLate, NearbyReturns, OneAttempt
    <3> QED BY <2>1, <3>1 DEF NearbyLate, NearbyReturns, RecentIsShown
  <2>2. CASE NearbyFound(n)
    BY <1>a, <2>2 DEF NearbyFound
  <2>3. CASE NearbyMissing(n)
    BY <1>c, <2>3 DEF NearbyMissing
  <2> QED BY <1>6, <2>1, <2>2, <2>3 DEF Nearby
<1>7. ASSUME NEW r \in recents, Recent(r) PROVE RecentIsShown'
  <2>1. /\ recents' = recents \ {r} /\ Attempting' = Attempting
        /\ UNCHANGED <<recentId, nearbyId, readyId, outcome, alone>>
    BY <1>7 DEF Recent, RecentLate, RecentFound, RecentFailed, RecentFailedLate,
                RecentReturns, ids, Attempting
  <2>2. CASE RecentLate(r)
    <3>1. ~(r.id = recentId /\ r.start = nearbyId)
      BY <1>0, <2>2 DEF RecentLate, TooLate
    <3> QED BY <2>1, <2>2, <3>1 DEF RecentLate, shown, RecentIsShown
  <2>3. CASE RecentFound(r)
    BY <2>3 DEF RecentFound, RecentIsShown
  <2>4. CASE RecentFailed(r)
    BY <2>4 DEF RecentFailed, RecentIsShown
  <2>5. CASE RecentFailedLate(r)
    BY <2>1, <2>5 DEF RecentFailedLate, shown, RecentIsShown
  <2> QED BY <1>7, <2>2, <2>3, <2>4, <2>5 DEF Recent
<1>8. CASE UNCHANGED sectionVars
  BY <1>8, <1>b DEF sectionVars, shown, ids, Attempting
<1> QED
  BY <1>1, <1>2, <1>3, <1>4, <1>5, <1>6, <1>7, <1>8
     DEF SectionNext, PermissionReturns, PositionReturns

-----------------------------------------------------------------------------
(* The invariant of the section, and what follows from it.                 *)

SectionInv ==
  /\ SectionTypeOK /\ NothingAtFirst /\ OneOfEach /\ SaysWhatItShows
  /\ OneAttempt /\ NearbyIsLater /\ NearIsShown /\ RecentIsShown

LEMMA SectionAlways == SectionSpec => []SectionInv
<1>1. SectionInit => SectionInv
  <2> SUFFICES ASSUME SectionInit PROVE SectionInv
    OBVIOUS
  <2>1. SectionTypeOK
    BY DEF SectionInit, SectionTypeOK, Statuses
  <2> QED BY <2>1 DEF SectionInit, SectionInv, NothingAtFirst, OneOfEach,
                      SaysWhatItShows, OneAttempt, NearbyIsLater, NearIsShown,
                      RecentIsShown, Attempting
<1>2. SectionInv /\ [SectionNext]_sectionVars => SectionInv'
  BY SectionTypes, SectionStarts, SectionQuestions, SectionSays,
     SectionAttempts, SectionLater, SectionNear, SectionRecent DEF SectionInv
<1> QED
  BY <1>1, <1>2, PTL DEF SectionSpec

(* The counters are ahead of every question that is out, for any number of *)
(* questions.                                                              *)
THEOREM SectionWellFormed == SectionSpec => []SectionTypeOK
<1>1. SectionInv => SectionTypeOK
  BY DEF SectionInv
<1> QED
  BY <1>1, SectionAlways, PTL

(* A section that has settled says what it shows, in whatever order the    *)
(* answers come.                                                           *)
THEOREM SectionIsHonest == SectionSpec => []SaysWhatItShows
<1>1. SectionInv => SaysWhatItShows
  BY DEF SectionInv
<1> QED
  BY <1>1, SectionAlways, PTL

(* When no question is out, the section shows what the last attempt came   *)
(* to, if attempts have not overlapped.                                    *)
THEOREM LastAttemptIsShown == SectionSpec => []LastAttemptShown
<1>1. SectionInv => LastAttemptShown
  BY DEF SectionInv, SectionTypeOK, NearIsShown, RecentIsShown, LastAttemptShown
<1> QED
  BY <1>1, SectionAlways, PTL
=============================================================================
