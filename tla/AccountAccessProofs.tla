------------------------ MODULE AccountAccessProofs ------------------------
(***************************************************************************)
(* Proofs about AccountAccess, for any number of calls.                    *)
(***************************************************************************)
EXTENDS AccountAccess, TLAPS

(* What call k does to its own row when it writes.                         *)
Writes(k) ==
  \/ AskResetWrite(k) \/ AskProofWrite(k)
  \/ ChangeWrite(k) \/ DeactivateWrite(k) \/ DeleteWrite(k)
  \/ ResetWrite(k) \/ VerifyWrite(k)

-----------------------------------------------------------------------------
LEMMA InitTypeOK == Init => TypeOK
<1> SUFFICES ASSUME Init PROVE TypeOK
  OBVIOUS
<1>1. NoCall \in Call
  BY DEF NoCall, Call, Step
<1>2. account \in Account /\ sessions \in [Calls -> Session]
  BY DEF Init, Account, Session, Status, SessionState
<1>3. /\ resets \in [Calls -> TokenState] /\ proofs \in [Calls -> TokenState]
      /\ calls \in [Calls -> Call] /\ overlapped \in BOOLEAN
  BY <1>1 DEF Init, TokenState
<1> QED
  BY <1>2, <1>3 DEF TypeOK

(* What a step can do to the user's row.                                   *)
AccountStep ==
  \/ account' = account
  \/ /\ account.status = "none"
     /\ \E k \in Calls :
          account' = [status |-> "pending_verification", password |-> k,
                      verified |-> FALSE]
  \/ Present /\ \E k \in Calls : account' = [account EXCEPT !.password = k]
  \/ Present /\ account' = [account EXCEPT !.status = "suspended"]
  \/ Present /\ account' = [status |-> "deleted", password |-> None,
                            verified |-> FALSE]
  \/ Present /\ account' = [account EXCEPT !.verified = TRUE,
                                           !.status = StatusOnceVerified(@)]

LEMMA NextAccountStep == [Next]_vars => AccountStep
<1> SUFFICES ASSUME [Next]_vars PROVE AccountStep
  OBVIOUS
<1>1. ASSUME NEW k \in Calls, Writes(k) PROVE AccountStep
  <2>1. CASE AskResetWrite(k) \/ AskProofWrite(k)
    BY <2>1 DEF AskResetWrite, AskProofWrite, AccountStep
  <2>2. CASE ChangeWrite(k)
    BY <2>2 DEF ChangeWrite, AccountStep
  <2>3. CASE DeactivateWrite(k)
    BY <2>3 DEF DeactivateWrite, AccountStep
  <2>4. CASE DeleteWrite(k)
    BY <2>4 DEF DeleteWrite, AccountStep
  <2>5. CASE ResetWrite(k)
    BY <2>5 DEF ResetWrite, AccountStep
  <2>6. CASE VerifyWrite(k)
    BY <2>6 DEF VerifyWrite, AccountStep
  <2> QED
    BY <1>1, <2>1, <2>2, <2>3, <2>4, <2>5, <2>6 DEF Writes
<1>2. ASSUME NEW k \in Calls, Register(k) PROVE AccountStep
  BY <1>2 DEF Register, AccountStep
<1>3. ASSUME NEW k \in Calls,
             \/ LoginRead(k) \/ LoginWrite(k) \/ Logout(k) \/ AskReset(k)
             \/ \E op \in Operation : AskWithSession(k, op)
             \/ \E t \in Calls : ResetRead(k, t) \/ VerifyRead(k, t)
             \/ Begin(k) \/ Refuse(k) \/ Expire(k)
      PROVE  AccountStep
  <2>1. account' = account
    BY <1>3 DEF LoginRead, LoginWrite, Logout, AskReset, AskWithSession, ResetRead,
                VerifyRead, Begin, Refuse, Expire
  <2> QED
    BY <2>1 DEF AccountStep
<1>4. CASE UNCHANGED vars
  BY <1>4 DEF vars, AccountStep
<1> QED
  BY <1>1, <1>2, <1>3, <1>4 DEF Next, Writes

LEMMA AccountStepType ==
  ASSUME account \in Account, AccountStep
  PROVE  account' \in Account
<1>1. /\ StatusOnceVerified(account.status) \in Status
      /\ {"pending_verification", "suspended", "deleted"} \subseteq Status
  BY DEF StatusOnceVerified, Account, Status
<1>2. ASSUME NEW v \in Status, NEW p \in Calls \cup {None}, NEW b \in BOOLEAN
      PROVE  [status |-> v, password |-> p, verified |-> b] \in Account
  BY DEF Account
<1>3. /\ \A v \in Status : [account EXCEPT !.status = v] \in Account
      /\ \A p \in Calls : [account EXCEPT !.password = p] \in Account
      /\ \A v \in Status : [account EXCEPT !.verified = TRUE, !.status = v] \in Account
  BY DEF Account
<1> QED
  BY <1>1, <1>2, <1>3 DEF AccountStep

LEMMA MoveType ==
  ASSUME TypeOK, NEW k \in Calls, NEW local \in Call, Move(k, local)
  PROVE  calls' \in [Calls -> Call] /\ overlapped' \in BOOLEAN
<1>1. calls' \in [Calls -> Call]
  BY DEF Move, TypeOK
<1>2. overlapped' \in BOOLEAN
  BY DEF Move
<1> QED
  BY <1>1, <1>2

LEMMA FinishType ==
  ASSUME TypeOK, NEW k \in Calls, NEW ok \in BOOLEAN, Finish(k, ok)
  PROVE  calls' \in [Calls -> Call] /\ overlapped' \in BOOLEAN
<1>1. calls[k] \in Call
  BY DEF TypeOK
<1>2. [calls[k] EXCEPT !.at = "done", !.ok = ok, !.seen = {}] \in Call
  BY <1>1 DEF Call, Step
<1> QED
  BY <1>2, MoveType DEF Finish

LEMMA FinishRow ==
  ASSUME TypeOK, NEW k \in Calls, NEW ok \in BOOLEAN, Finish(k, ok)
  PROVE  /\ calls'[k].at = "done" /\ calls'[k].op = calls[k].op
         /\ calls'[k].token = calls[k].token /\ calls'[k].seen = {}
         /\ calls'[k].ok = ok
         /\ \A j \in Calls \ {k} : calls'[j] = calls[j]
<1>1. calls \in [Calls -> Call] /\ calls[k] \in Call
  BY DEF TypeOK
<1> QED
  BY <1>1 DEF Finish, Move, Call

LEMMA HelperTypes ==
  ASSUME TypeOK
  PROVE  /\ \A S \in SUBSET Calls : Revoke(S) \in [Calls -> Session]
         /\ \A S : Spend(resets, S) \in [Calls -> TokenState]
         /\ \A S : Spend(proofs, S) \in [Calls -> TokenState]
         /\ \A k \in Calls, p \in Calls \cup {None} : Open(k, p) \in Session
         /\ Present \in BOOLEAN
         /\ Active \in SUBSET Calls
         /\ Live(resets) \in SUBSET Calls /\ Live(proofs) \in SUBSET Calls
<1>1. \A S \in SUBSET Calls : Revoke(S) \in [Calls -> Session]
  BY DEF TypeOK, Revoke, Session, SessionState
<1>2. /\ \A S : Spend(resets, S) \in [Calls -> TokenState]
      /\ \A S : Spend(proofs, S) \in [Calls -> TokenState]
  BY DEF TypeOK, Spend, TokenState
<1>3. \A k \in Calls, p \in Calls \cup {None} : Open(k, p) \in Session
  BY DEF Open, Session, SessionState
<1>4. Present \in BOOLEAN
  BY DEF Present
<1>5. /\ Active \in SUBSET Calls
      /\ Live(resets) \in SUBSET Calls /\ Live(proofs) \in SUBSET Calls
  BY DEF Active, Live
<1> QED
  BY <1>1, <1>2, <1>3, <1>4, <1>5

LEMMA NextTypeOK == TypeOK /\ [Next]_vars => TypeOK'
<1> SUFFICES ASSUME TypeOK, [Next]_vars PROVE TypeOK'
  OBVIOUS
<1>1. CASE UNCHANGED vars
  BY <1>1 DEF TypeOK, vars
<1>2. ASSUME NEW k \in Calls, Register(k) PROVE TypeOK'
  <2>1. [NoCall EXCEPT !.at = "read", !.op = "ask_proof"] \in Call
    BY DEF NoCall, Call, Step, Operation
  <2>2. calls' \in [Calls -> Call] /\ overlapped' \in BOOLEAN
    BY <1>2, <2>1, MoveType DEF Register
  <2>3. account' \in Account /\ sessions' \in [Calls -> Session]
    BY <1>2, HelperTypes DEF Register, Account, Status, TypeOK
  <2> QED
    BY <1>2, <2>2, <2>3 DEF TypeOK, Register
<1>3. ASSUME NEW k \in Calls, LoginRead(k) PROVE TypeOK'
  <2>1. account.password \in Calls \cup {None}
    BY DEF TypeOK, Account
  <2>2. [NoCall EXCEPT !.at = "writing", !.op = "login",
                       !.token = account.password] \in Call
    BY <2>1 DEF NoCall, Call, Step, Operation
  <2>3. calls' \in [Calls -> Call] /\ overlapped' \in BOOLEAN
    BY <1>3, <2>2, MoveType DEF LoginRead
  <2> QED
    BY <1>3, <2>3 DEF TypeOK, LoginRead
<1>4. ASSUME NEW k \in Calls, LoginWrite(k) PROVE TypeOK'
  <2>1. calls' \in [Calls -> Call] /\ overlapped' \in BOOLEAN
    BY <1>4, FinishType DEF LoginWrite
  <2>2. calls[k].token \in Calls \cup {None}
    BY DEF TypeOK, Call
  <2>3. sessions' \in [Calls -> Session]
    BY <1>4, <2>2, HelperTypes DEF LoginWrite, TypeOK
  <2> QED
    BY <1>4, <2>1, <2>3 DEF TypeOK, LoginWrite
<1>5. ASSUME NEW k \in Calls, Logout(k) PROVE TypeOK'
  <2>1. sessions' \in [Calls -> Session]
    BY <1>5 DEF Logout, TypeOK, Session, SessionState
  <2> QED
    BY <1>5, <2>1 DEF Logout, TypeOK
<1>6. ASSUME NEW k \in Calls, NEW op \in Operation, AskWithSession(k, op)
      PROVE  TypeOK'
  <2>1. [NoCall EXCEPT !.at = "read", !.op = op] \in Call
    BY DEF NoCall, Call, Step
  <2>2. calls' \in [Calls -> Call] /\ overlapped' \in BOOLEAN
    BY <1>6, <2>1, MoveType DEF AskWithSession
  <2> QED
    BY <1>6, <2>2 DEF TypeOK, AskWithSession
<1>7. ASSUME NEW k \in Calls, AskReset(k) PROVE TypeOK'
  <2>1. [NoCall EXCEPT !.at = "read", !.op = "ask_reset"] \in Call
    BY DEF NoCall, Call, Step, Operation
  <2>2. calls' \in [Calls -> Call] /\ overlapped' \in BOOLEAN
    BY <1>7, <2>1, MoveType DEF AskReset
  <2> QED
    BY <1>7, <2>2 DEF TypeOK, AskReset
<1>8. ASSUME NEW k \in Calls, NEW t \in Calls, ResetRead(k, t) \/ VerifyRead(k, t)
      PROVE  TypeOK'
  <2>1. /\ [NoCall EXCEPT !.at = "read", !.op = "reset", !.token = t] \in Call
        /\ [NoCall EXCEPT !.at = "writing", !.op = "verify", !.token = t] \in Call
    BY DEF NoCall, Call, Step, Operation
  <2>2. calls' \in [Calls -> Call] /\ overlapped' \in BOOLEAN
    BY <1>8, <2>1, MoveType DEF ResetRead, VerifyRead
  <2> QED
    BY <1>8, <2>2 DEF TypeOK, ResetRead, VerifyRead
<1>9. ASSUME NEW k \in Calls, Begin(k) PROVE TypeOK'
  <2> DEFINE op == calls[k].op
             seen == CASE op = "ask_reset" -> Live(resets)
                       [] op = "ask_proof" -> Live(proofs)
                       [] OTHER -> Active
             token == IF op = "ask_proof" /\ ~account.verified
                        THEN k ELSE calls[k].token
  <2>1. seen \in SUBSET Calls
    BY HelperTypes
  <2>2. token \in Calls \cup {None}
    BY DEF TypeOK, Call
  <2> HIDE DEF seen, token
  <2>3. [calls[k] EXCEPT !.at = "writing", !.seen = seen, !.token = token] \in Call
    <3>1. calls[k] \in Call
      BY DEF TypeOK
    <3> QED
      BY <2>1, <2>2, <3>1 DEF Call, Step
  <2>4. Move(k, [calls[k] EXCEPT !.at = "writing", !.seen = seen, !.token = token])
    BY <1>9 DEF Begin, seen, token
  <2>5. calls' \in [Calls -> Call] /\ overlapped' \in BOOLEAN
    BY <2>3, <2>4, MoveType
  <2> QED
    BY <1>9, <2>5 DEF TypeOK, Begin
<1>10. ASSUME NEW k \in Calls, Refuse(k) PROVE TypeOK'
  BY <1>10, FinishType DEF TypeOK, Refuse
<1>11. ASSUME NEW k \in Calls, Writes(k) PROVE TypeOK'
  <2>1. \E ok \in BOOLEAN : Finish(k, ok)
    <3>1. Present \in BOOLEAN /\ (IsLive(resets, calls[k].token) /\ Present) \in BOOLEAN
      BY DEF Present
    <3>2. CASE AskResetWrite(k) \/ AskProofWrite(k)
      BY <3>2 DEF AskResetWrite, AskProofWrite
    <3>3. CASE ChangeWrite(k)
      BY <3>1, <3>3 DEF ChangeWrite
    <3>4. CASE DeactivateWrite(k)
      BY <3>1, <3>4 DEF DeactivateWrite
    <3>5. CASE DeleteWrite(k)
      BY <3>1, <3>5 DEF DeleteWrite
    <3>6. CASE ResetWrite(k)
      BY <3>1, <3>6 DEF ResetWrite
    <3>7. CASE VerifyWrite(k)
      BY <3>1, <3>7 DEF VerifyWrite
    <3> QED
      BY <1>11, <3>2, <3>3, <3>4, <3>5, <3>6, <3>7 DEF Writes
  <2>2. calls' \in [Calls -> Call] /\ overlapped' \in BOOLEAN
    BY <2>1, FinishType
  <2>3. sessions' \in [Calls -> Session]
    <3>1. calls[k].seen \in SUBSET Calls
      BY DEF TypeOK, Call
    <3>2. sessions \in [Calls -> Session] /\ Revoke(calls[k].seen) \in [Calls -> Session]
      BY <3>1, HelperTypes DEF TypeOK
    <3>3. [Revoke(calls[k].seen) EXCEPT ![k] = Open(k, k)] \in [Calls -> Session]
      BY <3>2, HelperTypes
    <3>4. \/ sessions' = sessions \/ sessions' = Revoke(calls[k].seen)
          \/ sessions' = [Revoke(calls[k].seen) EXCEPT ![k] = Open(k, k)]
      <4>1. CASE AskResetWrite(k) \/ AskProofWrite(k) \/ VerifyWrite(k)
        BY <4>1 DEF AskResetWrite, AskProofWrite, VerifyWrite
      <4>2. CASE ChangeWrite(k)
        BY <4>2 DEF ChangeWrite
      <4>3. CASE DeactivateWrite(k) \/ DeleteWrite(k)
        BY <4>3 DEF DeactivateWrite, DeleteWrite
      <4>4. CASE ResetWrite(k)
        BY <4>4 DEF ResetWrite
      <4> QED
        BY <1>11, <4>1, <4>2, <4>3, <4>4 DEF Writes
    <3> QED
      BY <3>2, <3>3, <3>4
  <2>4. resets' \in [Calls -> TokenState] /\ proofs' \in [Calls -> TokenState]
    <3>1. resets \in [Calls -> TokenState] /\ proofs \in [Calls -> TokenState]
      BY DEF TypeOK
    <3>2. CASE AskResetWrite(k)
      BY <3>1, <3>2, HelperTypes DEF AskResetWrite, TokenState
    <3>3. CASE AskProofWrite(k)
      BY <3>1, <3>3, HelperTypes DEF AskProofWrite, TokenState
    <3>4. CASE ChangeWrite(k) \/ DeactivateWrite(k) \/ DeleteWrite(k)
      BY <3>1, <3>4 DEF ChangeWrite, DeactivateWrite, DeleteWrite
    <3>5. CASE ResetWrite(k)
      BY <3>1, <3>5, HelperTypes DEF ResetWrite
    <3>6. CASE VerifyWrite(k)
      BY <3>1, <3>6, HelperTypes DEF VerifyWrite
    <3> QED
      BY <1>11, <3>2, <3>3, <3>4, <3>5, <3>6 DEF Writes
  <2>5. account' \in Account
    BY NextAccountStep, AccountStepType DEF TypeOK
  <2> QED
    BY <2>2, <2>3, <2>4, <2>5 DEF TypeOK
<1>12. ASSUME NEW k \in Calls, Expire(k) PROVE TypeOK'
  BY <1>12, HelperTypes DEF Expire, TypeOK
<1> QED
  BY <1>1, <1>2, <1>3, <1>4, <1>5, <1>6, <1>7, <1>8, <1>9, <1>10, <1>11, <1>12
     DEF Next, Writes

(* In every behaviour the rows of the account and the local state of the   *)
(* calls of AuthService and UsersService are well formed.                  *)
THEOREM TypeCorrect == Spec => []TypeOK
BY InitTypeOK, NextTypeOK, PTL DEF Spec

-----------------------------------------------------------------------------
(* The user's row, column by column: every write looks at deleted_at under *)
(* the row's lock.                                                         *)
LEMMA AccountStepColumns ==
  ASSUME account \in Account, AccountStep
  PROVE  \/ account' = account
         \/ /\ account.status = "none" /\ account'.status = "pending_verification"
            /\ account'.password \in Calls
         \/ /\ Present /\ account'.status = account.status
            /\ account'.password \in Calls
         \/ /\ Present /\ account'.status = "suspended"
            /\ account'.password = account.password
         \/ /\ Present /\ account'.status = "deleted"
            /\ account'.password = None /\ ~account'.verified
         \/ /\ Present /\ account'.password = account.password
            /\ \/ account'.status = account.status
               \/ /\ account.status = "pending_verification"
                  /\ account'.status = "active"
<1>1. \A k \in Calls :
        account' = [account EXCEPT !.password = k] =>
          account'.status = account.status /\ account'.password = k
  BY DEF Account
<1>2. account' = [account EXCEPT !.status = "suspended"] =>
        account'.status = "suspended" /\ account'.password = account.password
  BY DEF Account
<1>3. account' = [account EXCEPT !.verified = TRUE,
                                 !.status = StatusOnceVerified(@)] =>
        /\ account'.status = StatusOnceVerified(account.status)
        /\ account'.password = account.password
  BY DEF Account
<1>4. \/ StatusOnceVerified(account.status) = account.status
      \/ /\ account.status = "pending_verification"
         /\ StatusOnceVerified(account.status) = "active"
  BY DEF StatusOnceVerified
<1> QED
  BY <1>1, <1>2, <1>3, <1>4 DEF AccountStep

LEMMA NextErased == TypeOK /\ DeletedIsErased /\ [Next]_vars => DeletedIsErased'
<1> SUFFICES ASSUME TypeOK, DeletedIsErased, AccountStep PROVE DeletedIsErased'
  BY NextAccountStep
<1>1. account \in Account
  BY DEF TypeOK
<1>2. account'.status = "deleted" => account'.password = None /\ ~account'.verified
  BY <1>1, AccountStepColumns DEF DeletedIsErased, Present
<1>3. account'.status \in {"pending_verification", "active", "suspended"} =>
        account'.password # None
  <2>1. Present => account.password # None
    BY <1>1 DEF DeletedIsErased, Account, Present, Status
  <2> QED
    BY <1>1, <2>1, AccountStepColumns, NoneAssumption DEF DeletedIsErased
<1> QED
  BY <1>2, <1>3 DEF DeletedIsErased

(* A deleted account keeps no password and no verified address, whatever   *)
(* call was under way when it was deleted; one that is not deleted keeps   *)
(* its password.                                                           *)
THEOREM DeletionErases == Spec => []DeletedIsErased
<1>1. Init => DeletedIsErased
  BY DEF Init, DeletedIsErased
<1> QED
  BY <1>1, TypeCorrect, NextErased, PTL DEF Spec

(* The status of an account only moves forward: no email verification      *)
(* undoes a deactivation, and nothing undoes a deletion.                   *)
THEOREM StatusOnlyForward == Spec => StatusMovesForward
<1>1. ASSUME TypeOK, [Next]_vars
      PROVE  \/ account'.status = account.status
             \/ <<account.status, account'.status>> \in
                  {<<"none", "pending_verification">>,
                   <<"pending_verification", "active">>}
             \/ /\ account'.status \in {"suspended", "deleted"}
                /\ account.status \notin {"none", "deleted"}
  <2>1. account \in Account /\ AccountStep
    BY <1>1, NextAccountStep DEF TypeOK
  <2> QED
    BY <2>1, AccountStepColumns DEF Present
<1> QED
  BY <1>1, TypeCorrect, PTL DEF Spec, StatusMovesForward

-----------------------------------------------------------------------------
(***************************************************************************)
(* Reset tokens.  A token exists once the call that asked for it has been  *)
(* answered; a reset that succeeded has spent the token it was sent; the   *)
(* tokens a call is about to replace exist.                                *)
(***************************************************************************)
TokensSpent ==
  /\ \A k \in Calls : resets[k] # "none" =>
                        calls[k].op = "ask_reset" /\ calls[k].at = "done"
  /\ \A k \in Calls : calls[k].op = "reset" => calls[k].token \in Calls
  /\ \A k \in Calls : calls[k].ok => calls[k].at = "done"
  /\ \A k \in Calls : calls[k].op = "reset" /\ calls[k].ok =>
                        resets[calls[k].token] = "spent"
  /\ \A k \in Calls : calls[k].op = "ask_reset" =>
                        \A t \in calls[k].seen : resets[t] # "none"

TInv == TypeOK /\ TokensSpent /\ ResetOnce

(* A call has begun or gone on, and no token is touched.                   *)
LEMMA GoesOn ==
  ASSUME TInv, NEW k \in Calls, NEW local \in Call,
         calls' = [calls EXCEPT ![k] = local], resets' = resets,
         calls[k].at # "done", ~local.ok,
         local.op = "reset" => local.token \in Calls,
         local.op = "ask_reset" => \A t \in local.seen : resets[t] # "none"
  PROVE  TokensSpent' /\ ResetOnce'
<1>1. /\ calls'[k] = local
      /\ \A j \in Calls \ {k} : calls'[j] = calls[j]
  BY DEF TInv, TypeOK
<1>2. resets[k] = "none"
  BY DEF TInv, TokensSpent
<1>3. TokensSpent'
  BY <1>1, <1>2 DEF TInv, TokensSpent
<1>4. ResetOnce'
  BY <1>1 DEF TInv, ResetOnce
<1> QED
  BY <1>3, <1>4

(* A call begins.                                                          *)
LEMMA Starts ==
  ASSUME TInv, NEW k \in Calls, NEW local \in Call, Move(k, local),
         calls[k].at = "idle", resets' = resets, ~local.ok, local.seen = {},
         local.op = "reset" => local.token \in Calls
  PROVE  TokensSpent' /\ ResetOnce'
<1>1. calls' = [calls EXCEPT ![k] = local]
  BY DEF Move
<1> QED
  BY <1>1, GoesOn

(* A call has been answered that was not a reset; tokens other than the    *)
(* one it created are as before, or spent.                                 *)
LEMMA Answered ==
  ASSUME TInv, NEW k \in Calls, NEW ok \in BOOLEAN, Finish(k, ok),
         calls[k].at # "done", calls[k].op # "reset",
         \A t \in Calls \ {k} : resets'[t] \in {resets[t], "spent"},
         \A t \in Calls \ {k} : resets[t] = "none" => resets'[t] = "none",
         calls[k].op # "ask_reset" => resets'[k] = resets[k]
  PROVE  TokensSpent' /\ ResetOnce'
<1>1. /\ calls'[k].at = "done" /\ calls'[k].op = calls[k].op
      /\ calls'[k].seen = {}
      /\ \A j \in Calls \ {k} : calls'[j] = calls[j]
  BY FinishRow DEF TInv
<1>2. /\ resets[k] = "none"
      /\ \A j \in Calls : calls[j].seen \in SUBSET Calls
  BY DEF TInv, TokensSpent, TypeOK, Call
<1>3. \A j \in Calls : calls[j].op = "reset" /\ calls[j].ok => calls[j].token # k
  BY <1>2 DEF TInv, TokensSpent
<1>4. TokensSpent'
  BY <1>1, <1>2, <1>3 DEF TInv, TokensSpent
<1>5. ResetOnce'
  BY <1>1 DEF TInv, ResetOnce
<1> QED
  BY <1>4, <1>5

(* Tokens expire, and no call is touched.                                  *)
SameOrSpent ==
  \A t \in Calls :
    \/ resets'[t] = resets[t]
    \/ resets[t] = "live" /\ resets'[t] = "spent"

LEMMA TokensExpire ==
  TInv /\ UNCHANGED calls /\ SameOrSpent => TokensSpent' /\ ResetOnce'
<1> SUFFICES ASSUME TInv, calls' = calls, SameOrSpent
             PROVE  TokensSpent' /\ ResetOnce'
  OBVIOUS
<1>1. \A j \in Calls : calls[j].seen \in SUBSET Calls
  BY DEF TInv, TypeOK, Call
<1>2. TokensSpent'
  BY <1>1 DEF TInv, TokensSpent, SameOrSpent
<1>3. ResetOnce'
  BY DEF TInv, ResetOnce
<1> QED
  BY <1>2, <1>3

LEMMA ResetSpends ==
  ASSUME TInv, NEW k \in Calls, ResetWrite(k)
  PROVE  TokensSpent' /\ ResetOnce'
<1> DEFINE t == calls[k].token
           holds == IsLive(resets, t) /\ Present
<1>1. /\ calls[k].at = "writing" /\ calls[k].op = "reset" /\ t \in Calls
      /\ Finish(k, holds) /\ holds \in BOOLEAN
      /\ resets' = IF IsLive(resets, t) THEN Spend(resets, {t}) ELSE resets
  BY DEF ResetWrite, TInv, TokensSpent, Present
<1>2. \A u \in Calls : /\ resets'[u] \in {resets[u], "spent"}
                       /\ resets[u] = "none" => resets'[u] = "none"
  BY <1>1 DEF TInv, TypeOK, Spend, IsLive
<1>3. holds => resets[t] = "live" /\ resets'[t] = "spent"
  BY <1>1 DEF TInv, TypeOK, Spend, IsLive
<1> HIDE DEF holds
<1>4. /\ calls'[k].at = "done" /\ calls'[k].op = "reset" /\ calls'[k].token = t
      /\ calls'[k].ok => holds
      /\ calls'[k].seen = {}
      /\ \A j \in Calls \ {k} : calls'[j] = calls[j]
  BY <1>1, FinishRow DEF TInv
<1> HIDE DEF t
<1>5. TokensSpent'
  <2>1. \A j \in Calls : calls[j].seen \in SUBSET Calls
    BY DEF TInv, TypeOK, Call
  <2>2. /\ \A j \in Calls : resets'[j] # "none" =>
                            calls'[j].op = "ask_reset" /\ calls'[j].at = "done"
        /\ \A j \in Calls : calls'[j].op = "reset" => calls'[j].token \in Calls
        /\ \A j \in Calls : calls'[j].ok => calls'[j].at = "done"
    <3>1. resets[k] = "none"
      BY <1>1 DEF TInv, TokensSpent
    <3>2. \A j \in Calls : resets'[j] # "none" =>
                           calls'[j].op = "ask_reset" /\ calls'[j].at = "done"
      BY <1>2, <1>4, <3>1 DEF TInv, TokensSpent
    <3>3. \A j \in Calls : calls'[j].op = "reset" => calls'[j].token \in Calls
      BY <1>1, <1>4 DEF TInv, TokensSpent
    <3>4. \A j \in Calls : calls'[j].ok => calls'[j].at = "done"
      BY <1>4 DEF TInv, TokensSpent
    <3> QED
      BY <3>2, <3>3, <3>4
  <2>3. ASSUME NEW j \in Calls, calls'[j].op = "reset", calls'[j].ok
        PROVE  resets'[calls'[j].token] = "spent"
    <3>1. CASE j = k
      BY <1>3, <1>4, <2>3, <3>1
    <3>2. CASE j # k
      <4>1. calls[j].token \in Calls /\ resets[calls[j].token] = "spent"
        BY <1>4, <2>3, <3>2 DEF TInv, TokensSpent
      <4> QED
        BY <1>2, <1>4, <3>2, <4>1
    <3> QED
      BY <3>1, <3>2
  <2>4. \A j \in Calls : calls'[j].op = "ask_reset" =>
                         \A u \in calls'[j].seen : resets'[u] # "none"
    BY <1>2, <1>4, <2>1 DEF TInv, TokensSpent
  <2> QED
    BY <2>2, <2>3, <2>4 DEF TokensSpent
<1>6. \A j \in Calls \ {k} : calls[j].op = "reset" /\ calls[j].ok /\ holds =>
        calls[j].token # t
  BY <1>3 DEF TInv, TokensSpent
<1>7. ResetOnce'
  BY <1>4, <1>6 DEF TInv, ResetOnce
<1> QED
  BY <1>5, <1>7

LEMMA NextTokens == TInv /\ [Next]_vars => TokensSpent' /\ ResetOnce'
<1> SUFFICES ASSUME TInv, [Next]_vars PROVE TokensSpent' /\ ResetOnce'
  OBVIOUS
<1>1. CASE UNCHANGED vars
  <2>1. UNCHANGED calls /\ SameOrSpent
    BY <1>1 DEF vars, SameOrSpent
  <2> QED
    BY <2>1, TokensExpire
<1>2. ASSUME NEW k \in Calls, Logout(k) PROVE TokensSpent' /\ ResetOnce'
  <2>1. UNCHANGED calls /\ SameOrSpent
    BY <1>2 DEF Logout, SameOrSpent
  <2> QED
    BY <2>1, TokensExpire
<1>3. ASSUME NEW k \in Calls, Expire(k) PROVE TokensSpent' /\ ResetOnce'
  <2>1. UNCHANGED calls
    BY <1>3 DEF Expire
  <2>2. SameOrSpent
    BY <1>3 DEF Expire, Live, Spend, TInv, TypeOK, SameOrSpent
  <2> QED
    BY <2>1, <2>2, TokensExpire
<1>4. ASSUME NEW k \in Calls,
             \/ Register(k) \/ LoginRead(k) \/ AskReset(k)
             \/ \E op \in Operation : AskWithSession(k, op)
             \/ \E t \in Calls : ResetRead(k, t) \/ VerifyRead(k, t)
      PROVE  TokensSpent' /\ ResetOnce'
  <2>1. CASE Register(k)
    <3> DEFINE local == [NoCall EXCEPT !.at = "read", !.op = "ask_proof"]
    <3>1. /\ local \in Call /\ ~local.ok /\ local.seen = {}
          /\ local.op = "reset" => local.token \in Calls
      BY DEF NoCall, Call, Step, Operation
    <3>2. Move(k, local) /\ calls[k].at = "idle" /\ resets' = resets
      BY <2>1 DEF Register
    <3> HIDE DEF local
    <3> QED
      BY <3>1, <3>2, Starts
  <2>2. CASE LoginRead(k)
    <3> DEFINE local == [NoCall EXCEPT !.at = "writing", !.op = "login",
                                   !.token = account.password]
    <3>1. /\ local \in Call /\ ~local.ok /\ local.seen = {}
          /\ local.op = "reset" => local.token \in Calls
      BY DEF NoCall, Call, Step, Operation, TInv, TypeOK, Account
    <3>2. Move(k, local) /\ calls[k].at = "idle" /\ resets' = resets
      BY <2>2 DEF LoginRead
    <3> HIDE DEF local
    <3> QED
      BY <3>1, <3>2, Starts
  <2>3. CASE AskReset(k)
    <3> DEFINE local == [NoCall EXCEPT !.at = "read", !.op = "ask_reset"]
    <3>1. /\ local \in Call /\ ~local.ok /\ local.seen = {}
          /\ local.op = "reset" => local.token \in Calls
      BY DEF NoCall, Call, Step, Operation
    <3>2. Move(k, local) /\ calls[k].at = "idle" /\ resets' = resets
      BY <2>3 DEF AskReset
    <3> HIDE DEF local
    <3> QED
      BY <3>1, <3>2, Starts
  <2>4. ASSUME NEW op \in Operation, AskWithSession(k, op)
        PROVE  TokensSpent' /\ ResetOnce'
    <3> DEFINE local == [NoCall EXCEPT !.at = "read", !.op = op]
    <3>1. /\ local \in Call /\ ~local.ok /\ local.seen = {}
          /\ local.op = "reset" => local.token \in Calls
      BY <2>4 DEF NoCall, Call, Step, Operation, AskWithSession
    <3>2. Move(k, local) /\ calls[k].at = "idle" /\ resets' = resets
      BY <2>4 DEF AskWithSession
    <3> HIDE DEF local
    <3> QED
      BY <3>1, <3>2, Starts
  <2>5. ASSUME NEW t \in Calls, ResetRead(k, t)
        PROVE  TokensSpent' /\ ResetOnce'
    <3> DEFINE local == [NoCall EXCEPT !.at = "read", !.op = "reset", !.token = t]
    <3>1. /\ local \in Call /\ ~local.ok /\ local.seen = {}
          /\ local.op = "reset" => local.token \in Calls
      BY DEF NoCall, Call, Step, Operation
    <3>2. Move(k, local) /\ calls[k].at = "idle" /\ resets' = resets
      BY <2>5 DEF ResetRead
    <3> HIDE DEF local
    <3> QED
      BY <3>1, <3>2, Starts
  <2>6. ASSUME NEW t \in Calls, VerifyRead(k, t)
        PROVE  TokensSpent' /\ ResetOnce'
    <3> DEFINE local == [NoCall EXCEPT !.at = "writing", !.op = "verify", !.token = t]
    <3>1. /\ local \in Call /\ ~local.ok /\ local.seen = {}
          /\ local.op = "reset" => local.token \in Calls
      BY DEF NoCall, Call, Step, Operation
    <3>2. Move(k, local) /\ calls[k].at = "idle" /\ resets' = resets
      BY <2>6 DEF VerifyRead
    <3> HIDE DEF local
    <3> QED
      BY <3>1, <3>2, Starts
  <2> QED
    BY <1>4, <2>1, <2>2, <2>3, <2>4, <2>5, <2>6
<1>5. ASSUME NEW k \in Calls, Begin(k) PROVE TokensSpent' /\ ResetOnce'
  <2>1. /\ calls'[k] \in Call /\ calls' = [calls EXCEPT ![k] = calls'[k]]
        /\ calls[k].at = "read" /\ resets' = resets
        /\ calls'[k].op = calls[k].op /\ calls'[k].ok = calls[k].ok
        /\ calls[k].op = "reset" => calls'[k].token = calls[k].token
        /\ calls[k].op = "ask_reset" => calls'[k].seen = Live(resets)
    <3>1. calls' \in [Calls -> Call] /\ calls \in [Calls -> Call]
      BY NextTypeOK DEF TInv, TypeOK
    <3> QED
      BY <1>5, <3>1 DEF Begin, Move, Call
  <2>2. ~calls[k].ok
    BY <2>1 DEF TInv, TokensSpent
  <2>3. /\ calls'[k].op = "reset" => calls'[k].token \in Calls
        /\ calls'[k].op = "ask_reset" => \A t \in calls'[k].seen : resets[t] # "none"
    BY <2>1 DEF TInv, TokensSpent, Live
  <2> QED
    BY <2>1, <2>2, <2>3, GoesOn
<1>6. ASSUME NEW k \in Calls, LoginWrite(k) \/ Refuse(k)
      PROVE  TokensSpent' /\ ResetOnce'
  <2>1. /\ resets' = resets /\ calls[k].op # "reset" /\ calls[k].at # "done"
        /\ Finish(k, TRUE) \/ Finish(k, FALSE)
    BY <1>6 DEF LoginWrite, Refuse
  <2> QED
    BY <2>1, Answered
<1>7. ASSUME NEW k \in Calls, AskResetWrite(k) PROVE TokensSpent' /\ ResetOnce'
  <2>1. /\ calls[k].op = "ask_reset" /\ calls[k].at # "done" /\ Finish(k, TRUE)
        /\ \A t \in Calls \ {k} : resets'[t] \in {resets[t], "spent"}
    BY <1>7 DEF AskResetWrite, TInv, TypeOK, Spend
  <2>2. \A t \in Calls \ {k} : resets[t] = "none" => resets'[t] = "none"
    BY <1>7, <2>1 DEF AskResetWrite, TInv, TypeOK, Spend, TokensSpent
  <2> QED
    BY <2>1, <2>2, Answered
<1>8. ASSUME NEW k \in Calls,
             \/ AskProofWrite(k) \/ ChangeWrite(k) \/ DeactivateWrite(k)
             \/ DeleteWrite(k) \/ VerifyWrite(k)
      PROVE  TokensSpent' /\ ResetOnce'
  <2>1. /\ resets' = resets /\ calls[k].op \notin {"reset", "ask_reset"}
        /\ calls[k].at # "done"
    BY <1>8 DEF AskProofWrite, ChangeWrite, DeactivateWrite, DeleteWrite, VerifyWrite
  <2>2. Finish(k, TRUE) \/ Finish(k, Present)
    BY <1>8 DEF AskProofWrite, ChangeWrite, DeactivateWrite, DeleteWrite, VerifyWrite
  <2>3. Present \in BOOLEAN
    BY DEF Present
  <2> QED
    BY <2>1, <2>2, <2>3, Answered
<1> QED
  BY <1>1, <1>2, <1>3, <1>4, <1>5, <1>6, <1>7, <1>8, ResetSpends DEF Next

(* A reset token resets the password at most once, however often and at    *)
(* the same time as what else it is sent.                                  *)
THEOREM TokensResetOnce == Spec => []ResetOnce
<1>1. Init => TInv
  <2>1. Init => TokensSpent /\ ResetOnce
    BY DEF Init, TokensSpent, ResetOnce, NoCall
  <2> QED
    BY <2>1, InitTypeOK DEF TInv
<1>2. TInv /\ [Next]_vars => TInv'
  BY NextTypeOK, NextTokens DEF TInv
<1>3. TInv => ResetOnce
  BY DEF TInv
<1> QED
  BY <1>1, <1>2, <1>3, PTL DEF Spec

-----------------------------------------------------------------------------
(***************************************************************************)
(* Sessions and the password, as long as calls do not overlap: a call that *)
(* is about to revoke sessions holds all that are active, one that is      *)
(* about to open one verified the present password.                        *)
(***************************************************************************)
Revoking == {"change", "deactivate", "delete", "reset"}

LoginsHaveAccount ==
  /\ account.status = "none" => Active = {} /\ \A k \in Calls : calls[k].op # "login"
  /\ \A k \in Calls : calls[k].op = "login" => calls[k].at # "read"

CallsAreAlone ==
  ~overlapped =>
    /\ \A j, k \in Calls : InProgress(j) /\ InProgress(k) => j = k
    /\ \A k \in Calls : calls[k].at = "writing" /\ calls[k].op \in Revoking =>
                          Active \subseteq calls[k].seen
    /\ \A k \in Calls : calls[k].at = "writing" /\ calls[k].op = "login" =>
                          calls[k].token = account.password

SInv == TypeOK /\ LoginsHaveAccount /\ CallsAreAlone /\ SessionsFollowPassword

(* What a call's step says of the other calls.                             *)
LEMMA AloneMoves ==
  ASSUME TypeOK, NEW k \in Calls, NEW local \in Call, Move(k, local)
  PROVE  /\ calls'[k] = local
         /\ \A j \in Calls \ {k} : calls'[j] = calls[j]
         /\ ~overlapped' => ~overlapped /\ \A j \in Calls \ {k} : ~InProgress(j)
<1>1. calls' = [calls EXCEPT ![k] = local] /\ calls \in [Calls -> Call]
  BY DEF Move, TypeOK
<1>2. ~overlapped' => ~overlapped /\ \A j \in Calls \ {k} : ~InProgress(j)
  BY DEF Move
<1> QED
  BY <1>1, <1>2

(* A step of a call that leaves sessions and account alone: it begins, or  *)
(* goes on, or is answered.                                                *)
LEMMA QuietStep ==
  ASSUME SInv, NEW k \in Calls, NEW local \in Call, Move(k, local),
         UNCHANGED <<account, sessions>>,
         local.op = "login" => account.status # "none" /\ local.at # "read",
         local.at = "writing" /\ local.op \in Revoking => local.seen = Active,
         local.at = "writing" /\ local.op = "login" => local.token = account.password
  PROVE  LoginsHaveAccount' /\ CallsAreAlone' /\ SessionsFollowPassword'
<1>1. /\ calls'[k] = local
      /\ \A j \in Calls \ {k} : calls'[j] = calls[j]
      /\ ~overlapped' => ~overlapped /\ \A j \in Calls \ {k} : ~InProgress(j)
  BY AloneMoves DEF SInv
<1>2. Active' = Active
  BY DEF Active
<1>3. LoginsHaveAccount'
  BY <1>1, <1>2 DEF SInv, LoginsHaveAccount
<1>4. CallsAreAlone'
  BY <1>1, <1>2 DEF InProgress, CallsAreAlone
<1>5. SessionsFollowPassword'
  BY <1>1, <1>2 DEF SInv, SessionsFollowPassword
<1> QED
  BY <1>3, <1>4, <1>5

(* A call that writes is answered; what remains to be shown is about the   *)
(* sessions alone.                                                         *)
LEMMA WritingStep ==
  ASSUME SInv, NEW k \in Calls, NEW ok \in BOOLEAN, Finish(k, ok),
         calls[k].at = "writing",
         account'.status = "none" => account.status = "none" /\ Active' \subseteq Active,
         ~overlapped /\ account'.status # "deleted" =>
           \A s \in Active' : sessions'[s].password = account'.password
  PROVE  LoginsHaveAccount' /\ CallsAreAlone' /\ SessionsFollowPassword'
<1>1. /\ calls'[k].at = "done" /\ calls'[k].op = calls[k].op
      /\ \A j \in Calls \ {k} : calls'[j] = calls[j]
  BY FinishRow DEF SInv
<1>2. ~overlapped' => ~overlapped /\ \A j \in Calls \ {k} : ~InProgress(j)
  BY DEF Finish, Move
<1>3. LoginsHaveAccount'
  BY <1>1 DEF SInv, LoginsHaveAccount
<1>4. CallsAreAlone'
  BY <1>1, <1>2 DEF InProgress, CallsAreAlone
<1>5. SessionsFollowPassword'
  BY <1>2 DEF SessionsFollowPassword
<1> QED
  BY <1>3, <1>4, <1>5

(* A session ends; no call and no account is touched.                      *)
LEMMA SessionsEnd ==
  ASSUME SInv, UNCHANGED <<account, calls, overlapped>>,
         Active' \subseteq Active,
         \A s \in Calls : sessions'[s].password = sessions[s].password
  PROVE  LoginsHaveAccount' /\ CallsAreAlone' /\ SessionsFollowPassword'
<1>1. Active \subseteq Calls
  BY DEF Active
<1>2. LoginsHaveAccount'
  BY DEF SInv, LoginsHaveAccount
<1>3. CallsAreAlone'
  BY DEF SInv, CallsAreAlone, InProgress
<1>4. SessionsFollowPassword'
  BY <1>1 DEF SInv, SessionsFollowPassword
<1> QED
  BY <1>2, <1>3, <1>4

(* A call that has not begun holds no session to revoke and no password.   *)
LEMMA FirstStep ==
  ASSUME SInv, NEW k \in Calls, NEW local \in Call, Move(k, local),
         UNCHANGED <<account, sessions>>, local.op # "login",
         local.at = "read" \/ local.op = "verify"
  PROVE  LoginsHaveAccount' /\ CallsAreAlone' /\ SessionsFollowPassword'
BY QuietStep DEF Revoking

LEMMA StartsAlone ==
  ASSUME SInv, NEW k \in Calls,
         \/ LoginRead(k) \/ AskReset(k)
         \/ \E op \in Operation : AskWithSession(k, op)
         \/ \E t \in Calls : ResetRead(k, t) \/ VerifyRead(k, t)
  PROVE  LoginsHaveAccount' /\ CallsAreAlone' /\ SessionsFollowPassword'
<1>1. ASSUME LoginRead(k)
      PROVE  LoginsHaveAccount' /\ CallsAreAlone' /\ SessionsFollowPassword'
  <2> DEFINE local == [NoCall EXCEPT !.at = "writing", !.op = "login",
                                     !.token = account.password]
  <2>1. account.password \in Calls \cup {None} /\ account.status # "none"
    BY <1>1 DEF SInv, TypeOK, Account, LoginRead, CanAuthenticate, Present
  <2>2. /\ local \in Call /\ local.op = "login" /\ local.at = "writing"
        /\ local.token = account.password
    BY <2>1 DEF NoCall, Call, Step, Operation
  <2>3. Move(k, local) /\ UNCHANGED <<account, sessions>>
    BY <1>1 DEF LoginRead
  <2> HIDE DEF local
  <2> QED
    BY <2>1, <2>2, <2>3, QuietStep DEF Revoking
<1>2. ASSUME AskReset(k)
      PROVE  LoginsHaveAccount' /\ CallsAreAlone' /\ SessionsFollowPassword'
  <2> DEFINE local == [NoCall EXCEPT !.at = "read", !.op = "ask_reset"]
  <2>1. local \in Call /\ local.op = "ask_reset" /\ local.at = "read"
    BY DEF NoCall, Call, Step, Operation
  <2>2. Move(k, local) /\ UNCHANGED <<account, sessions>> /\ "ask_reset" # "login"
    BY <1>2 DEF AskReset
  <2> HIDE DEF local
  <2> QED
    BY <2>1, <2>2, FirstStep
<1>3. ASSUME NEW op \in Operation, AskWithSession(k, op)
      PROVE  LoginsHaveAccount' /\ CallsAreAlone' /\ SessionsFollowPassword'
  <2> DEFINE local == [NoCall EXCEPT !.at = "read", !.op = op]
  <2>1. local \in Call /\ local.op = op /\ local.at = "read"
    BY DEF NoCall, Call, Step, Operation
  <2>2. Move(k, local) /\ UNCHANGED <<account, sessions>> /\ op # "login"
    BY <1>3 DEF AskWithSession
  <2> HIDE DEF local
  <2> QED
    BY <2>1, <2>2, FirstStep
<1>4. ASSUME NEW t \in Calls, ResetRead(k, t)
      PROVE  LoginsHaveAccount' /\ CallsAreAlone' /\ SessionsFollowPassword'
  <2> DEFINE local == [NoCall EXCEPT !.at = "read", !.op = "reset", !.token = t]
  <2>1. local \in Call /\ local.op = "reset" /\ local.at = "read"
    BY DEF NoCall, Call, Step, Operation
  <2>2. Move(k, local) /\ UNCHANGED <<account, sessions>> /\ "reset" # "login"
    BY <1>4 DEF ResetRead
  <2> HIDE DEF local
  <2> QED
    BY <2>1, <2>2, FirstStep
<1>5. ASSUME NEW t \in Calls, VerifyRead(k, t)
      PROVE  LoginsHaveAccount' /\ CallsAreAlone' /\ SessionsFollowPassword'
  <2> DEFINE local == [NoCall EXCEPT !.at = "writing", !.op = "verify", !.token = t]
  <2>1. local \in Call /\ local.op = "verify" /\ local.at = "writing"
    BY DEF NoCall, Call, Step, Operation
  <2>2. Move(k, local) /\ UNCHANGED <<account, sessions>> /\ "verify" # "login"
    BY <1>5 DEF VerifyRead
  <2> HIDE DEF local
  <2> QED
    BY <2>1, <2>2, FirstStep
<1> QED
  BY <1>1, <1>2, <1>3, <1>4, <1>5

LEMMA BeginsAlone ==
  ASSUME SInv, NEW k \in Calls, Begin(k)
  PROVE  LoginsHaveAccount' /\ CallsAreAlone' /\ SessionsFollowPassword'
<1> DEFINE op == calls[k].op
           seen == CASE op = "ask_reset" -> Live(resets)
                     [] op = "ask_proof" -> Live(proofs)
                     [] OTHER -> Active
           token == IF op = "ask_proof" /\ ~account.verified
                      THEN k ELSE calls[k].token
           local == [calls[k] EXCEPT !.at = "writing", !.seen = seen,
                                     !.token = token]
<1>1. calls[k] \in Call /\ op # "login"
  BY DEF SInv, TypeOK, LoginsHaveAccount, Begin
<1>2. seen \in SUBSET Calls /\ (op \in Revoking => seen = Active)
  BY HelperTypes DEF SInv, Revoking
<1>3. token \in Calls \cup {None}
  BY <1>1 DEF Call
<1>4. Move(k, local) /\ UNCHANGED <<account, sessions>>
  BY DEF Begin
<1> HIDE DEF seen, token
<1>5. local \in Call /\ local.op = op /\ local.seen = seen
  BY <1>1, <1>2, <1>3 DEF Call, Step
<1> HIDE DEF local
<1> QED
  BY <1>1, <1>2, <1>4, <1>5, QuietStep

LEMMA RefusesAlone ==
  ASSUME SInv, NEW k \in Calls, Refuse(k)
  PROVE  LoginsHaveAccount' /\ CallsAreAlone' /\ SessionsFollowPassword'
<1> DEFINE local == [calls[k] EXCEPT !.at = "done", !.ok = FALSE, !.seen = {}]
<1>1. calls[k] \in Call /\ calls[k].op # "login"
  BY DEF SInv, TypeOK, LoginsHaveAccount, Refuse
<1>2. local \in Call /\ local.op = calls[k].op /\ local.at = "done"
  BY <1>1 DEF Call, Step
<1>3. Move(k, local) /\ UNCHANGED <<account, sessions>>
  BY DEF Refuse, Finish
<1> HIDE DEF local
<1> QED
  BY <1>1, <1>2, <1>3, QuietStep

LEMMA RegistersAlone ==
  ASSUME SInv, NEW k \in Calls, Register(k)
  PROVE  LoginsHaveAccount' /\ CallsAreAlone' /\ SessionsFollowPassword'
<1> DEFINE local == [NoCall EXCEPT !.at = "read", !.op = "ask_proof"]
<1>1. local \in Call /\ local.op = "ask_proof" /\ local.at = "read"
  BY DEF NoCall, Call, Step, Operation
<1>2. Move(k, local)
  BY DEF Register
<1> HIDE DEF local
<1>3. /\ calls'[k] = local
      /\ \A j \in Calls \ {k} : calls'[j] = calls[j]
      /\ ~overlapped' => ~overlapped /\ \A j \in Calls \ {k} : ~InProgress(j)
  BY <1>1, <1>2, AloneMoves DEF SInv
<1>4. account'.status = "pending_verification" /\ account'.password = k
  BY DEF Register
<1>5. Active' = {k} /\ sessions'[k].password = k
  <2>1. Active = {}
    BY DEF SInv, LoginsHaveAccount, Register
  <2>2. sessions' = [sessions EXCEPT ![k] = Open(k, k)] /\ sessions \in [Calls -> Session]
    BY DEF Register, SInv, TypeOK
  <2> QED
    BY <2>1, <2>2 DEF Active, Open
<1>6. LoginsHaveAccount'
  BY <1>1, <1>3, <1>4 DEF SInv, LoginsHaveAccount
<1>7. CallsAreAlone'
  BY <1>1, <1>3 DEF InProgress, CallsAreAlone, Revoking
<1>8. SessionsFollowPassword'
  BY <1>4, <1>5 DEF SessionsFollowPassword
<1> QED
  BY <1>6, <1>7, <1>8

(* Revoking what was active in the snapshot of a call that was alone       *)
(* leaves no session active.                                               *)
LEMMA RevokeEndsAll ==
  ASSUME SInv, NEW k \in Calls, ~overlapped, calls[k].at = "writing",
         calls[k].op \in Revoking, NEW s \in Calls
  PROVE  Revoke(calls[k].seen)[s].state # "active"
<1>1. Active \subseteq calls[k].seen
  BY DEF SInv, CallsAreAlone
<1>2. sessions[s] \in Session
  BY DEF SInv, TypeOK
<1> QED
  BY <1>1, <1>2 DEF Revoke, Active, Session

LEMMA WritesAlone ==
  ASSUME SInv, NEW k \in Calls, Writes(k) \/ LoginWrite(k)
  PROVE  LoginsHaveAccount' /\ CallsAreAlone' /\ SessionsFollowPassword'
<1>1. /\ sessions \in [Calls -> Session] /\ account \in Account
      /\ Present \in BOOLEAN /\ (IsLive(resets, calls[k].token) /\ Present) \in BOOLEAN
  BY DEF SInv, TypeOK, Present
<1>2. ASSUME ~overlapped, account.status # "deleted"
      PROVE  \A s \in Active : sessions[s].password = account.password
  BY <1>2 DEF SInv, SessionsFollowPassword
<1>3. ASSUME NEW ok \in BOOLEAN, Finish(k, ok), calls[k].at = "writing",
             UNCHANGED <<account, sessions>>
      PROVE  LoginsHaveAccount' /\ CallsAreAlone' /\ SessionsFollowPassword'
  <2>1. Active' = Active
    BY <1>3 DEF Active
  <2> QED
    BY <1>2, <1>3, <2>1, WritingStep
<1>4. CASE LoginWrite(k)
  <2>1. /\ calls[k].at = "writing" /\ calls[k].op = "login" /\ Finish(k, TRUE)
        /\ sessions' = [sessions EXCEPT ![k] = Open(k, calls[k].token)]
        /\ account' = account
    BY <1>4 DEF LoginWrite
  <2>2. account.status # "none"
    BY <2>1 DEF SInv, LoginsHaveAccount
  <2>3. ~overlapped => calls[k].token = account.password
    BY <2>1 DEF SInv, CallsAreAlone
  <2>4. /\ sessions'[k].password = calls[k].token
        /\ \A s \in Active' : s = k \/ (s \in Active /\ sessions'[s] = sessions[s])
    BY <1>1, <2>1 DEF Active, Open
  <2>5. ~overlapped /\ account'.status # "deleted" =>
          \A s \in Active' : sessions'[s].password = account'.password
    BY <1>2, <2>1, <2>3, <2>4
  <2> QED
    BY <2>1, <2>2, <2>5, WritingStep
<1>5. CASE AskResetWrite(k) \/ AskProofWrite(k)
  BY <1>3, <1>5 DEF AskResetWrite, AskProofWrite
<1>6. CASE ChangeWrite(k)
  <2>1. CASE ~Present
    BY <1>1, <1>3, <1>6, <2>1 DEF ChangeWrite
  <2>2. CASE Present
    <3>1. /\ calls[k].at = "writing" /\ calls[k].op = "change" /\ Finish(k, Present)
          /\ account' = [account EXCEPT !.password = k]
          /\ sessions' = [Revoke(calls[k].seen) EXCEPT ![k] = Open(k, k)]
      BY <1>6, <2>2 DEF ChangeWrite
    <3>2. account'.password = k /\ account'.status # "none"
      BY <1>1, <2>2, <3>1 DEF Account, Present
    <3>3. DOMAIN Revoke(calls[k].seen) = Calls
      BY DEF Revoke
    <3>4. ~overlapped => \A s \in Active' : s = k
      BY <3>1, <3>3, RevokeEndsAll DEF Active, Revoking
    <3>5. sessions'[k].password = k
      BY <3>1, <3>3 DEF Open
    <3> QED
      BY <1>1, <3>1, <3>2, <3>4, <3>5, WritingStep
  <2> QED
    BY <2>1, <2>2
<1>7. ASSUME NEW ok \in BOOLEAN, Finish(k, ok), calls[k].at = "writing",
             calls[k].op \in Revoking, account'.status # "none",
             sessions' = Revoke(calls[k].seen)
      PROVE  LoginsHaveAccount' /\ CallsAreAlone' /\ SessionsFollowPassword'
  <2>1. ~overlapped => Active' = {}
    BY <1>7, RevokeEndsAll DEF Active
  <2> QED
    BY <1>7, <2>1, WritingStep
<1>8. CASE DeactivateWrite(k)
  <2>1. CASE ~Present
    BY <1>1, <1>3, <1>8, <2>1 DEF DeactivateWrite
  <2>2. CASE Present
    <3>1. account'.status = "suspended"
      BY <1>1, <1>8, <2>2 DEF DeactivateWrite, Account
    <3> QED
      BY <1>1, <1>7, <1>8, <2>2, <3>1 DEF DeactivateWrite, Revoking
  <2> QED
    BY <2>1, <2>2
<1>9. CASE DeleteWrite(k)
  <2>1. CASE ~Present
    BY <1>1, <1>3, <1>9, <2>1 DEF DeleteWrite
  <2>2. CASE Present
    <3>1. account'.status = "deleted"
      BY <1>9, <2>2 DEF DeleteWrite
    <3> QED
      BY <1>1, <1>7, <1>9, <2>2, <3>1 DEF DeleteWrite, Revoking
  <2> QED
    BY <2>1, <2>2
<1>10. CASE ResetWrite(k)
  <2> DEFINE holds == IsLive(resets, calls[k].token) /\ Present
  <2>1. CASE ~holds
    BY <1>1, <1>3, <1>10, <2>1 DEF ResetWrite
  <2>2. CASE holds
    <3>1. account'.status # "none"
      BY <1>1, <1>10, <2>2 DEF ResetWrite, Account, Present
    <3> QED
      BY <1>1, <1>7, <1>10, <2>2, <3>1 DEF ResetWrite, Revoking
  <2> QED
    BY <2>1, <2>2
<1>11. CASE VerifyWrite(k)
  <2>1. /\ calls[k].at = "writing" /\ Finish(k, Present) /\ sessions' = sessions
        /\ account' = IF Present
                        THEN [account EXCEPT !.verified = TRUE,
                                             !.status = StatusOnceVerified(@)]
                        ELSE account
    BY <1>11 DEF VerifyWrite
  <2>2. Active' = Active
    BY <2>1 DEF Active
  <2>3. CASE ~Present
    BY <1>1, <1>3, <2>1, <2>3
  <2>4. CASE Present
    <3>1. account'.password = account.password /\ account'.status # "none"
      BY <1>1, <2>1, <2>4 DEF Account, Present, StatusOnceVerified
    <3>2. account.status # "deleted"
      BY <2>4 DEF Present
    <3> QED
      BY <1>1, <1>2, <2>1, <2>2, <3>1, <3>2, WritingStep
  <2> QED
    BY <2>3, <2>4
<1> QED
  BY <1>4, <1>5, <1>6, <1>8, <1>9, <1>10, <1>11 DEF Writes

LEMMA NextSessions == SInv /\ [Next]_vars => LoginsHaveAccount' /\ CallsAreAlone' /\ SessionsFollowPassword'
<1> SUFFICES ASSUME SInv, [Next]_vars
             PROVE  LoginsHaveAccount' /\ CallsAreAlone' /\ SessionsFollowPassword'
  OBVIOUS
<1>1. ASSUME UNCHANGED <<account, calls, overlapped, sessions>>
      PROVE  LoginsHaveAccount' /\ CallsAreAlone' /\ SessionsFollowPassword'
  BY <1>1, SessionsEnd DEF Active
<1>2. ASSUME NEW s \in Calls, Logout(s)
      PROVE  LoginsHaveAccount' /\ CallsAreAlone' /\ SessionsFollowPassword'
  <2>1. /\ sessions' = [sessions EXCEPT ![s].state = "ended"]
        /\ sessions \in [Calls -> Session]
        /\ UNCHANGED <<account, calls, overlapped>>
    BY <1>2 DEF Logout, SInv, TypeOK
  <2>2. /\ Active' \subseteq Active
        /\ \A j \in Calls : sessions'[j].password = sessions[j].password
    BY <2>1 DEF Active, Session
  <2> QED
    BY <2>1, <2>2, SessionsEnd
<1>3. CASE UNCHANGED vars
  BY <1>1, <1>3 DEF vars
<1>4. ASSUME NEW k \in Calls, Expire(k)
      PROVE  LoginsHaveAccount' /\ CallsAreAlone' /\ SessionsFollowPassword'
  BY <1>1, <1>4 DEF Expire
<1> QED
  BY <1>2, <1>3, <1>4, RegistersAlone, StartsAlone, BeginsAlone, RefusesAlone,
     WritesAlone DEF Next, Writes

(* As long as calls do not overlap, a change or a reset of the password    *)
(* leaves no session that was opened with an older one.                    *)
THEOREM SessionsKeepUp == Spec => []SessionsFollowPassword
<1>1. Init => LoginsHaveAccount /\ CallsAreAlone /\ SessionsFollowPassword
  BY DEF Init, LoginsHaveAccount, CallsAreAlone, SessionsFollowPassword, Active,
         InProgress, NoCall
<1> QED
  BY <1>1, InitTypeOK, NextTypeOK, NextSessions, PTL DEF Spec, SInv

=============================================================================
