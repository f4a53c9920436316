---------------------------- MODULE AccountAccess ----------------------------
(***************************************************************************)
(* One account: its status, password, sessions and the one-time tokens     *)
(* that are mailed to it, as AuthService and UsersService change them.     *)
(* Every statement touches the rows of one user, so accounts do not        *)
(* interfere and one is enough.                                            *)
(*                                                                         *)
(* A call is identified by k and made once; the password, the session and  *)
(* the token it creates are named after it.  A call that changes the       *)
(* account first reads (who is asking, is the password right, is the token *)
(* good), then starts the statement, which takes its snapshot, then        *)
(* writes.  The user's row and a consumed token are checked again when     *)
(* they are locked; the sessions to revoke are those of the snapshot.  A   *)
(* call can stop for ever at any of its steps.                             *)
(***************************************************************************)
EXTENDS Naturals, FiniteSets

CONSTANTS Calls,   \* requests to the API
          None     \* SQL null

ASSUME NoneAssumption == None \notin Calls

VARIABLES
  account,     \* the users row
  sessions,    \* sessions[k]: the session call k opened
  resets,      \* resets[k]: the password reset token call k created
  proofs,      \* proofs[k]: the email verification token call k created
  calls,       \* calls[k]: local state of call k
  overlapped   \* history: two calls have been in progress at the same time

vars == <<account, sessions, resets, proofs, calls, overlapped>>

Status == {"none", "pending_verification", "active", "suspended", "deleted"}
TokenState == {"none", "live", "spent"}
SessionState == {"none", "active", "ended"}
Operation == {"register", "login", "change", "deactivate", "delete", "reset",
              "ask_reset", "ask_proof", "verify"}
Step == {"idle", "read", "writing", "done"}

Account == [status : Status, password : Calls \cup {None}, verified : BOOLEAN]
Session == [state : SessionState, password : Calls \cup {None}]
Call == [at : Step, op : Operation \cup {"none"}, token : Calls \cup {None},
         seen : SUBSET Calls, ok : BOOLEAN]
NoCall == [at |-> "idle", op |-> "none", token |-> None, seen |-> {},
           ok |-> FALSE]

Init ==
  /\ account = [status |-> "none", password |-> None, verified |-> FALSE]
  /\ sessions = [k \in Calls |-> [state |-> "none", password |-> None]]
  /\ resets = [k \in Calls |-> "none"]
  /\ proofs = [k \in Calls |-> "none"]
  /\ calls = [k \in Calls |-> NoCall]
  /\ overlapped = FALSE

-----------------------------------------------------------------------------
InProgress(k) == calls[k].at \in {"read", "writing"}

Move(k, local) ==
  /\ calls' = [calls EXCEPT ![k] = local]
  /\ overlapped' = (overlapped \/ \E j \in Calls \ {k} : InProgress(j))

Finish(k, ok) == Move(k, [calls[k] EXCEPT !.at = "done", !.ok = ok, !.seen = {}])

(* Mutant: deleted_at is not part of the condition.                        *)
PresentM == account.status # "none"

(* The row exists and deleted_at is null.                                  *)
Present == account.status \notin {"none", "deleted"}

(* assertUserCanAuthenticate                                               *)
CanAuthenticate == Present /\ account.status # "suspended"

(* currentSession: the bearer token of session s is accepted.              *)
Authenticates(s) == sessions[s].state = "active" /\ CanAuthenticate

Active == {s \in Calls : sessions[s].state = "active"}
Live(tokens) == {t \in Calls : tokens[t] = "live"}

Spend(tokens, S) == [t \in Calls |-> IF t \in S THEN "spent" ELSE tokens[t]]

Open(k, password) == [state |-> "active", password |-> password]

(* Mutant: revoked_sessions is left out.                                   *)
RevokeM(S) == sessions

Revoke(S) == [s \in Calls |-> IF s \in S
                                THEN [sessions[s] EXCEPT !.state = "ended"]
                                ELSE sessions[s]]

-----------------------------------------------------------------------------
(* Registration inserts user and session, then asks for an email token.    *)
(* The unique index on the address makes a second registration fail.       *)
Register(k) ==
  /\ calls[k].at = "idle"
  /\ account.status = "none"
  /\ account' = [status |-> "pending_verification", password |-> k,
                 verified |-> FALSE]
  /\ sessions' = [sessions EXCEPT ![k] = Open(k, k)]
  /\ Move(k, [NoCall EXCEPT !.at = "read", !.op = "ask_proof"])
  /\ UNCHANGED <<resets, proofs>>

(* login: the row is read and the password verified; the session is        *)
(* inserted later, whatever has become of the account.                     *)
LoginRead(k) ==
  /\ calls[k].at = "idle"
  /\ CanAuthenticate
  /\ Move(k, [NoCall EXCEPT !.at = "writing", !.op = "login",
                            !.token = account.password])
  /\ UNCHANGED <<account, sessions, resets, proofs>>

LoginWrite(k) ==
  /\ calls[k].at = "writing" /\ calls[k].op = "login"
  /\ sessions' = [sessions EXCEPT ![k] = Open(k, calls[k].token)]
  /\ Finish(k, TRUE)
  /\ UNCHANGED <<account, resets, proofs>>

(* logout, or expires_at of the session passes.                            *)
Logout(s) ==
  /\ sessions[s].state = "active"
  /\ sessions' = [sessions EXCEPT ![s].state = "ended"]
  /\ UNCHANGED <<account, resets, proofs, calls, overlapped>>

(* What is asked for with a bearer token.  For the first three the current *)
(* password is verified too.                                               *)
AskWithSession(k, op) ==
  /\ calls[k].at = "idle"
  /\ \E s \in Calls : Authenticates(s)
  /\ op \in {"change", "deactivate", "delete", "ask_proof"}
  /\ Move(k, [NoCall EXCEPT !.at = "read", !.op = op])
  /\ UNCHANGED <<account, sessions, resets, proofs>>

(* requestPasswordReset: nothing but an address is needed.                 *)
AskReset(k) ==
  /\ calls[k].at = "idle"
  /\ Move(k, [NoCall EXCEPT !.at = "read", !.op = "ask_reset"])
  /\ UNCHANGED <<account, sessions, resets, proofs>>

(* Mutant: an unknown token is all that is refused.                        *)
IsLiveM(tokens, t) == tokens[t] # "none"

IsLive(tokens, t) == tokens[t] = "live"

(* resetPassword: passwordResetTokenByHashSql finds the token.             *)
ResetRead(k, t) ==
  /\ calls[k].at = "idle"
  /\ Present
  /\ IsLive(resets, t)
  /\ Move(k, [NoCall EXCEPT !.at = "read", !.op = "reset", !.token = t])
  /\ UNCHANGED <<account, sessions, resets, proofs>>

(* verifyEmailSql finds the token in its snapshot.                         *)
VerifyRead(k, t) ==
  /\ calls[k].at = "idle"
  /\ IsLive(proofs, t)
  /\ Move(k, [NoCall EXCEPT !.at = "writing", !.op = "verify", !.token = t])
  /\ UNCHANGED <<account, sessions, resets, proofs>>

-----------------------------------------------------------------------------
(* The statement starts.  Its snapshot must hold the user, except for a    *)
(* reset, which starts from the token; it fixes the sessions that will be  *)
(* revoked, or the tokens that will be replaced.                           *)
Begin(k) ==
  LET op == calls[k].op
  IN /\ calls[k].at = "read"
     /\ Present \/ op = "reset"
     /\ Move(k, [calls[k] EXCEPT
                   !.at = "writing",
                   !.seen = CASE op = "ask_reset" -> Live(resets)
                              [] op = "ask_proof" -> Live(proofs)
                              [] OTHER -> Active,
                   !.token = IF op = "ask_proof" /\ ~account.verified
                               THEN k ELSE calls[k].token])
     /\ UNCHANGED <<account, sessions, resets, proofs>>

Refuse(k) ==
  /\ calls[k].at = "read" /\ calls[k].op # "reset"
  /\ ~Present
  /\ Finish(k, FALSE)
  /\ UNCHANGED <<account, sessions, resets, proofs>>

(* The new token replaces those of the snapshot; the user is not checked   *)
(* again.  A verified address gets none.                                   *)
AskResetWrite(k) ==
  /\ calls[k].at = "writing" /\ calls[k].op = "ask_reset"
  /\ resets' = [Spend(resets, calls[k].seen) EXCEPT ![k] = "live"]
  /\ Finish(k, TRUE)
  /\ UNCHANGED <<account, sessions, proofs>>

AskProofWrite(k) ==
  /\ calls[k].at = "writing" /\ calls[k].op = "ask_proof"
  /\ proofs' = [Spend(proofs, calls[k].seen) EXCEPT
                  ![k] = IF calls[k].token = k THEN "live" ELSE @]
  /\ Finish(k, TRUE)
  /\ UNCHANGED <<account, sessions, resets>>

(* The three statements that lock the user's row first.                    *)
ChangeWrite(k) ==
  /\ calls[k].at = "writing" /\ calls[k].op = "change"
  /\ IF Present
       THEN /\ account' = [account EXCEPT !.password = k]
            /\ sessions' = [Revoke(calls[k].seen) EXCEPT ![k] = Open(k, k)]
       ELSE UNCHANGED <<account, sessions>>
  /\ Finish(k, Present)
  /\ UNCHANGED <<resets, proofs>>

DeactivateWrite(k) ==
  /\ calls[k].at = "writing" /\ calls[k].op = "deactivate"
  /\ IF Present
       THEN /\ account' = [account EXCEPT !.status = "suspended"]
            /\ sessions' = Revoke(calls[k].seen)
       ELSE UNCHANGED <<account, sessions>>
  /\ Finish(k, Present)
  /\ UNCHANGED <<resets, proofs>>

DeleteWrite(k) ==
  /\ calls[k].at = "writing" /\ calls[k].op = "delete"
  /\ IF Present
       THEN /\ account' = [status |-> "deleted", password |-> None,
                           verified |-> FALSE]
            /\ sessions' = Revoke(calls[k].seen)
       ELSE UNCHANGED <<account, sessions>>
  /\ Finish(k, Present)
  /\ UNCHANGED <<resets, proofs>>

(* completePasswordReset locks the token, then the user.                   *)
ResetWrite(k) ==
  LET t == calls[k].token
      holds == IsLive(resets, t) /\ Present
  IN /\ calls[k].at = "writing" /\ calls[k].op = "reset"
     /\ resets' = IF IsLive(resets, t) THEN Spend(resets, {t}) ELSE resets
     /\ IF holds
          THEN /\ account' = [account EXCEPT !.password = k]
               /\ sessions' = Revoke(calls[k].seen)
          ELSE UNCHANGED <<account, sessions>>
     /\ Finish(k, holds)
     /\ UNCHANGED proofs

(* Mutant: the status is set without looking at the one it replaces.       *)
StatusOnceVerifiedM(status) == "active"

(* Mutant: the case expression has no else.                                *)
StatusOnceVerifiedNullM(status) ==
  IF status = "pending_verification" THEN "active" ELSE None

StatusOnceVerified(status) ==
  IF status = "pending_verification" THEN "active" ELSE status

(* verifyEmailSql: the token is not checked again, the user is.            *)
VerifyWrite(k) ==
  /\ calls[k].at = "writing" /\ calls[k].op = "verify"
  /\ proofs' = Spend(proofs, {calls[k].token})
  /\ account' = IF Present
                  THEN [account EXCEPT !.verified = TRUE,
                                       !.status = StatusOnceVerified(@)]
                  ELSE account
  /\ Finish(k, Present)
  /\ UNCHANGED <<sessions, resets>>

(* expires_at of a token passes.                                           *)
Expire(t) ==
  /\ \/ t \in Live(resets) /\ resets' = Spend(resets, {t}) /\ UNCHANGED proofs
     \/ t \in Live(proofs) /\ proofs' = Spend(proofs, {t}) /\ UNCHANGED resets
  /\ UNCHANGED <<account, sessions, calls, overlapped>>

Next ==
  \E k \in Calls :
    \/ Register(k)
    \/ LoginRead(k) \/ LoginWrite(k)
    \/ Logout(k)
    \/ \E op \in Operation : AskWithSession(k, op)
    \/ AskReset(k)
    \/ \E t \in Calls : ResetRead(k, t) \/ VerifyRead(k, t)
    \/ Begin(k) \/ Refuse(k)
    \/ AskResetWrite(k) \/ AskProofWrite(k)
    \/ ChangeWrite(k) \/ DeactivateWrite(k) \/ DeleteWrite(k)
    \/ ResetWrite(k) \/ VerifyWrite(k)
    \/ Expire(k)

Spec == Init /\ [][Next]_vars

-----------------------------------------------------------------------------
(* Rows and calls are well formed.                                         *)
TypeOK ==
  /\ account \in Account
  /\ sessions \in [Calls -> Session]
  /\ resets \in [Calls -> TokenState]
  /\ proofs \in [Calls -> TokenState]
  /\ calls \in [Calls -> Call]
  /\ overlapped \in BOOLEAN

(* A deleted account keeps neither password nor verified address, and an   *)
(* account that is not deleted has a password: a reset, a change, an email *)
(* verification that started before the deletion does not write after it.  *)
DeletedIsErased ==
  /\ account.status = "deleted" =>
       account.password = None /\ ~account.verified
  /\ account.status \in {"pending_verification", "active", "suspended"} =>
       account.password # None

(* An account only moves forward: a deactivation is not undone by an email *)
(* verification that was under way, nor a deletion by anything.            *)
StatusMovesForward ==
  [][\/ account'.status = account.status
     \/ <<account.status, account'.status>> \in
          {<<"none", "pending_verification">>,
           <<"pending_verification", "active">>}
     \/ /\ account'.status \in {"suspended", "deleted"}
        /\ account.status \notin {"none", "deleted"}]_vars

(* A reset token resets the password at most once, however often it is     *)
(* sent.                                                                   *)
ResetOnce ==
  \A j, k \in Calls :
    /\ j # k
    /\ calls[j].op = "reset" /\ calls[j].ok
    /\ calls[k].op = "reset" /\ calls[k].ok
    => calls[j].token # calls[k].token

(* As long as calls do not overlap, an active session was opened with the  *)
(* present password: a change or a reset ends all the older ones.          *)
SessionsFollowPassword ==
  ~overlapped /\ account.status # "deleted" =>
    \A s \in Active : sessions[s].password = account.password
=============================================================================
