----------------------------- MODULE RateLimit -----------------------------
(***************************************************************************)
(* The fixed window that every request of the API passes once its session  *)
(* is accepted: one key of Redis, which counts the requests of one client. *)
(*                                                                         *)
(* A request counts itself (INCR), arms the expiry if it was the first     *)
(* (EXPIRE), and reads how long the window lasts (TTL); if the key has no  *)
(* expiry it arms it again.  These are separate commands, other requests   *)
(* and the expiry come between them, and the connection can be lost after  *)
(* any of them.  The verdict rests on the count of the first command.      *)
(***************************************************************************)
EXTENDS Naturals

CONSTANTS Calls,      \* requests in progress at the same time
          Limit,      \* requests a window admits
          MaxFaults   \* lost connections

ASSUME LimitAssumption == Limit \in Nat \ {0} /\ MaxFaults \in Nat

VARIABLES
  key,       \* the counter (0: there is no key) and whether it has an expiry
  enforced,  \* enforced[k]: the next command of request k, and its count
  faults     \* connections lost so far

limitVars == <<key, enforced, faults>>

(* Counts above the limit are not told apart.                              *)
Counted == 0..(Limit + 1)
Key == [count : Counted, armed : BOOLEAN]
Enforced == [at : {"idle", "incr", "expire", "ttl", "rearm", "passed",
                   "blocked", "unavailable"},
             count : Counted]

NoKey == [count |-> 0, armed |-> FALSE]
Idle == [at |-> "idle", count |-> 0]

LimitInit ==
  /\ key = NoKey
  /\ enforced = [k \in Calls |-> Idle]
  /\ faults = 0

Arm == IF key.count = 0 THEN key ELSE [key EXCEPT !.armed = TRUE]

Verdict(k) == IF enforced[k].count > Limit THEN "blocked" ELSE "passed"

GoOn(k, there) == enforced' = [enforced EXCEPT ![k].at = there]

-----------------------------------------------------------------------------
Increment(k) ==
  LET count == IF key.count > Limit THEN key.count ELSE key.count + 1
  IN /\ enforced[k].at = "incr"
     /\ key' = [key EXCEPT !.count = count]
     /\ enforced' = [enforced EXCEPT ![k] =
                       [at |-> IF count = 1 THEN "expire" ELSE "ttl",
                        count |-> count]]
     /\ UNCHANGED faults

ExpireFirst(k) ==
  /\ enforced[k].at = "expire"
  /\ key' = Arm
  /\ GoOn(k, "ttl")
  /\ UNCHANGED faults

(* Mutant: a key that was left without an expiry is not noticed.           *)
ReadTtlM(k) ==
  /\ enforced[k].at = "ttl"
  /\ GoOn(k, Verdict(k))
  /\ UNCHANGED <<key, faults>>

(* A key without expiry, or one that has just expired, has a negative TTL. *)
ReadTtl(k) ==
  /\ enforced[k].at = "ttl"
  /\ GoOn(k, IF key.armed THEN Verdict(k) ELSE "rearm")
  /\ UNCHANGED <<key, faults>>

Rearm(k) ==
  /\ enforced[k].at = "rearm"
  /\ key' = Arm
  /\ GoOn(k, Verdict(k))
  /\ UNCHANGED faults

(* The connection is lost: the request is answered 503.                    *)
RedisFails(k) ==
  /\ enforced[k].at \in {"incr", "expire", "ttl", "rearm"}
  /\ faults < MaxFaults
  /\ faults' = faults + 1
  /\ GoOn(k, "unavailable")
  /\ UNCHANGED key

(* Redis drops the key at the end of the window.                           *)
WindowCloses ==
  /\ key.armed
  /\ key' = NoKey
  /\ UNCHANGED <<enforced, faults>>

LimitStep ==
  \/ \E k \in Calls :
       \/ Increment(k) \/ ExpireFirst(k) \/ ReadTtl(k) \/ Rearm(k)
       \/ RedisFails(k)
  \/ WindowCloses

(* Redis expires keys, and answers a command or fails it.                  *)
LimitFairness ==
  /\ WF_limitVars(WindowCloses)
  /\ \A k \in Calls : WF_limitVars(Increment(k) \/ ExpireFirst(k)
                                    \/ ReadTtl(k) \/ Rearm(k))

-----------------------------------------------------------------------------
LimitTypeOK ==
  /\ key \in Key
  /\ key.armed => key.count > 0
  /\ enforced \in [Calls -> Enforced]
  /\ faults \in 0..MaxFaults

(* Nobody is locked out for good: while requests keep arriving, some are   *)
(* admitted again and again, though the one that opened a window may have  *)
(* lost its connection before it could give the key an expiry.             *)
NobodyLockedOut ==
  []<>(\E k \in Calls : enforced[k].at = "incr") =>
    []<>(\E k \in Calls : enforced[k].at = "passed")
=============================================================================
