---------------------------- MODULE AuthManager ----------------------------
(***************************************************************************)
(* The Kiro token manager (backend/src/auth/manager.rs): one access token  *)
(* shared by every request, refreshed on demand through AWS SSO OIDC.      *)
(*                                                                         *)
(* Each call of get_access_token is a process.  Every `.await` of the code *)
(* is a point where the others may run, and where the call may be dropped  *)
(* (the client hung up), so each step between two awaits is an action.     *)
(* `credentials` is a FIFO tokio lock: ahead[r] are the calls that asked   *)
(* for it before r and have not given it back.  access_token and           *)
(* expires_at have locks of their own, taken for one read or one write     *)
(* each, hence atomic here.                                                *)
(***************************************************************************)
EXTENDS Integers, Optional

CONSTANTS
    Callers,     \* concurrent callers of get_access_token
    Threshold,    \* refresh_threshold
    Lifetime,     \* lifetime the identity provider grants (expires_in - 60)
    HasDb,        \* config_db is Some: credentials can be reloaded on a 400
    MaxTime,      \* bound on the clock
    MaxTokens     \* bound on the access tokens issued

ASSUME ThresholdAssumption == Threshold \in Nat
ASSUME LifetimeAssumption == Lifetime \in Nat \ {0}
ASSUME BoundsAssumption == MaxTime \in Nat /\ MaxTokens \in Nat
ASSUME HasDbAssumption == HasDb \in BOOLEAN

VARIABLES
    now,            \* Utc::now()
    access_token,   \* RwLock<Option<String>>, a token carries its real expiry
    expires_at,     \* RwLock<Option<DateTime>>
    refresh_token,  \* credentials.refresh_token, a generation number
    db_token,       \* kiro_refresh_token in the config database
    ahead,          \* calls ahead of each call in line for credentials.write()
    valid,          \* refresh tokens the identity provider still accepts
    issued,         \* access tokens issued so far
    pc,             \* where each call is
    checked,        \* when each call last compared expires_at with the clock
    fetched         \* TokenData in flight, per call

vars == <<now, access_token, expires_at, refresh_token, db_token, ahead, valid,
          issued, pc, checked, fetched>>

Token == [id : Nat, exp : Nat]
TokenData == [token : Token, refresh : Nat \cup {None}]

ASSUME NoneAssumption == None \notin Nat \cup Token \cup TokenData

(* The stages of a call: not called, about to check, re-check, waiting for *)
(* the lock, first attempt, reload from the database, second attempt, the  *)
(* three stores of a success, the failure path, the final read.            *)
Stages == {"idle", "check", "recheck", "wait", "attempt", "reload", "retry",
           "set_token", "set_expiry", "set_refresh", "failed", "read"}

(* Stages at which the call holds credentials.write().                     *)
Holding == {"attempt", "reload", "retry", "set_token", "set_expiry", "set_refresh"}

TypeOK ==
    /\ now \in Nat
    /\ access_token \in Token \cup {None}
    /\ expires_at \in Nat \cup {None}
    /\ refresh_token \in Nat
    /\ db_token \in Nat \cup {None}
    /\ ahead \in [Callers -> SUBSET Callers]
    /\ valid \subseteq Nat
    /\ issued \in Nat
    /\ pc \in [Callers -> Stages]
    /\ checked \in [Callers -> Nat]
    /\ fetched \in [Callers -> TokenData \cup {None}]

(* new_from_env / new: a refresh token, no access token yet.               *)
Init ==
    /\ now = 0
    /\ access_token = None
    /\ expires_at = None
    /\ refresh_token = 0
    /\ db_token \in IF HasDb THEN {0, None} ELSE {None}
    /\ ahead = [r \in Callers |-> {}]
    /\ valid = {0}
    /\ issued = 0
    /\ pc = [r \in Callers |-> "idle"]
    /\ checked = [r \in Callers |-> 0]
    /\ fetched = [r \in Callers |-> None]

is_token_expiring_soon == IF expires_at = None THEN TRUE ELSE expires_at <= now + Threshold

is_token_expired == IF expires_at = None THEN TRUE ELSE now >= expires_at

(* Calls that have asked for credentials.write() and not given it back.    *)
InLine == {r \in Callers : pc[r] \in {"wait"} \cup Holding}

Release(r) == ahead' = [s \in Callers |-> IF s = r THEN {} ELSE ahead[s] \ {r}]

Goto(r, stage) == pc' = [pc EXCEPT ![r] = stage]

Look(r) == checked' = [checked EXCEPT ![r] = now]

(* The call is over and its local variables with it.                       *)
Leave(r) == Goto(r, "idle") /\ checked' = [checked EXCEPT ![r] = 0]

store == <<access_token, expires_at, refresh_token, db_token>>
idp == <<valid, issued>>

-----------------------------------------------------------------------------
(* A request calls get_access_token.                                       *)
Call(r) ==
    /\ pc[r] = "idle"
    /\ Goto(r, "check")
    /\ UNCHANGED <<now, store, ahead, idp, checked, fetched>>

(* get_access_token: `if self.is_token_expiring_soon()`.                   *)
Check(r) ==
    /\ pc[r] = "check"
    /\ Goto(r, IF is_token_expiring_soon THEN "recheck" ELSE "read")
    /\ Look(r)
    /\ UNCHANGED <<now, store, ahead, idp, fetched>>

(* Slip: a shared lock, nobody queues behind anybody.                      *)
RecheckSharedLock(r) ==
    /\ pc[r] = "recheck"
    /\ Goto(r, IF is_token_expiring_soon THEN "wait" ELSE "read")
    /\ Look(r)
    /\ UNCHANGED <<now, store, ahead, idp, fetched>>

(* refresh_token: the re-check that runs before the write lock is asked    *)
(* for; then the call joins the lock's queue.                              *)
Recheck(r) ==
    /\ pc[r] = "recheck"
    /\ \/ /\ ~is_token_expiring_soon
          /\ Goto(r, "read")
          /\ UNCHANGED ahead
       \/ /\ is_token_expiring_soon
          /\ Goto(r, "wait")
          /\ ahead' = [ahead EXCEPT ![r] = InLine]
    /\ Look(r)
    /\ UNCHANGED <<now, store, idp, fetched>>

(* Slip: the refresh starts without waiting for the lock.                  *)
AcquireAtOnce(r) ==
    /\ pc[r] = "wait"
    /\ Goto(r, "attempt")
    /\ UNCHANGED <<now, store, ahead, idp, checked, fetched>>

(* credentials.write().await returns and the first attempt starts.         *)
Acquire(r) ==
    /\ pc[r] = "wait"
    /\ ahead[r] = {}
    /\ Goto(r, "attempt")
    /\ UNCHANGED <<now, store, ahead, idp, checked, fetched>>

(* refresh_aws_sso_oidc succeeds: a new access token and perhaps a new     *)
(* refresh token, which retires the one presented.                         *)
Granted(r) ==
    /\ pc[r] \in {"attempt", "retry"}
    /\ refresh_token \in valid
    /\ issued < MaxTokens
    /\ \E rotated \in BOOLEAN :
         LET fresh == issued + 1 IN
         /\ fetched' = [fetched EXCEPT ![r] =
                [token |-> [id |-> fresh, exp |-> now + Lifetime],
                 refresh |-> IF rotated THEN fresh ELSE None]]
         /\ valid' = IF rotated THEN (valid \ {refresh_token}) \cup {fresh} ELSE valid
    /\ issued' = issued + 1
    /\ Goto(r, "set_token")
    /\ UNCHANGED <<now, store, ahead, checked>>

(* Slip: the error path keeps the guard.                                   *)
AttemptFailsKeepsLock(r) ==
    /\ pc[r] = "attempt"
    /\ Goto(r, "failed")
    /\ UNCHANGED <<now, store, ahead, idp, checked, fetched>>

(* `Err(e) => return Err(e)`: the guard is dropped on the way out.         *)
AttemptFails(r) ==
    /\ pc[r] = "attempt"
    /\ Release(r)
    /\ Goto(r, "failed")
    /\ UNCHANGED <<now, store, idp, checked, fetched>>

(* A 400 with a database: the credentials are about to be reloaded.        *)
AttemptRejected(r) ==
    /\ pc[r] = "attempt"
    /\ HasDb
    /\ Goto(r, "reload")
    /\ UNCHANGED <<now, store, ahead, idp, checked, fetched>>

(* Slip: a missing kiro_refresh_token is not noticed.                      *)
ReloadUnchecked(r) ==
    /\ pc[r] = "reload"
    /\ refresh_token' = db_token
    /\ Goto(r, "retry")
    /\ UNCHANGED <<now, access_token, expires_at, db_token, ahead, idp, checked, fetched>>

(* load_from_config_db overwrites the credentials, or fails.               *)
Reload(r) ==
    /\ pc[r] = "reload"
    /\ \/ /\ db_token # None
          /\ refresh_token' = db_token
          /\ Goto(r, "retry")
          /\ UNCHANGED ahead
       \/ /\ Release(r)
          /\ Goto(r, "failed")
          /\ UNCHANGED refresh_token
    /\ UNCHANGED <<now, access_token, expires_at, db_token, idp, checked, fetched>>

(* The second attempt fails: the reloaded credentials stay.                *)
RetryFails(r) ==
    /\ pc[r] = "retry"
    /\ Release(r)
    /\ Goto(r, "failed")
    /\ UNCHANGED <<now, store, idp, checked, fetched>>

(* Slip: the expiry is stored first.                                       *)
SetTokenExpiryFirst(r) ==
    /\ pc[r] = "set_token"
    /\ expires_at' = fetched[r].token.exp
    /\ Goto(r, "set_expiry")
    /\ UNCHANGED <<now, access_token, refresh_token, db_token, ahead, idp, checked, fetched>>

(* `*access_token = Some(..)`, under the access_token lock.                *)
SetToken(r) ==
    /\ pc[r] = "set_token"
    /\ access_token' = fetched[r].token
    /\ Goto(r, "set_expiry")
    /\ UNCHANGED <<now, expires_at, refresh_token, db_token, ahead, idp, checked, fetched>>

(* `*expires_at = Some(..)`, under the expires_at lock.                    *)
SetExpiry(r) ==
    /\ pc[r] = "set_expiry"
    /\ expires_at' = fetched[r].token.exp
    /\ Goto(r, "set_refresh")
    /\ UNCHANGED <<now, access_token, refresh_token, db_token, ahead, idp, checked, fetched>>

(* The rotated refresh token is kept in memory only; refresh_token returns *)
(* and the credentials guard is dropped.                                   *)
SetRefresh(r) ==
    /\ pc[r] = "set_refresh"
    /\ refresh_token' = IF fetched[r].refresh = None THEN refresh_token
                                                    ELSE fetched[r].refresh
    /\ fetched' = [fetched EXCEPT ![r] = None]
    /\ Release(r)
    /\ Goto(r, "read")
    /\ UNCHANGED <<now, access_token, expires_at, db_token, idp, checked>>

(* Slip: the old token is used without asking whether it has expired.      *)
DegradeAlways(r) ==
    /\ pc[r] = "failed"
    /\ Goto(r, "read")
    /\ Look(r)
    /\ UNCHANGED <<now, store, ahead, idp, fetched>>

(* Graceful degradation: after a failed refresh the old token is used      *)
(* while it has not expired, otherwise the call fails.                     *)
Degrade(r) ==
    /\ pc[r] = "failed"
    /\ \/ is_token_expired /\ Leave(r)
       \/ ~is_token_expired /\ Goto(r, "read") /\ Look(r)
    /\ UNCHANGED <<now, store, ahead, idp, fetched>>

(* The final read of the shared access token.                              *)
Return(r) ==
    /\ pc[r] = "read"
    /\ Leave(r)
    /\ UNCHANGED <<now, store, ahead, idp, fetched>>

(* The client hangs up: the call is dropped at an await, its lock request  *)
(* or guard with it; a TokenData that was not stored is lost.              *)
Cancel(r) ==
    /\ pc[r] # "idle"
    /\ Release(r)
    /\ fetched' = [fetched EXCEPT ![r] = None]
    /\ Leave(r)
    /\ UNCHANGED <<now, store, idp>>

(* An operator stores a new refresh token in the config database.          *)
StoreCredentials ==
    /\ HasDb
    /\ \E t \in valid : db_token # t /\ db_token' = t
    /\ UNCHANGED <<now, access_token, expires_at, refresh_token, ahead, idp,
                   pc, checked, fetched>>

Tick ==
    /\ now < MaxTime
    /\ now' = now + 1
    /\ UNCHANGED <<store, ahead, idp, pc, checked, fetched>>

Step(r) ==
    \/ Check(r) \/ Recheck(r) \/ Acquire(r)
    \/ Granted(r) \/ AttemptFails(r) \/ AttemptRejected(r)
    \/ Reload(r) \/ RetryFails(r)
    \/ SetToken(r) \/ SetExpiry(r) \/ SetRefresh(r)
    \/ Degrade(r) \/ Return(r)

Next ==
    \/ \E r \in Callers : Call(r) \/ Step(r) \/ Cancel(r)
    \/ StoreCredentials
    \/ Tick

(* Every started call runs on: the runtime polls ready tasks, and the HTTP *)
(* client gives up after 30 seconds, so an attempt always gets an answer.  *)
Spec == Init /\ [][Next]_vars /\ \A r \in Callers : WF_vars(Step(r))

-----------------------------------------------------------------------------
(* At most one refresh talks to the identity provider at a time.           *)
OneRefreshAtATime ==
    \A r, s \in Callers : pc[r] \in Holding /\ pc[s] \in Holding => r = s

(* The stored expiry never promises more than the stored token: the code   *)
(* stores the token before its expiry, so neither a reader between the two *)
(* stores nor a call dropped between them leaves an old token behind a new *)
(* expiry.                                                                 *)
ExpiryNeverOverstates ==
    expires_at # None => /\ access_token # None
                         /\ expires_at <= access_token.exp

(* The token a call is about to return exists and had not expired when the *)
(* call last looked at the clock, whatever other calls stored between that *)
(* look and the final read.                                                *)
ServedTokenWasLive ==
    \A r \in Callers : pc[r] = "read" => /\ access_token # None
                                          /\ access_token.exp > checked[r]

(* Stores only move forward: a call that waited for the lock never         *)
(* replaces the shared token by one issued earlier.                        *)
TokenNeverGoesBack ==
    [][access_token # None => access_token'.id >= access_token.id]_access_token

(* Every call returns.                                                     *)
EveryCallReturns ==
    \A r \in Callers : pc[r] = "check" ~> pc[r] = "idle"
=============================================================================
