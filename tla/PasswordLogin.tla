--------------------------- MODULE PasswordLogin ---------------------------
(***************************************************************************)
(* Logging in: the password login with its limiter, the second factor with *)
(* its pending logins and recovery codes, its set-up, changing the         *)
(* password (web_ui/password_auth.rs), and the Google login and account    *)
(* link with their pending states (web_ui/google_auth.rs).                 *)
(*                                                                         *)
(* A code typed in is a recovery code, the current code of a TOTP secret,  *)
(* or wrong.  Google's answer to the code exchange is external: it names   *)
(* any verified address or fails.  login[l].at is the await a call is at.  *)
(***************************************************************************)
EXTENDS Accounts

CONSTANTS
    Logins,         \* concurrent calls
    Tokens,         \* login tokens of pending second factors
    Codes,          \* recovery codes
    States,         \* OAuth state parameters
    MaxAttempts,    \* MAX_LOGIN_ATTEMPTS
    Lockout,        \* LOCKOUT_WINDOW_SECS
    PendingTtl,     \* 5 minutes
    OAuthTtl,       \* 10 minutes
    MaxOAuth        \* 10,000: bound of oauth_pending

VARIABLES
    limiter,        \* login_rate_limiter: failures and time of the first one
    pending_2fa,    \* rows of pending_2fa_logins
    recovery,       \* rows of totp_recovery_codes: owner and used
    oauth_pending,  \* pending Google logins and links
    login,          \* where each call is
    verified,       \* history: secrets a code was checked against
    half_set_up,    \* history: a set-up was dropped, or met another call, half way
    opened,         \* history: logins that each recovery code let through
    answered,       \* history: callbacks that got past each OAuth state
    consented       \* history: accounts that came from Google or were linked

loginvars == <<limiter, pending_2fa, recovery, oauth_pending, login, verified,
               half_set_up, opened, answered, consented>>

ASSUME PasswordLoginAssumption ==
    /\ MaxAttempts \in Nat \ {0}
    /\ Lockout \in Nat /\ PendingTtl \in Nat /\ OAuthTtl \in Nat /\ MaxOAuth \in Nat
    /\ IsFiniteSet(Logins)

Away == [at |-> "idle"]

(* Where a call is, with what it has read.                                 *)
LoginCalls ==
    {Away}
    \cup [at : {"row"}, u : Users, pw : Passwords]
    \cup [at : {"verify"}, u : Users, pw : Passwords, hash : Passwords, role : {"admin", "user"},
          totp : BOOLEAN]
    \cup [at : {"pend", "owner", "g_link", "s_codes", "c_write"}, u : Users]
    \cup [at : {"code", "g_auth", "g_linked"}, u : Users, role : {"admin", "user"}]
    \cup [at : {"session"}, u : Users, role : {"admin", "user"}, totp : BOOLEAN]
    \cup [at : {"consume"}, u : Users, token : Tokens]
    \cup [at : {"s_disable", "s_secret", "v_enable"}, u : Users, secret : Secrets]
    \cup [at : {"exchange"}, linking : Users \cup {None}]

LoginTypeOK ==
    /\ limiter \in [Users -> [count : Nat, since : Nat] \cup {None}]
    /\ pending_2fa \in [Tokens -> [user : Users, expires : Nat] \cup {None}]
    /\ recovery \in [Codes -> [user : Users, used : BOOLEAN] \cup {None}]
    /\ oauth_pending \in [States -> [created : Nat, linking : Users \cup {None}] \cup {None}]
    /\ login \in [Logins -> LoginCalls]
    /\ verified \subseteq Secrets
    /\ half_set_up \in BOOLEAN
    /\ opened \in [Codes -> Nat]
    /\ answered \in [States -> Nat]
    /\ consented \subseteq Users

LoginGoto(l, to) == login' = [login EXCEPT ![l] = to]

-----------------------------------------------------------------------------
(* The limiter.                                                            *)

(* Slip: the lock comes one failure late.                                  *)
LockedOutLate(u) ==
    /\ limiter[u] # None /\ limiter[u].count > MaxAttempts
    /\ now - limiter[u].since < Lockout

(* check_rate_limit.                                                       *)
LockedOut(u) ==
    /\ limiter[u] # None /\ limiter[u].count >= MaxAttempts
    /\ now - limiter[u].since < Lockout

record_login_failure(u) ==
    limiter' = [limiter EXCEPT ![u] =
        IF @ = None THEN [count |-> 1, since |-> now]
        ELSE IF now - @.since >= Lockout THEN [count |-> 1, since |-> now]
        ELSE [count |-> @.count + 1, since |-> @.since]]

clear_rate_limit(u) == limiter' = [limiter EXCEPT ![u] = None]

-----------------------------------------------------------------------------
(* login_handler.                                                          *)
LoginCheck(l, u, pw) ==
    /\ login[l] = Away
    /\ ~LockedOut(u)
    /\ LoginGoto(l, [at |-> "row", u |-> u, pw |-> pw])
    /\ UNCHANGED <<users, sessions, session_cache, limiter, pending_2fa, recovery, oauth_pending,
                   verified, half_set_up, opened, answered, consented>>

(* An unknown user, a user while password logins are disabled, or one      *)
(* without a password is refused and not counted.                          *)
LoginRow(l, enabled) ==
    /\ login[l].at = "row"
    /\ LET u == login[l].u
           row == users[u]
       IN LoginGoto(l,
            IF row = None THEN Away
            ELSE IF row.role # "admin" /\ ~enabled THEN Away
            ELSE IF row.password = None THEN Away
            ELSE [at |-> "verify", u |-> u, pw |-> login[l].pw, hash |-> row.password,
                  role |-> row.role, totp |-> row.totp_enabled])
    /\ UNCHANGED <<users, sessions, session_cache, limiter, pending_2fa, recovery, oauth_pending,
                   verified, half_set_up, opened, answered, consented>>

LoginVerify(l) ==
    /\ login[l].at = "verify"
    /\ LET u == login[l].u IN
       IF login[l].pw # login[l].hash
       THEN record_login_failure(u) /\ LoginGoto(l, Away)
       ELSE /\ clear_rate_limit(u)
            /\ LoginGoto(l,
                 IF login[l].totp THEN [at |-> "pend", u |-> u]
                 ELSE [at |-> "session", u |-> u, role |-> login[l].role, totp |-> FALSE])
    /\ UNCHANGED <<users, sessions, session_cache, pending_2fa, recovery, oauth_pending, verified,
                   half_set_up, opened, answered, consented>>

create_pending_2fa(l, t) ==
    /\ login[l].at = "pend"
    /\ pending_2fa[t] = None
    /\ pending_2fa' = [pending_2fa EXCEPT ![t] = [user |-> login[l].u, expires |-> now + PendingTtl]]
    /\ LoginGoto(l, Away)
    /\ UNCHANGED <<users, sessions, session_cache, limiter, recovery, oauth_pending, verified,
                   half_set_up, opened, answered, consented>>

(* create_session_response, and the end of google_auth_callback: the row,  *)
(* then the cache, with the role the call has read before.  Nothing can    *)
(* name the session before both are there; SessionAccess has the steps.    *)
OpenSession(l, s) ==
    /\ login[l].at = "session"
    /\ Fresh(s)
    /\ LET u == login[l].u IN
       IF users[u] = None THEN UNCHANGED <<sessions, session_cache>>
       ELSE /\ sessions' = create_session(sessions, s, u, now + SessionTtl)
            /\ session_cache' = [session_cache EXCEPT ![s] =
                 [user |-> u, role |-> login[l].role, expires |-> now + SessionTtl,
                  totp_enabled |-> login[l].totp]]
    /\ LoginGoto(l, Away)
    /\ UNCHANGED <<users, limiter, pending_2fa, recovery, oauth_pending, verified, half_set_up,
                   opened, answered, consented>>

-----------------------------------------------------------------------------
(* login_2fa_handler: get_pending_2fa and delete_pending_2fa are two       *)
(* statements, so two calls can find one token.                            *)
FindPending(l, t) ==
    /\ login[l] = Away
    /\ pending_2fa[t] # None /\ pending_2fa[t].expires > now
    /\ LoginGoto(l, [at |-> "consume", u |-> pending_2fa[t].user, token |-> t])
    /\ UNCHANGED <<users, sessions, session_cache, limiter, pending_2fa, recovery, oauth_pending,
                   verified, half_set_up, opened, answered, consented>>

ConsumePending(l) ==
    /\ login[l].at = "consume"
    /\ pending_2fa' = [pending_2fa EXCEPT ![login[l].token] = None]
    /\ LoginGoto(l, [at |-> "owner", u |-> login[l].u])
    /\ UNCHANGED <<users, sessions, session_cache, limiter, recovery, oauth_pending, verified,
                   half_set_up, opened, answered, consented>>

(* get_user_by_email_with_auth_by_id.                                      *)
ReadOwner(l) ==
    /\ login[l].at = "owner"
    /\ users[login[l].u] # None
    /\ LoginGoto(l, [at |-> "code", u |-> login[l].u, role |-> users[login[l].u].role])
    /\ UNCHANGED <<users, sessions, session_cache, limiter, pending_2fa, recovery, oauth_pending,
                   verified, half_set_up, opened, answered, consented>>

(* Slip: a code that was used before is found again.                       *)
CanUseAgain(u, code) == code \in Codes /\ recovery[code] # None /\ recovery[code].user = u

(* use_recovery_code, WHERE used = false, in one UPDATE.                   *)
CanUse(u, code) ==
    code \in Codes /\ recovery[code] # None /\ recovery[code].user = u /\ ~recovery[code].used

(* The TOTP code first, then a recovery code.                              *)
CheckCode(l, code) ==
    /\ login[l].at = "code"
    /\ LET u == login[l].u
           secret == get_totp_secret(users, u)
           recovers == secret # None /\ code # secret /\ CanUse(u, code)
       IN /\ LoginGoto(l,
               IF secret # None /\ (code = secret \/ recovers)
               THEN [at |-> "session", u |-> u, role |-> login[l].role, totp |-> TRUE] ELSE Away)
          /\ recovery' = IF recovers THEN [recovery EXCEPT ![code].used = TRUE] ELSE recovery
          /\ opened' = IF recovers THEN [opened EXCEPT ![code] = @ + 1] ELSE opened
    /\ UNCHANGED <<users, sessions, session_cache, limiter, pending_2fa, oauth_pending, verified,
                   half_set_up, answered, consented>>

cleanup_expired_2fa ==
    /\ \E t \in Tokens : pending_2fa[t] # None /\ pending_2fa[t].expires <= now
    /\ pending_2fa' = [t \in Tokens |->
           IF pending_2fa[t] # None /\ pending_2fa[t].expires <= now THEN None ELSE pending_2fa[t]]
    /\ UNCHANGED <<users, sessions, session_cache, limiter, recovery, oauth_pending, login, verified,
                   half_set_up, opened, answered, consented>>

-----------------------------------------------------------------------------
(* setup_2fa_handler.  A secret that is not enabled yet is shown again; a  *)
(* new one is stored in three statements, of which the first enables it.   *)
SetupStart(l, s, secret) ==
    /\ login[l] = Away /\ session_cache[s] # None
    /\ LET info == session_cache[s]
           shown == ~info.totp_enabled /\ get_totp_secret(users, info.user) # None
       IN /\ users' = IF shown THEN users ELSE enable_totp(users, info.user, secret)
          /\ LoginGoto(l, IF shown THEN Away
                          ELSE [at |-> "s_disable", u |-> info.user, secret |-> secret])
    /\ UNCHANGED <<sessions, session_cache, limiter, pending_2fa, recovery, oauth_pending, verified,
                   half_set_up, opened, answered, consented>>

SetupDisable(l) ==
    /\ login[l].at = "s_disable"
    /\ users' = disable_totp(users, login[l].u)
    /\ LoginGoto(l, [login[l] EXCEPT !.at = "s_secret"])
    /\ UNCHANGED <<sessions, session_cache, limiter, pending_2fa, recovery, oauth_pending, verified,
                   half_set_up, opened, answered, consented>>

SetupSecret(l) ==
    /\ login[l].at = "s_secret"
    /\ users' = set_totp_secret(users, login[l].u, login[l].secret)
    /\ half_set_up' = (half_set_up \/ (users[login[l].u] # None /\ users[login[l].u].totp_enabled))
    /\ LoginGoto(l, [at |-> "s_codes", u |-> login[l].u])
    /\ UNCHANGED <<sessions, session_cache, limiter, pending_2fa, recovery, oauth_pending, verified,
                   opened, answered, consented>>

(* store_recovery_codes replaces the user's codes, in one transaction.     *)
SetupCodes(l, codes) ==
    /\ login[l].at = "s_codes"
    /\ \A k \in codes : recovery[k] = None /\ opened[k] = 0
    /\ recovery' = [k \in Codes |->
           IF k \in codes THEN [user |-> login[l].u, used |-> FALSE]
           ELSE IF recovery[k] # None /\ recovery[k].user = login[l].u THEN None
           ELSE recovery[k]]
    /\ LoginGoto(l, Away)
    /\ UNCHANGED <<users, sessions, session_cache, limiter, pending_2fa, oauth_pending, verified,
                   half_set_up, opened, answered, consented>>

(* verify_2fa_handler: the secret is read, a code of it checked, and that  *)
(* secret written back with the flag.                                      *)
VerifyRead(l, s, code) ==
    /\ login[l] = Away /\ session_cache[s] # None
    /\ LET u == session_cache[s].user
           secret == get_totp_secret(users, u)
           ok == secret # None /\ code = secret
       IN /\ LoginGoto(l, IF ok THEN [at |-> "v_enable", u |-> u, secret |-> secret] ELSE Away)
          /\ verified' = IF ok THEN verified \cup {secret} ELSE verified
    /\ UNCHANGED <<users, sessions, session_cache, limiter, pending_2fa, recovery, oauth_pending,
                   half_set_up, opened, answered, consented>>

FlagSessions(u) ==
    session_cache' = [s \in Sessions |->
        IF session_cache[s] # None /\ session_cache[s].user = u
        THEN [session_cache[s] EXCEPT !.totp_enabled = TRUE] ELSE session_cache[s]]

(* Slip: whatever secret is in the row by now is enabled.                  *)
VerifyEnableAny(l) ==
    /\ login[l].at = "v_enable"
    /\ users' = IF get_totp_secret(users, login[l].u) = None THEN users
                ELSE enable_totp(users, login[l].u, get_totp_secret(users, login[l].u))
    /\ FlagSessions(login[l].u)
    /\ LoginGoto(l, Away)
    /\ UNCHANGED <<sessions, limiter, pending_2fa, recovery, oauth_pending, verified, half_set_up,
                   opened, answered, consented>>

VerifyEnable(l) ==
    /\ login[l].at = "v_enable"
    /\ users' = enable_totp(users, login[l].u, login[l].secret)
    /\ FlagSessions(login[l].u)
    /\ LoginGoto(l, Away)
    /\ UNCHANGED <<sessions, limiter, pending_2fa, recovery, oauth_pending, verified, half_set_up,
                   opened, answered, consented>>

(* change_password_handler: a user without a password needs none.          *)
ChangeRead(l, s, pw) ==
    /\ login[l] = Away /\ session_cache[s] # None
    /\ LET u == session_cache[s].user IN
       /\ users[u] # None /\ users[u].password \in {None, pw}
       /\ LoginGoto(l, [at |-> "c_write", u |-> u])
    /\ UNCHANGED <<users, sessions, session_cache, limiter, pending_2fa, recovery, oauth_pending,
                   verified, half_set_up, opened, answered, consented>>

ChangeWrite(l, new) ==
    /\ login[l].at = "c_write"
    /\ users' = update_password_with_auth_method(users, login[l].u, new)
    /\ LoginGoto(l, Away)
    /\ UNCHANGED <<sessions, session_cache, limiter, pending_2fa, recovery, oauth_pending, verified,
                   half_set_up, opened, answered, consented>>

-----------------------------------------------------------------------------
(* google_auth_redirect, and google_link_redirect for a session's user:    *)
(* expired states are dropped, then the cap is looked at.                  *)
GoogleRedirect(st, linking) ==
    LET kept == [x \in States |->
            IF oauth_pending[x] # None /\ now - oauth_pending[x].created >= OAuthTtl
            THEN None ELSE oauth_pending[x]]
        full == Cardinality({x \in States : kept[x] # None}) >= MaxOAuth
    IN /\ linking = None \/ \E s \in Sessions : session_cache[s] # None /\ session_cache[s].user = linking
       /\ oauth_pending[st] = None /\ answered[st] = 0
       /\ oauth_pending' = IF full THEN kept
                           ELSE [kept EXCEPT ![st] = [created |-> now, linking |-> linking]]
       /\ UNCHANGED <<users, sessions, session_cache, limiter, pending_2fa, recovery, login, verified,
                      half_set_up, opened, answered, consented>>

(* google_auth_callback takes the state out, whatever comes of it.         *)
GoogleCallback(l, st) ==
    /\ login[l] = Away /\ oauth_pending[st] # None
    /\ oauth_pending' = [oauth_pending EXCEPT ![st] = None]
    /\ IF now - oauth_pending[st].created >= OAuthTtl
       THEN UNCHANGED <<login, answered>>
       ELSE /\ LoginGoto(l, [at |-> "exchange", linking |-> oauth_pending[st].linking])
            /\ answered' = [answered EXCEPT ![st] = @ + 1]
    /\ UNCHANGED <<users, sessions, session_cache, limiter, pending_2fa, recovery, verified,
                   half_set_up, opened, consented>>

(* Google names u.  A link needs the account's own address; a login        *)
(* creates the account when there is none.                                 *)
GoogleIdentity(l, u) ==
    /\ login[l].at = "exchange"
    /\ is_domain_allowed(u)
    /\ IF login[l].linking # None
       THEN /\ LoginGoto(l, IF users[u] # None /\ u = login[l].linking
                            THEN [at |-> "g_link", u |-> u] ELSE Away)
            /\ UNCHANGED <<users, consented>>
       ELSE /\ users' = upsert_user(users, u)
            /\ consented' = IF users[u] = None THEN consented \cup {u} ELSE consented
            /\ LoginGoto(l, [at |-> "g_auth", u |-> u, role |-> upsert_user(users, u)[u].role])
    /\ UNCHANGED <<sessions, session_cache, limiter, pending_2fa, recovery, oauth_pending, verified,
                   half_set_up, opened, answered>>

GoogleLink(l) ==
    /\ login[l].at = "g_link"
    /\ users' = set_google_linked(users, login[l].u)
    /\ consented' = consented \cup {login[l].u}
    /\ LoginGoto(l, Away)
    /\ UNCHANGED <<sessions, session_cache, limiter, pending_2fa, recovery, oauth_pending, verified,
                   half_set_up, opened, answered>>

(* Slip: the account counts as linked before the check.                    *)
GoogleAuthLinksFirst(l) ==
    /\ login[l].at = "g_auth"
    /\ LET u == login[l].u IN
       /\ users' = set_google_linked(users, u)
       /\ LoginGoto(l, IF users[u] # None /\ users[u].auth_method = "password"
                          /\ ~get_google_linked(users, u)
                       THEN Away ELSE [at |-> "g_linked", u |-> u, role |-> login[l].role])
    /\ UNCHANGED <<sessions, session_cache, limiter, pending_2fa, recovery, oauth_pending,
                   verified, half_set_up, opened, answered, consented>>

(* A password account must have been linked before.                        *)
GoogleAuth(l) ==
    /\ login[l].at = "g_auth"
    /\ LET u == login[l].u IN
       LoginGoto(l, IF users[u] # None /\ users[u].auth_method = "password"
                       /\ ~get_google_linked(users, u)
                    THEN Away ELSE [at |-> "g_linked", u |-> u, role |-> login[l].role])
    /\ UNCHANGED <<users, sessions, session_cache, limiter, pending_2fa, recovery, oauth_pending,
                   verified, half_set_up, opened, answered, consented>>

GoogleLinked(l) ==
    /\ login[l].at = "g_linked"
    /\ users' = set_google_linked(users, login[l].u)
    /\ LoginGoto(l, [at |-> "session", u |-> login[l].u, role |-> login[l].role, totp |-> FALSE])
    /\ UNCHANGED <<sessions, session_cache, limiter, pending_2fa, recovery, oauth_pending, verified,
                   half_set_up, opened, answered, consented>>

-----------------------------------------------------------------------------
(* A statement fails or the client goes: what was written stays.           *)
LoginDropped(l) ==
    /\ login[l] # Away
    /\ half_set_up' = (half_set_up \/ login[l].at = "s_disable")
    /\ LoginGoto(l, Away)
    /\ UNCHANGED <<users, sessions, session_cache, limiter, pending_2fa, recovery, oauth_pending,
                   verified, opened, answered, consented>>

LoginStep(l) ==
    \/ \E u \in Users, pw \in Passwords : LoginCheck(l, u, pw)
    \/ \E enabled \in BOOLEAN : LoginRow(l, enabled)
    \/ LoginVerify(l)
    \/ \E t \in Tokens : create_pending_2fa(l, t) \/ FindPending(l, t)
    \/ ConsumePending(l) \/ ReadOwner(l)
    \/ \E code \in Codes \cup Secrets \cup {None} : CheckCode(l, code)
    \/ \E s \in Sessions :
          \/ OpenSession(l, s)
          \/ \E secret \in Secrets : SetupStart(l, s, secret) \/ VerifyRead(l, s, secret)
          \/ \E pw \in Passwords : ChangeRead(l, s, pw)
    \/ SetupDisable(l) \/ SetupSecret(l) \/ VerifyEnable(l)
    \/ \E k \in Codes : SetupCodes(l, {k})
    \/ \E pw \in Passwords : ChangeWrite(l, pw)
    \/ \E st \in States : GoogleCallback(l, st)
    \/ \E u \in Users : GoogleIdentity(l, u)
    \/ GoogleLink(l) \/ GoogleAuth(l) \/ GoogleLinked(l)
    \/ LoginDropped(l)

TickLogin ==
    /\ now < MaxTime
    /\ now' = now + 1
    /\ UNCHANGED loginvars
    /\ UNCHANGED <<users, sessions, session_cache, allowed_domains>>

LoginNext ==
    \/ /\ \/ \E l \in Logins : LoginStep(l)
          \/ \E st \in States, linking \in Users \cup {None} : GoogleRedirect(st, linking)
          \/ cleanup_expired_2fa
       /\ UNCHANGED <<now, allowed_domains>>
    \/ TickLogin

LoginInit ==
    /\ limiter = [u \in Users |-> None]
    /\ pending_2fa = [t \in Tokens |-> None]
    /\ recovery = [k \in Codes |-> None]
    /\ oauth_pending = [st \in States |-> None]
    /\ login = [l \in Logins |-> Away]
    /\ verified = {}
    /\ half_set_up = FALSE
    /\ opened = [k \in Codes |-> 0]
    /\ answered = [st \in States |-> 0]
    /\ consented = {}

-----------------------------------------------------------------------------
(* The limiter is looked at before the password is checked and written     *)
(* after, so calls under way at the same time pass it together: within one *)
(* window no more wrong passwords are tried than the limit, plus the other *)
(* calls.                                                                  *)
LockoutBound ==
    \A u \in Users : limiter[u] # None => limiter[u].count < MaxAttempts + Cardinality(Logins)

(* A recovery code lets one login through at most, although two calls may  *)
(* have found the same pending login.                                      *)
RecoveryCodeOnce == \A k \in Codes : opened[k] <= 1

(* The second factor is demanded only with a secret that a code of the     *)
(* user has been checked against, so that the user can produce one; except *)
(* that a set-up enables its secret for the time of one statement, for     *)
(* ever if it is dropped there, or if a verification of the secret before  *)
(* enables the user again before the set-up's last statement.              *)
TotpSecretVerified ==
    \A u \in Users : users[u] # None /\ users[u].totp_enabled =>
        \/ users[u].totp_secret \in verified
        \/ half_set_up
        \/ \E l \in Logins : login[l].at = "s_disable"

(* A pending Google login is answered once.                                *)
StateUsedOnce == \A st \in States : answered[st] <= 1

(* A password account is open to Google logins only after its user has     *)
(* linked it, or when it was a Google account first.                       *)
LinkedByOwner ==
    \A u \in Users : users[u] # None /\ users[u].auth_method = "password"
                     /\ users[u].google_linked => u \in consented

(* What is good for one use is used once, by calls that run side by side   *)
(* too: recovery codes and the states of Google logins.                    *)
UsedOnce == RecoveryCodeOnce /\ StateUsedOnce
=============================================================================
