------------------------------ MODULE Accounts ------------------------------
(***************************************************************************)
(* The users table and the queries on it (web_ui/config_db.rs), the clock  *)
(* and the two caches of AppState that hold what a request is identified   *)
(* by: session_cache and the sessions table behind it.                     *)
(*                                                                         *)
(* A user is named by its e-mail address, which the table keeps unique; a  *)
(* statement whose WHERE names a deleted user affects no row.              *)
(***************************************************************************)
EXTENDS Naturals, FiniteSets

CONSTANTS
    Users,        \* e-mail addresses
    Sessions,     \* session ids that create_session can draw
    Passwords,    \* passwords, as the hashes verify_password compares
    Secrets,      \* TOTP secrets
    Domains,      \* e-mail domains, in lower case
    DomainOf,     \* domain of each address
    SessionTtl,   \* 24 hours
    MaxTime,      \* bound on the clock
    None

ASSUME AccountsAssumption ==
    /\ None \notin Nat \cup Users \cup Passwords \cup Secrets
    /\ DomainOf \in [Users -> Domains]
    /\ SessionTtl \in Nat /\ MaxTime \in Nat

VARIABLES
    now,            \* Utc::now(), and NOW() of the database
    users,          \* rows of users
    sessions,       \* rows of sessions
    session_cache,  \* SessionInfo by session id
    allowed_domains \* added_by of each row of allowed_domains

(* The columns that decide who may do what; must_change_password is only   *)
(* reported to the page.                                                   *)
UserRow ==
    [role : {"admin", "user"}, password : Passwords \cup {None},
     totp_secret : Secrets \cup {None}, totp_enabled : BOOLEAN,
     auth_method : {"google", "password"}, google_linked : BOOLEAN]

SessionRow == [user : Users, expires : Nat]

SessionInfo ==
    [user : Users, role : {"admin", "user"}, expires : Nat,
     totp_enabled : BOOLEAN]

AccountsTypeOK ==
    /\ now \in 0..MaxTime
    /\ users \in [Users -> UserRow \cup {None}]
    /\ sessions \in [Sessions -> SessionRow \cup {None}]
    /\ session_cache \in [Sessions -> SessionInfo \cup {None}]
    /\ allowed_domains \in [Domains -> Users \cup {None}]

-----------------------------------------------------------------------------
(* Statements on users, as functions from the table to the table.          *)

Registered(t) == {u \in Users : t[u] # None}

count_admins(t) == Cardinality({u \in Registered(t) : t[u].role = "admin"})

(* INSERT ... ON CONFLICT (email) DO UPDATE of name, picture and           *)
(* last_login, in a serializable transaction: the first user is the admin. *)
upsert_user(t, u) ==
    IF t[u] # None THEN t
    ELSE [t EXCEPT ![u] =
            [role |-> IF Registered(t) = {} THEN "admin" ELSE "user",
             password |-> None, totp_secret |-> None, totp_enabled |-> FALSE,
             auth_method |-> "google", google_linked |-> FALSE]]

(* A second INSERT of one address breaks the unique constraint.            *)
CanCreate(t, u) == t[u] = None

create_password_user(t, u, hash, role) ==
    [t EXCEPT ![u] =
        [role |-> IF Registered(t) = {} THEN "admin" ELSE role,
         password |-> hash, totp_secret |-> None, totp_enabled |-> FALSE,
         auth_method |-> "password", google_linked |-> FALSE]]

enable_totp(t, u, secret) ==
    IF t[u] = None THEN t
    ELSE [t EXCEPT ![u].totp_secret = secret, ![u].totp_enabled = TRUE]

disable_totp(t, u) ==
    IF t[u] = None THEN t
    ELSE [t EXCEPT ![u].totp_secret = None, ![u].totp_enabled = FALSE]

(* The statement at the end of the setup: the secret alone.                *)
set_totp_secret(t, u, secret) ==
    IF t[u] = None THEN t ELSE [t EXCEPT ![u].totp_secret = secret]

get_totp_secret(t, u) == IF t[u] = None THEN None ELSE t[u].totp_secret

set_google_linked(t, u) ==
    IF t[u] = None THEN t ELSE [t EXCEPT ![u].google_linked = TRUE]

get_google_linked(t, u) == t[u] # None /\ t[u].google_linked

update_password_with_auth_method(t, u, hash) ==
    IF t[u] = None THEN t
    ELSE [t EXCEPT ![u].password = hash, ![u].auth_method = "password"]

(* The UPDATE of admin_reset_password_handler.                             *)
reset_password(t, u, hash) ==
    IF t[u] = None THEN t ELSE [t EXCEPT ![u].password = hash]

update_user_role(t, u, role) ==
    IF t[u] = None THEN t ELSE [t EXCEPT ![u].role = role]

delete_user(t, u) == [t EXCEPT ![u] = None]

(* allowed_domains.added_by REFERENCES users without a rule for DELETE, so  *)
(* the DELETE of a user who added a domain is an error.                    *)
CanDelete(u) == \A d \in Domains : allowed_domains[d] # u

(* An empty list allows everybody.                                         *)
is_domain_allowed(u) ==
    \/ \A d \in Domains : allowed_domains[d] = None
    \/ allowed_domains[DomainOf[u]] # None

-----------------------------------------------------------------------------
(* Statements on sessions.                                                 *)

create_session(t, s, u, expires) == [t EXCEPT ![s] = [user |-> u, expires |-> expires]]

get_session(t, s) ==
    IF t[s] # None /\ t[s].expires > now THEN t[s] ELSE None

extend_session(t, s, expires) ==
    IF t[s] = None THEN t ELSE [t EXCEPT ![s].expires = expires]

delete_session(t, s) == [t EXCEPT ![s] = None]

cleanup_expired_sessions(t) ==
    [s \in Sessions |-> IF t[s] # None /\ t[s].expires < now THEN None ELSE t[s]]

(* sessions.user_id REFERENCES users ON DELETE CASCADE.                    *)
CascadeSessions(t, u) ==
    [s \in Sessions |-> IF t[s] # None /\ t[s].user = u THEN None ELSE t[s]]

(* A session id is a fresh uuid: never one that a table or cache knows.    *)
Fresh(s) == sessions[s] = None /\ session_cache[s] = None

SessionInfoOf(t, u, expires) ==
    [user |-> u, role |-> t[u].role, expires |-> expires,
     totp_enabled |-> t[u].totp_enabled]

(* evict_user_caches, on the session cache.                                *)
EvictSessions(u) ==
    [s \in Sessions |-> IF session_cache[s] # None /\ session_cache[s].user = u
                        THEN None ELSE session_cache[s]]
=============================================================================
