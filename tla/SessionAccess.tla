--------------------------- MODULE SessionAccess ---------------------------
(***************************************************************************)
(* Requests of the web UI: session_middleware and admin_middleware         *)
(* (web_ui/google_auth.rs), the handlers behind them that change users and *)
(* sessions (web_ui/config_api.rs, web_ui/password_auth.rs), logout, the   *)
(* hourly cleanup task (web_ui/session.rs) and a restart, which empties    *)
(* the caches.                                                             *)
(*                                                                         *)
(* A call is a process; it may be dropped at each await.  call[c].at names *)
(* the await it is at.  Of a login only that it reads the user's role and, *)
(* any time later, opens a session with it; module PasswordLogin has what  *)
(* it checks between.                                                      *)
(***************************************************************************)
EXTENDS Accounts

CONSTANT Calls      \* concurrent requests of the web UI

VARIABLES
    call,         \* where each request is, and what it has read
    logged_out,   \* history: sessions whose logout found nobody half way in
    last_admin,   \* history: when each user last was an administrator
    held          \* history: how long the login that opened each session had held the
                  \* role by then; None for an id that is not drawn yet

access == <<now, users, sessions, session_cache, allowed_domains, call, logged_out,
            last_admin, held>>

Idle == [at |-> "idle"]

SessionCalls ==
    {Idle}
    \cup [at : {"lookup", "logout"}, s : Sessions]
    \cup [at : {"user"}, s : Sessions, row : SessionRow]
    \cup [at : {"fill", "extend", "cache"}, s : Sessions, info : SessionInfo]
    \cup [at : {"handler"}, user : Users, role : {"admin", "user"}]
    \cup [at : {"demote", "reset_2fa", "evict"}, u : Users]
    \cup [at : {"open"}, u : Users, role : {"admin", "user"}, since : 0..MaxTime]

SessionTypeOK ==
    /\ AccountsTypeOK
    /\ call \in [Calls -> SessionCalls]
    /\ logged_out \subseteq Sessions
    /\ last_admin \in [Users -> 0..MaxTime]
    /\ held \in [Sessions -> Nat \cup {None}]

(* A user's administrator history follows the table and the clock.         *)
TrackAdmins ==
    last_admin' = [u \in Users |->
        IF users'[u] # None /\ users'[u].role = "admin" THEN now' ELSE last_admin[u]]

Goto(c, to) == call' = [call EXCEPT ![c] = to]

(* What the handlers use of the SessionInfo in the request's extensions.   *)
Admitted(info) == [at |-> "handler", user |-> info.user, role |-> info.role]

(* A client has the id of a session once its login has answered.           *)
Known(s) == held[s] # None /\ ~\E d \in Calls : call[d].at = "cache" /\ call[d].s = s

-----------------------------------------------------------------------------
(* A login has read the user's row: login_handler, login_2fa_handler, or   *)
(* google_auth_callback with the row upsert_user returns.  Checking the    *)
(* password, the code or the link takes more awaits.  Sessions bounds the  *)
(* ids that can be drawn.                                                  *)
ReadRole(c, u) ==
    /\ call[c] = Idle
    /\ \E s \in Sessions : held[s] = None
    /\ users[u] # None
    /\ Goto(c, [at |-> "open", u |-> u, role |-> users[u].role, since |-> now])
    /\ UNCHANGED <<now, users, sessions, session_cache, allowed_domains, logged_out, last_admin,
                   held>>

(* create_session_response: the row, under a fresh id; a deleted user's is *)
(* refused.  No user here has a second factor.                             *)
OpenRow(c, s) ==
    /\ call[c].at = "open"
    /\ held[s] = None
    /\ LET u == call[c].u
           info == [user |-> u, role |-> call[c].role, expires |-> now + SessionTtl,
                    totp_enabled |-> FALSE]
       IN IF users[u] = None
          THEN Goto(c, Idle) /\ UNCHANGED <<sessions, held>>
          ELSE /\ sessions' = create_session(sessions, s, u, now + SessionTtl)
               /\ held' = [held EXCEPT ![s] = now - call[c].since]
               /\ Goto(c, [at |-> "cache", s |-> s, info |-> info])
    /\ UNCHANGED <<now, users, session_cache, allowed_domains, logged_out, last_admin>>

(* Then the cache, and the cookie goes to the client.                      *)
CacheSession(c) ==
    /\ call[c].at = "cache"
    /\ session_cache' = [session_cache EXCEPT ![call[c].s] = call[c].info]
    /\ Goto(c, Idle)
    /\ UNCHANGED <<now, users, sessions, allowed_domains, logged_out, last_admin, held>>

-----------------------------------------------------------------------------
(* Slip: a hit renews the cached expiry.                                   *)
PresentSliding(c, s) ==
    /\ call[c] = Idle /\ Known(s)
    /\ LET entry == session_cache[s]
           live == entry # None /\ entry.expires > now
       IN /\ Goto(c, IF live THEN Admitted(entry)
                             ELSE [at |-> "lookup", s |-> s])
          /\ session_cache' = IF live THEN [session_cache EXCEPT ![s].expires = now + SessionTtl]
                                      ELSE [session_cache EXCEPT ![s] = None]
    /\ UNCHANGED <<now, users, sessions, allowed_domains, logged_out, last_admin, held>>

(* session_middleware.  A live entry of the cache admits the request; an   *)
(* expired one is evicted.                                                 *)
Present(c, s) ==
    /\ call[c] = Idle /\ Known(s)
    /\ LET entry == session_cache[s]
           live == entry # None /\ entry.expires > now
       IN /\ Goto(c, IF live THEN Admitted(entry)
                             ELSE [at |-> "lookup", s |-> s])
          /\ session_cache' = IF live THEN session_cache
                                      ELSE [session_cache EXCEPT ![s] = None]
    /\ UNCHANGED <<now, users, sessions, allowed_domains, logged_out, last_admin, held>>

LookupSession(c) ==
    /\ call[c].at = "lookup"
    /\ LET row == get_session(sessions, call[c].s)
       IN Goto(c, IF row = None THEN Idle
                  ELSE [at |-> "user", s |-> call[c].s, row |-> row])
    /\ UNCHANGED <<now, users, sessions, session_cache, allowed_domains, logged_out, last_admin,
                   held>>

(* The expiry is looked at again after the await.                          *)
LookupUser(c) ==
    /\ call[c].at = "user"
    /\ LET s == call[c].s
           row == call[c].row
       IN IF row.expires <= now
          THEN Goto(c, Idle) /\ sessions' = delete_session(sessions, s)
          ELSE /\ Goto(c, IF users[row.user] = None THEN Idle
                          ELSE [at |-> "fill", s |-> s,
                                info |-> SessionInfoOf(users, row.user, row.expires)])
               /\ UNCHANGED sessions
    /\ UNCHANGED <<now, users, session_cache, allowed_domains, logged_out, last_admin, held>>

(* The entry is cached; past half of the lifetime the row is extended.     *)
FillSession(c) ==
    /\ call[c].at = "fill"
    /\ LET info == call[c].info
       IN /\ session_cache' = [session_cache EXCEPT ![call[c].s] = info]
          /\ Goto(c, IF now + SessionTtl \div 2 > info.expires
                     THEN [call[c] EXCEPT !.at = "extend"]
                     ELSE Admitted(info))
    /\ UNCHANGED <<now, users, sessions, allowed_domains, logged_out, last_admin, held>>

ExtendSession(c) ==
    /\ call[c].at = "extend"
    /\ Goto(c, Admitted(call[c].info))
    /\ sessions' = extend_session(sessions, call[c].s, now + SessionTtl)
    /\ UNCHANGED <<now, users, session_cache, allowed_domains, logged_out, last_admin, held>>

-----------------------------------------------------------------------------
(* Handlers.  Those of administrators run behind admin_middleware, which   *)
(* looks at the role in SessionInfo.                                       *)
AsAdmin(c) == call[c].at = "handler" /\ call[c].role = "admin"

(* auth_me, lists and details: nothing changes.  admin_middleware refuses  *)
(* a user in the same way.                                                 *)
Respond(c) ==
    /\ call[c].at = "handler"
    /\ Goto(c, Idle)
    /\ UNCHANGED <<now, users, sessions, session_cache, allowed_domains, logged_out, last_admin,
                   held>>

(* update_user_role: only demoting oneself is held against the count.      *)
UpdateRole(c, u, role) ==
    /\ AsAdmin(c)
    /\ ~(role = "user" /\ u = call[c].user)
    /\ users' = update_user_role(users, u, role)
    /\ Goto(c, Idle)
    /\ UNCHANGED <<now, sessions, session_cache, allowed_domains, logged_out, held>>
    /\ TrackAdmins

CountAdmins(c) ==
    /\ AsAdmin(c)
    /\ Goto(c, IF count_admins(users) <= 1 THEN Idle
               ELSE [at |-> "demote", u |-> call[c].user])
    /\ UNCHANGED <<now, users, sessions, session_cache, allowed_domains, logged_out, last_admin,
                   held>>

DemoteSelf(c) ==
    /\ call[c].at = "demote"
    /\ users' = update_user_role(users, call[c].u, "user")
    /\ Goto(c, Idle)
    /\ UNCHANGED <<now, sessions, session_cache, allowed_domains, logged_out, held>>
    /\ TrackAdmins

(* config_api::delete_user: not oneself; rows that refer to the user go    *)
(* with it, entries of the caches stay.                                    *)
DeleteUser(c, u) ==
    /\ AsAdmin(c)
    /\ u # call[c].user
    /\ IF CanDelete(u)
       THEN /\ users' = delete_user(users, u)
            /\ sessions' = CascadeSessions(sessions, u)
       ELSE UNCHANGED <<users, sessions>>
    /\ Goto(c, Idle)
    /\ UNCHANGED <<now, session_cache, allowed_domains, logged_out, held>>
    /\ TrackAdmins

(* admin_create_user_handler.                                              *)
CreateUser(c, u, hash, role) ==
    /\ AsAdmin(c)
    /\ users' = IF CanCreate(users, u)
                THEN create_password_user(users, u, hash, role) ELSE users
    /\ Goto(c, Idle)
    /\ UNCHANGED <<now, sessions, session_cache, allowed_domains, logged_out, held>>
    /\ TrackAdmins

(* admin_reset_password_handler: the password, then the second factor,     *)
(* then the caches.  The rows of sessions stay.                            *)
ResetPassword(c, u, hash) ==
    /\ AsAdmin(c)
    /\ users' = reset_password(users, u, hash)
    /\ Goto(c, [at |-> "reset_2fa", u |-> u])
    /\ UNCHANGED <<now, sessions, session_cache, allowed_domains, logged_out, last_admin, held>>

ResetTwoFactor(c) ==
    /\ call[c].at = "reset_2fa"
    /\ users' = disable_totp(users, call[c].u)
    /\ Goto(c, [at |-> "evict", u |-> call[c].u])
    /\ UNCHANGED <<now, sessions, session_cache, allowed_domains, logged_out, last_admin, held>>

EvictUser(c) ==
    /\ call[c].at = "evict"
    /\ session_cache' = EvictSessions(call[c].u)
    /\ Goto(c, Idle)
    /\ UNCHANGED <<now, users, sessions, allowed_domains, logged_out, last_admin, held>>

(* add_domain, remove_domain.  The reference to a deleted user is refused. *)
AddDomain(c, d) ==
    /\ AsAdmin(c)
    /\ allowed_domains' = [allowed_domains EXCEPT ![d] =
                             IF @ # None \/ users[call[c].user] = None THEN @
                             ELSE call[c].user]
    /\ Goto(c, Idle)
    /\ UNCHANGED <<now, users, sessions, session_cache, logged_out, last_admin, held>>

RemoveDomain(c, d) ==
    /\ AsAdmin(c)
    /\ allowed_domains' = [allowed_domains EXCEPT ![d] = None]
    /\ Goto(c, Idle)
    /\ UNCHANGED <<now, users, sessions, session_cache, logged_out, last_admin, held>>

-----------------------------------------------------------------------------
(* logout_with_session needs no session: the cache, then the row.  An      *)
(* error of the DELETE is ignored.                                         *)
Logout(c, s) ==
    /\ call[c] = Idle /\ Known(s)
    /\ session_cache' = [session_cache EXCEPT ![s] = None]
    /\ Goto(c, [at |-> "logout", s |-> s])
    /\ UNCHANGED <<now, users, sessions, allowed_domains, logged_out, last_admin, held>>

HalfWayIn(d, s) == call[d].at \in {"user", "fill"} /\ call[d].s = s

LogoutRow(c) ==
    /\ call[c].at = "logout"
    /\ LET s == call[c].s
       IN /\ sessions' = delete_session(sessions, s)
          /\ logged_out' = IF session_cache[s] = None /\ ~\E d \in Calls : HalfWayIn(d, s)
                           THEN logged_out \cup {s} ELSE logged_out
    /\ Goto(c, Idle)
    /\ UNCHANGED <<now, users, session_cache, allowed_domains, last_admin, held>>

LogoutRowFails(c) ==
    /\ call[c].at = "logout"
    /\ Goto(c, Idle)
    /\ UNCHANGED <<now, users, sessions, session_cache, allowed_domains, logged_out, last_admin,
                   held>>

(* spawn_cleanup_task.                                                     *)
CleanCache ==
    /\ session_cache' = [s \in Sessions |->
           IF session_cache[s] # None /\ session_cache[s].expires <= now
           THEN None ELSE session_cache[s]]
    /\ session_cache' # session_cache
    /\ UNCHANGED <<now, users, sessions, allowed_domains, call, logged_out, last_admin, held>>

CleanRows ==
    /\ sessions' = cleanup_expired_sessions(sessions)
    /\ sessions' # sessions
    /\ UNCHANGED <<now, users, session_cache, allowed_domains, call, logged_out, last_admin, held>>

-----------------------------------------------------------------------------
(* A client that disconnects drops its call.                               *)
DropCall(c) ==
    /\ call[c] # Idle
    /\ Goto(c, Idle)
    /\ UNCHANGED <<now, users, sessions, session_cache, allowed_domains, logged_out, last_admin,
                   held>>

RestartWeb ==
    /\ call' = [c \in Calls |-> Idle]
    /\ session_cache' = [s \in Sessions |-> None]
    /\ UNCHANGED <<now, users, sessions, allowed_domains, logged_out, last_admin, held>>

TickWeb ==
    /\ now < MaxTime
    /\ now' = now + 1
    /\ UNCHANGED <<users, sessions, session_cache, allowed_domains, call, logged_out, held>>
    /\ TrackAdmins

CallStep(c) ==
    \/ \E s \in Sessions : Present(c, s) \/ Logout(c, s) \/ OpenRow(c, s)
    \/ CacheSession(c)
    \/ LookupSession(c) \/ LookupUser(c) \/ FillSession(c) \/ ExtendSession(c)
    \/ Respond(c)
    \/ CountAdmins(c) \/ DemoteSelf(c)
    \/ ResetTwoFactor(c) \/ EvictUser(c)
    \/ LogoutRow(c) \/ LogoutRowFails(c)
    \/ DropCall(c)
    \/ \E u \in Users :
          \/ \E role \in {"admin", "user"} : UpdateRole(c, u, role)
          \/ DeleteUser(c, u) \/ ReadRole(c, u)
          \/ \E hash \in Passwords :
                \/ ResetPassword(c, u, hash)
                \/ \E role \in {"admin", "user"} : CreateUser(c, u, hash, role)
    \/ \E d \in Domains : AddDomain(c, d) \/ RemoveDomain(c, d)

SessionNext ==
    \/ \E c \in Calls : CallStep(c)
    \/ CleanCache \/ CleanRows \/ RestartWeb \/ TickWeb

(* Some users are logged in; one of them at least is an administrator.     *)
SessionInit ==
    /\ now = 0
    /\ allowed_domains = [d \in Domains |-> None]
    /\ held \in [Sessions -> {0, None}]
    /\ \E role \in [Users -> {"admin", "user"}], owner \in [Sessions -> Users], hash \in Passwords :
          /\ \E s \in Sessions : held[s] # None /\ role[owner[s]] = "admin"
          /\ users = [u \in Users |->
                        [role |-> role[u], password |-> hash, totp_secret |-> None,
                         totp_enabled |-> FALSE, auth_method |-> "password",
                         google_linked |-> FALSE]]
          /\ sessions = [s \in Sessions |->
                IF held[s] = None THEN None ELSE [user |-> owner[s], expires |-> SessionTtl]]
          /\ session_cache = [s \in Sessions |->
                IF held[s] = None THEN None ELSE SessionInfoOf(users, owner[s], SessionTtl)]
    /\ call = [c \in Calls |-> Idle]
    /\ logged_out = {}
    /\ last_admin = [u \in Users |-> 0]

-----------------------------------------------------------------------------
(* The time by which the login that opened s may have outrun the limit.    *)
Held(s) == IF held[s] = None THEN 0 ELSE held[s]

(* A cached SessionInfo keeps the role it was filled with, and nothing     *)
(* evicts it when update_user_role or delete_user runs.  What bounds the   *)
(* damage is the expiry: an entry that session_middleware still admits as  *)
(* an administrator's is of a user who was one less than SessionTtl ago,   *)
(* and, when a login opened the session, the time longer that the login    *)
(* took between reading the role and opening it.                           *)
RightsExpire ==
    \A s \in Sessions : LET e == session_cache[s] IN
        e # None /\ e.expires > now /\ e.role = "admin"
            => now < last_admin[e.user] + SessionTtl + Held(s)

(* The comment on evict_user_caches: "Call after role change or user       *)
(* deletion."  With no request under way, no entry that would admit one is *)
(* of a user who is deleted or has another role.                           *)
ChangesEvict ==
    (\A c \in Calls : call[c] = Idle) =>
        \A s \in Sessions : LET e == session_cache[s] IN
            e # None /\ e.expires > now => users[e.user] # None /\ e.role = users[e.user].role

(* Once a logout has deleted the row while no other request was between    *)
(* reading it and caching it, neither the row nor the entry comes back,    *)
(* whatever lookups, extensions, cleanups and restarts follow.             *)
LogoutHolds ==
    \A s \in logged_out : sessions[s] = None /\ session_cache[s] = None
=============================================================================
