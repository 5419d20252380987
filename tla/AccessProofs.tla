---------------------------- MODULE AccessProofs ----------------------------
(***************************************************************************)
(* Proofs about users, for any number of them, of sessions, keys, logins   *)
(* and concurrent requests.  About the two ways into the gateway: how long *)
(* a right that was taken back outlives that in a cache, and what never    *)
(* comes back.  About PasswordLogin, for the specification of              *)
(* MCPasswordLogin: each user starts without an account or with a password.*)
(***************************************************************************)
EXTENDS MCAccess, MCPasswordLogin, FiniteSetTheorems, TLAPS

(* Statements on users keep the table's columns.                           *)
LEMMA StatementsOnUsers ==
    ASSUME NEW t \in [Users -> UserRow \cup {None}], NEW u \in Users
    PROVE  /\ \A hash \in Passwords, role \in {"admin", "user"} :
                create_password_user(t, u, hash, role) \in [Users -> UserRow \cup {None}]
           /\ \A hash \in Passwords : reset_password(t, u, hash) \in [Users -> UserRow \cup {None}]
           /\ \A role \in {"admin", "user"} :
                update_user_role(t, u, role) \in [Users -> UserRow \cup {None}]
           /\ disable_totp(t, u) \in [Users -> UserRow \cup {None}]
           /\ delete_user(t, u) \in [Users -> UserRow \cup {None}]
<1>1. ASSUME NEW hash \in Passwords, NEW role \in {"admin", "user"}
      PROVE  create_password_user(t, u, hash, role) \in [Users -> UserRow \cup {None}]
  BY DEF create_password_user, UserRow
<1>2. ASSUME NEW hash \in Passwords
      PROVE  reset_password(t, u, hash) \in [Users -> UserRow \cup {None}]
  BY DEF reset_password, UserRow
<1>3. ASSUME NEW role \in {"admin", "user"}
      PROVE  update_user_role(t, u, role) \in [Users -> UserRow \cup {None}]
  BY DEF update_user_role, UserRow
<1>4. disable_totp(t, u) \in [Users -> UserRow \cup {None}]
  BY DEF disable_totp, UserRow
<1>5. delete_user(t, u) \in [Users -> UserRow \cup {None}]
  BY DEF delete_user
<1> QED BY <1>1, <1>2, <1>3, <1>4, <1>5

(* Who is an administrator changes by a role alone, and the statements on  *)
(* passwords and the second factor leave it as it is.                      *)
LEMMA SameRoles ==
    ASSUME NEW t \in [Users -> UserRow \cup {None}], NEW u \in Users, NEW hash,
           NEW v \in Users
    PROVE  /\ reset_password(t, u, hash)[v] # None /\ t[v] # None =>
                reset_password(t, u, hash)[v].role = t[v].role
           /\ reset_password(t, u, hash)[v] # None => t[v] # None
           /\ disable_totp(t, u)[v] # None /\ t[v] # None =>
                disable_totp(t, u)[v].role = t[v].role
           /\ disable_totp(t, u)[v] # None => t[v] # None
BY DEF reset_password, disable_totp, UserRow

(* Statements on sessions, and evictions from their cache.                 *)
LEMMA StatementsOnSessions ==
    ASSUME AccountsTypeOK, NEW s \in Sessions, NEW u \in Users
    PROVE  /\ get_session(sessions, s) \in SessionRow \cup {None}
           /\ extend_session(sessions, s, now + SessionTtl) \in [Sessions -> SessionRow \cup {None}]
           /\ delete_session(sessions, s) \in [Sessions -> SessionRow \cup {None}]
           /\ cleanup_expired_sessions(sessions) \in [Sessions -> SessionRow \cup {None}]
           /\ CascadeSessions(sessions, u) \in [Sessions -> SessionRow \cup {None}]
           /\ EvictSessions(u) \in [Sessions -> SessionInfo \cup {None}]
<1> now + SessionTtl \in Nat
  BY AccountsAssumption DEF AccountsTypeOK
<1>1. get_session(sessions, s) \in SessionRow \cup {None}
  BY DEF get_session, AccountsTypeOK
<1>2. extend_session(sessions, s, now + SessionTtl) \in [Sessions -> SessionRow \cup {None}]
  BY DEF extend_session, AccountsTypeOK, SessionRow
<1>3. /\ delete_session(sessions, s) \in [Sessions -> SessionRow \cup {None}]
      /\ cleanup_expired_sessions(sessions) \in [Sessions -> SessionRow \cup {None}]
      /\ CascadeSessions(sessions, u) \in [Sessions -> SessionRow \cup {None}]
  BY DEF delete_session, cleanup_expired_sessions, CascadeSessions, AccountsTypeOK
<1>4. EvictSessions(u) \in [Sessions -> SessionInfo \cup {None}]
  BY DEF EvictSessions, AccountsTypeOK
<1> QED BY <1>1, <1>2, <1>3, <1>4

(* What a request of the web UI has read, by where it is.                  *)
LEMMA CallFields ==
    \A x \in SessionCalls :
        /\ x.at = "lookup" \/ x.at = "logout" => x.s \in Sessions
        /\ x.at = "user" => x.s \in Sessions /\ x.row \in SessionRow
        /\ x.at \in {"fill", "extend", "cache"} => x.s \in Sessions /\ x.info \in SessionInfo
        /\ x.at = "fill" => [x EXCEPT !.at = "extend"] = [at |-> "extend", s |-> x.s, info |-> x.info]
        /\ x.at = "handler" => x.user \in Users /\ x.role \in {"admin", "user"}
        /\ x.at \in {"demote", "reset_2fa", "evict", "open"} => x.u \in Users
        /\ x.at = "open" => x.role \in {"admin", "user"} /\ x.since \in 0..MaxTime
BY DEF SessionCalls, Idle

LEMMA CallValues ==
    /\ Idle \in SessionCalls
    /\ \A s \in Sessions, at \in {"lookup", "logout"} : [at |-> at, s |-> s] \in SessionCalls
    /\ \A s \in Sessions, row \in SessionRow : [at |-> "user", s |-> s, row |-> row] \in SessionCalls
    /\ \A s \in Sessions, info \in SessionInfo, at \in {"fill", "extend", "cache"} :
         [at |-> at, s |-> s, info |-> info] \in SessionCalls
    /\ \A info \in SessionInfo : Admitted(info) \in SessionCalls
    /\ \A u \in Users, at \in {"demote", "reset_2fa", "evict"} : [at |-> at, u |-> u] \in SessionCalls
    /\ \A u \in Users, role \in {"admin", "user"}, since \in 0..MaxTime :
         [at |-> "open", u |-> u, role |-> role, since |-> since] \in SessionCalls
BY DEF SessionCalls, Admitted, SessionInfo
(* A login has read the role before.                                       *)
LoginsPast == \A c \in Calls : call[c].at = "open" => call[c].since <= now

(* Every step of the web UI keeps the types.                               *)
LEMMA GotoTyped ==
    ASSUME SessionTypeOK, NEW c \in Calls, NEW to \in SessionCalls, Goto(c, to)
    PROVE  call' \in [Calls -> SessionCalls]
BY DEF SessionTypeOK, Goto

LEMMA TrackAdminsTyped ==
    ASSUME SessionTypeOK, now' \in 0..MaxTime, TrackAdmins
    PROVE  last_admin' \in [Users -> 0..MaxTime]
BY DEF SessionTypeOK, TrackAdmins

LEMMA CallTypeStep ==
    ASSUME SessionTypeOK, LoginsPast, NEW c \in Calls, CallStep(c)
    PROVE  SessionTypeOK'
<1> USE DEF SessionTypeOK, AccountsTypeOK
<1>1. call[c] \in SessionCalls
  OBVIOUS
<1>2. ASSUME NEW s \in Sessions, Present(c, s) PROVE SessionTypeOK'
  <2>1. (IF session_cache[s] # None /\ session_cache[s].expires > now
         THEN Admitted(session_cache[s]) ELSE [at |-> "lookup", s |-> s]) \in SessionCalls
    BY CallValues
  <2>2. call' \in [Calls -> SessionCalls]
    BY <1>2, <2>1, GotoTyped DEF Present
  <2>3. session_cache' \in [Sessions -> SessionInfo \cup {None}]
    BY <1>2 DEF Present
  <2>4. UNCHANGED <<now, users, sessions, allowed_domains, logged_out, last_admin, held>>
    BY <1>2 DEF Present
  <2> QED BY <2>2, <2>3, <2>4
<1>3. ASSUME NEW s \in Sessions, Logout(c, s) PROVE SessionTypeOK'
  <2>1. call' \in [Calls -> SessionCalls]
    BY <1>3, CallValues, GotoTyped DEF Logout
  <2> QED BY <1>3, <2>1 DEF Logout
<1>4. CASE LookupSession(c)
  <2>1. call[c].s \in Sessions
    BY <1>1, <1>4, CallFields DEF LookupSession
  <2>2. get_session(sessions, call[c].s) \in SessionRow \cup {None}
    BY <2>1 DEF get_session
  <2>3. (IF get_session(sessions, call[c].s) = None THEN Idle
         ELSE [at |-> "user", s |-> call[c].s, row |-> get_session(sessions, call[c].s)]) \in SessionCalls
    BY <2>1, <2>2, CallValues
  <2>4. call' \in [Calls -> SessionCalls]
    BY <1>4, <2>3, GotoTyped DEF LookupSession
  <2> QED BY <1>4, <2>4 DEF LookupSession
<1>5. CASE LookupUser(c)
  <2>1. call[c].s \in Sessions /\ call[c].row \in SessionRow
    BY <1>1, <1>5, CallFields DEF LookupUser
  <2>2. call[c].row.user \in Users /\ call[c].row.expires \in Nat
    BY <2>1 DEF SessionRow
  <2>3. CASE call[c].row.expires <= now
    <3>1. Goto(c, Idle) /\ sessions' = delete_session(sessions, call[c].s)
      BY <1>5, <2>3 DEF LookupUser
    <3>2. call' \in [Calls -> SessionCalls]
      BY <3>1, CallValues, GotoTyped
    <3>3. sessions' \in [Sessions -> SessionRow \cup {None}]
      BY <3>1, <2>1 DEF delete_session
    <3>4. UNCHANGED <<now, users, session_cache, allowed_domains, logged_out, last_admin, held>>
      BY <1>5 DEF LookupUser
    <3> QED BY <3>2, <3>3, <3>4
  <2>4. CASE ~(call[c].row.expires <= now)
    <3> DEFINE u == call[c].row.user
               info == SessionInfoOf(users, u, call[c].row.expires)
    <3>1. users[u] # None => info \in SessionInfo
      BY <2>2 DEF SessionInfoOf, SessionInfo, UserRow
    <3>2. (IF users[u] = None THEN Idle
           ELSE [at |-> "fill", s |-> call[c].s, info |-> info]) \in SessionCalls
      BY <2>1, <3>1, CallValues
    <3>3. Goto(c, IF users[u] = None THEN Idle ELSE [at |-> "fill", s |-> call[c].s, info |-> info])
      BY <1>5, <2>4 DEF LookupUser
    <3>4. call' \in [Calls -> SessionCalls]
      BY <3>2, <3>3, GotoTyped
    <3>5. UNCHANGED <<now, users, sessions, session_cache, allowed_domains, logged_out, last_admin,
                      held>>
      BY <1>5, <2>4 DEF LookupUser
    <3> QED BY <3>4, <3>5
  <2> QED BY <2>3, <2>4
<1>6. CASE FillSession(c)
  <2>1. call[c].s \in Sessions /\ call[c].info \in SessionInfo
    BY <1>1, <1>6, CallFields DEF FillSession
  <2>2. [call[c] EXCEPT !.at = "extend"] \in SessionCalls
    <3>1. [call[c] EXCEPT !.at = "extend"]
            = [at |-> "extend", s |-> call[c].s, info |-> call[c].info]
      BY <1>1, <1>6, CallFields DEF FillSession
    <3>2. [at |-> "extend", s |-> call[c].s, info |-> call[c].info] \in SessionCalls
      BY <2>1, CallValues
    <3> QED BY <3>1, <3>2
  <2>3. (IF now + SessionTtl \div 2 > call[c].info.expires
         THEN [call[c] EXCEPT !.at = "extend"] ELSE Admitted(call[c].info)) \in SessionCalls
    BY <2>1, <2>2, CallValues
  <2>4. call' \in [Calls -> SessionCalls]
    BY <1>6, <2>3, GotoTyped DEF FillSession
  <2> QED BY <1>6, <2>1, <2>4 DEF FillSession
<1>7. CASE ExtendSession(c)
  <2>1. call[c].s \in Sessions /\ call[c].info \in SessionInfo
    BY <1>1, <1>7, CallFields DEF ExtendSession
  <2>2. call' \in [Calls -> SessionCalls]
    BY <1>7, <2>1, CallValues, GotoTyped DEF ExtendSession
  <2>3. now + SessionTtl \in Nat
    BY AccountsAssumption
  <2>4. sessions' \in [Sessions -> SessionRow \cup {None}]
    BY <1>7, <2>1, <2>3 DEF ExtendSession, extend_session, SessionRow
  <2> QED BY <1>7, <2>2, <2>4 DEF ExtendSession
<1>8. CASE Respond(c) \/ LogoutRowFails(c) \/ DropCall(c)
  <2>1. call' \in [Calls -> SessionCalls]
    BY <1>8, CallValues, GotoTyped DEF Respond, LogoutRowFails, DropCall
  <2> QED BY <1>8, <2>1 DEF Respond, LogoutRowFails, DropCall
<1>9. CASE CountAdmins(c)
  <2>1. call[c].user \in Users
    BY <1>1, <1>9, CallFields DEF CountAdmins, AsAdmin
  <2>2. (IF count_admins(users) <= 1 THEN Idle ELSE [at |-> "demote", u |-> call[c].user]) \in SessionCalls
    BY <2>1, CallValues
  <2>3. call' \in [Calls -> SessionCalls]
    BY <1>9, <2>2, GotoTyped DEF CountAdmins
  <2> QED BY <1>9, <2>3 DEF CountAdmins
<1>10. CASE DemoteSelf(c)
  <2>1. call[c].u \in Users
    BY <1>1, <1>10, CallFields DEF DemoteSelf
  <2>2. call' \in [Calls -> SessionCalls]
    BY <1>10, CallValues, GotoTyped DEF DemoteSelf
  <2>3. users' \in [Users -> UserRow \cup {None}]
    BY <1>10, <2>1, StatementsOnUsers DEF DemoteSelf
  <2>4. last_admin' \in [Users -> 0..MaxTime]
    BY <1>10, TrackAdminsTyped DEF DemoteSelf
  <2> QED BY <1>10, <2>2, <2>3, <2>4 DEF DemoteSelf
<1>11. CASE ResetTwoFactor(c)
  <2>1. call[c].u \in Users
    BY <1>1, <1>11, CallFields DEF ResetTwoFactor
  <2>2. call' \in [Calls -> SessionCalls]
    BY <1>11, <2>1, CallValues, GotoTyped DEF ResetTwoFactor
  <2>3. users' \in [Users -> UserRow \cup {None}]
    BY <1>11, <2>1, StatementsOnUsers DEF ResetTwoFactor
  <2> QED BY <1>11, <2>2, <2>3 DEF ResetTwoFactor
<1>12. CASE EvictUser(c)
  <2>1. call' \in [Calls -> SessionCalls]
    BY <1>12, CallValues, GotoTyped DEF EvictUser
  <2>2. session_cache' \in [Sessions -> SessionInfo \cup {None}]
    BY <1>12 DEF EvictUser, EvictSessions
  <2> QED BY <1>12, <2>1, <2>2 DEF EvictUser
<1>13. CASE LogoutRow(c)
  <2>1. call[c].s \in Sessions
    BY <1>1, <1>13, CallFields DEF LogoutRow
  <2>2. call' \in [Calls -> SessionCalls]
    BY <1>13, CallValues, GotoTyped DEF LogoutRow
  <2>3. sessions' \in [Sessions -> SessionRow \cup {None}]
    BY <1>13, <2>1 DEF LogoutRow, delete_session
  <2>4. logged_out' \subseteq Sessions
    BY <1>13, <2>1 DEF LogoutRow
  <2> QED BY <1>13, <2>2, <2>3, <2>4 DEF LogoutRow
<1>14. ASSUME NEW u \in Users, NEW role \in {"admin", "user"}, UpdateRole(c, u, role)
       PROVE  SessionTypeOK'
  <2>1. call' \in [Calls -> SessionCalls]
    BY <1>14, CallValues, GotoTyped DEF UpdateRole
  <2>2. users' \in [Users -> UserRow \cup {None}]
    BY <1>14, StatementsOnUsers DEF UpdateRole
  <2>3. last_admin' \in [Users -> 0..MaxTime]
    BY <1>14, TrackAdminsTyped DEF UpdateRole
  <2> QED BY <1>14, <2>1, <2>2, <2>3 DEF UpdateRole
<1>15. ASSUME NEW u \in Users, DeleteUser(c, u) PROVE SessionTypeOK'
  <2>1. call' \in [Calls -> SessionCalls]
    BY <1>15, CallValues, GotoTyped DEF DeleteUser
  <2>2. users' \in [Users -> UserRow \cup {None}]
    BY <1>15, StatementsOnUsers DEF DeleteUser
  <2>3. sessions' \in [Sessions -> SessionRow \cup {None}]
    BY <1>15 DEF DeleteUser, CascadeSessions
  <2>4. last_admin' \in [Users -> 0..MaxTime]
    BY <1>15, TrackAdminsTyped DEF DeleteUser
  <2> QED BY <1>15, <2>1, <2>2, <2>3, <2>4 DEF DeleteUser
<1>16. ASSUME NEW u \in Users, NEW hash \in Passwords, ResetPassword(c, u, hash)
       PROVE  SessionTypeOK'
  <2>1. call' \in [Calls -> SessionCalls]
    BY <1>16, CallValues, GotoTyped DEF ResetPassword
  <2>2. users' \in [Users -> UserRow \cup {None}]
    BY <1>16, StatementsOnUsers DEF ResetPassword
  <2> QED BY <1>16, <2>1, <2>2 DEF ResetPassword
<1>17. ASSUME NEW u \in Users, NEW hash \in Passwords, NEW role \in {"admin", "user"},
              CreateUser(c, u, hash, role)
       PROVE  SessionTypeOK'
  <2>1. call' \in [Calls -> SessionCalls]
    BY <1>17, CallValues, GotoTyped DEF CreateUser
  <2>2. users' \in [Users -> UserRow \cup {None}]
    BY <1>17, StatementsOnUsers DEF CreateUser
  <2>3. last_admin' \in [Users -> 0..MaxTime]
    BY <1>17, TrackAdminsTyped DEF CreateUser
  <2> QED BY <1>17, <2>1, <2>2, <2>3 DEF CreateUser
<1>18. ASSUME NEW d \in Domains, AddDomain(c, d) \/ RemoveDomain(c, d)
       PROVE  SessionTypeOK'
  <2>1. call' \in [Calls -> SessionCalls]
    BY <1>18, CallValues, GotoTyped DEF AddDomain, RemoveDomain
  <2>2. call[c].user \in Users
    BY <1>1, <1>18, CallFields DEF AddDomain, RemoveDomain, AsAdmin
  <2>3. allowed_domains' \in [Domains -> Users \cup {None}]
    BY <1>18, <2>2 DEF AddDomain, RemoveDomain
  <2> QED BY <1>18, <2>1, <2>3 DEF AddDomain, RemoveDomain
<1>19. ASSUME NEW u \in Users, ReadRole(c, u) PROVE SessionTypeOK'
  <2>1. users[u].role \in {"admin", "user"}
    BY <1>19 DEF ReadRole, UserRow
  <2>2. [at |-> "open", u |-> u, role |-> users[u].role, since |-> now] \in SessionCalls
    BY <2>1, CallValues
  <2>3. call' \in [Calls -> SessionCalls]
    BY <1>19, <2>2, GotoTyped DEF ReadRole
  <2> QED BY <1>19, <2>3 DEF ReadRole
<1>20. ASSUME NEW s \in Sessions, OpenRow(c, s) PROVE SessionTypeOK'
  <2>1. call[c].u \in Users /\ call[c].role \in {"admin", "user"} /\ call[c].since \in 0..MaxTime
    BY <1>1, <1>20, CallFields DEF OpenRow
  <2>2. now + SessionTtl \in Nat /\ now - call[c].since \in Nat
    BY <1>20, <2>1, AccountsAssumption DEF OpenRow, LoginsPast
  <2>3. CASE users[call[c].u] = None
    <3>1. call' \in [Calls -> SessionCalls]
      BY <1>20, <2>3, CallValues, GotoTyped DEF OpenRow
    <3> QED BY <1>20, <2>3, <3>1 DEF OpenRow
  <2>4. CASE users[call[c].u] # None
    <3>1. PICK info : info = [user |-> call[c].u, role |-> call[c].role,
                              expires |-> now + SessionTtl, totp_enabled |-> FALSE]
      OBVIOUS
    <3>2. info \in SessionInfo
      BY <2>1, <2>2, <3>1 DEF SessionInfo
    <3>3. [at |-> "cache", s |-> s, info |-> info] \in SessionCalls
      BY <3>2, CallValues
    <3>4. call' \in [Calls -> SessionCalls]
      BY <1>20, <2>4, <3>1, <3>3, GotoTyped DEF OpenRow
    <3>5. sessions' \in [Sessions -> SessionRow \cup {None}]
      BY <1>20, <2>1, <2>2, <2>4 DEF OpenRow, create_session, SessionRow
    <3>6. held' \in [Sessions -> Nat \cup {None}]
      BY <1>20, <2>2, <2>4 DEF OpenRow
    <3> QED BY <1>20, <2>4, <3>4, <3>5, <3>6 DEF OpenRow
  <2> QED BY <2>3, <2>4
<1>21. CASE CacheSession(c)
  <2>1. call[c].s \in Sessions /\ call[c].info \in SessionInfo
    BY <1>1, <1>21, CallFields DEF CacheSession
  <2>2. call' \in [Calls -> SessionCalls]
    BY <1>21, CallValues, GotoTyped DEF CacheSession
  <2> QED BY <1>21, <2>1, <2>2 DEF CacheSession
<1> QED
  BY <1>2, <1>3, <1>4, <1>5, <1>6, <1>7, <1>8, <1>9, <1>10, <1>11, <1>12, <1>13, <1>14,
     <1>15, <1>16, <1>17, <1>18, <1>19, <1>20, <1>21 DEF CallStep

LEMMA SessionTypeStep ==
    ASSUME SessionTypeOK, LoginsPast, [SessionNext]_access
    PROVE  SessionTypeOK'
<1>1. ASSUME NEW c \in Calls, CallStep(c) PROVE SessionTypeOK'
  BY <1>1, CallTypeStep
<1>2. CASE CleanCache
  BY <1>2 DEF CleanCache, SessionTypeOK, AccountsTypeOK
<1>3. CASE CleanRows
  <2>1. sessions' \in [Sessions -> SessionRow \cup {None}]
    BY <1>3 DEF CleanRows, cleanup_expired_sessions, SessionTypeOK, AccountsTypeOK
  <2> QED BY <1>3, <2>1 DEF CleanRows, SessionTypeOK, AccountsTypeOK
<1>4. CASE RestartWeb
  BY <1>4, CallValues DEF RestartWeb, SessionTypeOK, AccountsTypeOK
<1>5. CASE TickWeb
  <2>1. now' \in 0..MaxTime
    BY <1>5, AccountsAssumption DEF TickWeb, SessionTypeOK, AccountsTypeOK
  <2>2. last_admin' \in [Users -> 0..MaxTime]
    BY <1>5, <2>1, TrackAdminsTyped DEF TickWeb
  <2> QED BY <1>5, <2>1, <2>2 DEF TickWeb, SessionTypeOK, AccountsTypeOK
<1>6. CASE UNCHANGED access
  BY <1>6 DEF access, SessionTypeOK, AccountsTypeOK
<1> QED BY <1>1, <1>2, <1>3, <1>4, <1>5, <1>6 DEF SessionNext
-----------------------------------------------------------------------------
(* What one step of the web UI may do to the rows of sessions, to what     *)
(* requests have read, to the cache, and to the history of administrators. *)
RowKept(s) ==
    \/ sessions'[s] = None \/ sessions'[s] = sessions[s]
    \/ now' = now /\ (sessions[s] # None \/ held[s] = None) /\ sessions'[s].expires = now + SessionTtl

(* A login has read the role of u, or opens a session with what it read.   *)
RoleRead(d) ==
    LET u == call'[d].u IN
    /\ call'[d].at = "open"
    /\ now' = now /\ users' = users /\ last_admin' = last_admin
    /\ users[u] # None /\ call'[d].role = users[u].role /\ call'[d].since = now

Opened(d) ==
    LET s == call'[d].s
        info == call'[d].info
    IN  /\ call[d].at = "open" /\ call'[d].at = "cache"
        /\ now' = now /\ last_admin' = last_admin
        /\ held[s] = None /\ held'[s] = now - call[d].since
        /\ info.user = call[d].u /\ info.role = call[d].role /\ info.expires = now + SessionTtl

ReadOf(d) ==
    \/ call'[d] = call[d]
    \/ call'[d].at \notin {"user", "fill", "extend", "open", "cache", "logout"}
    \/ RoleRead(d) \/ Opened(d)
    \/ call'[d].at = "logout" /\ Known(call'[d].s)
    \/ /\ call'[d].at = "user" /\ now' = now
       /\ sessions[call'[d].s] # None /\ call'[d].row = sessions[call'[d].s]
       /\ call'[d].s \in Sessions
    \/ /\ call[d].at = "user" /\ call'[d].at = "fill" /\ call'[d].s = call[d].s
       /\ now' = now /\ users' = users /\ last_admin' = last_admin
       /\ users[call[d].row.user] # None
       /\ call'[d].info = SessionInfoOf(users, call[d].row.user, call[d].row.expires)
    \/ /\ call[d].at = "fill" /\ call'[d].at = "extend"
       /\ call'[d].s = call[d].s /\ call'[d].info = call[d].info

EntryOf(s) ==
    \/ session_cache'[s] = None \/ session_cache'[s] = session_cache[s]
    \/ \E d \in Calls : call[d].at \in {"fill", "cache"} /\ call[d].s = s
                        /\ session_cache'[s] = call[d].info

(* An id once drawn stays drawn.                                           *)
HeldOf(s) == held'[s] = held[s] \/ held[s] = None

AdminsNoted ==
    \/ TrackAdmins /\ (now' = now \/ now' = now + 1)
    \/ /\ UNCHANGED <<now, last_admin>>
       /\ \A u \in Users : users'[u] # None =>
            users[u] # None /\ users'[u].role = users[u].role

(* A step of a request.                                                    *)
LEMMA CallDoes ==
    ASSUME SessionTypeOK, SessionTypeOK', NEW c \in Calls, CallStep(c)
    PROVE  /\ \A s \in Sessions : RowKept(s) /\ EntryOf(s) /\ HeldOf(s)
           /\ \A d \in Calls : ReadOf(d)
           /\ AdminsNoted
<1> USE DEF SessionTypeOK, AccountsTypeOK
<1> DEFINE Goal == /\ \A s \in Sessions : RowKept(s) /\ EntryOf(s) /\ HeldOf(s)
                   /\ \A d \in Calls : ReadOf(d)
                   /\ AdminsNoted
<1>1. call[c] \in SessionCalls
  OBVIOUS
<1>2. ASSUME NEW s \in Sessions, Present(c, s) PROVE Goal
  <2>1. UNCHANGED <<now, users, sessions, last_admin, held>>
    BY <1>2 DEF Present
  <2>2. \A t \in Sessions : session_cache'[t] = None \/ session_cache'[t] = session_cache[t]
    BY <1>2 DEF Present
  <2>3. \A d \in Calls : call'[d] = call[d] \/ call'[d].at \in {"handler", "lookup"}
    BY <1>2 DEF Present, Goto, Admitted
  <2> QED BY <2>1, <2>2, <2>3 DEF RowKept, EntryOf, HeldOf, ReadOf, AdminsNoted
<1>3. ASSUME NEW s \in Sessions, Logout(c, s) PROVE Goal
  <2>1. UNCHANGED <<now, users, sessions, last_admin, held>>
    BY <1>3 DEF Logout
  <2>2. \A t \in Sessions : session_cache'[t] = None \/ session_cache'[t] = session_cache[t]
    BY <1>3 DEF Logout
  <2>3. \A d \in Calls : \/ call'[d] = call[d]
                         \/ call'[d].at = "logout" /\ Known(call'[d].s)
    BY <1>3 DEF Logout, Goto
  <2> QED BY <2>1, <2>2, <2>3 DEF RowKept, EntryOf, HeldOf, ReadOf, AdminsNoted
<1>4. CASE LookupSession(c)
  <2>1. UNCHANGED <<now, users, sessions, session_cache, last_admin, held>>
    BY <1>4 DEF LookupSession
  <2>2. call[c].s \in Sessions
    BY <1>1, <1>4, CallFields DEF LookupSession
  <2>3. \A d \in Calls \ {c} : call'[d] = call[d]
    BY <1>4 DEF LookupSession, Goto
  <2>4. CASE get_session(sessions, call[c].s) = None
    <3>1. call'[c].at = "idle"
      BY <1>4, <2>4 DEF LookupSession, Goto, Idle
    <3> QED BY <2>1, <2>3, <3>1 DEF RowKept, EntryOf, HeldOf, ReadOf, AdminsNoted
  <2>5. CASE get_session(sessions, call[c].s) # None
    <3>1. call'[c] = [at |-> "user", s |-> call[c].s, row |-> get_session(sessions, call[c].s)]
      BY <1>4, <2>5 DEF LookupSession, Goto
    <3>2. sessions[call[c].s] # None /\ get_session(sessions, call[c].s) = sessions[call[c].s]
      BY <2>5 DEF get_session
    <3> QED BY <2>1, <2>2, <2>3, <3>1, <3>2 DEF RowKept, EntryOf, HeldOf, ReadOf, AdminsNoted
  <2> QED BY <2>4, <2>5
<1>5. CASE LookupUser(c)
  <2>1. UNCHANGED <<now, users, session_cache, last_admin, held>>
    BY <1>5 DEF LookupUser
  <2>2. call[c].s \in Sessions /\ call[c].row \in SessionRow /\ call[c].at = "user"
    BY <1>1, <1>5, CallFields DEF LookupUser
  <2>3. \A d \in Calls \ {c} : call'[d] = call[d]
    BY <1>5 DEF LookupUser, Goto
  <2>4. \A s \in Sessions : sessions'[s] = None \/ sessions'[s] = sessions[s]
    BY <1>5, <2>2 DEF LookupUser, delete_session
  <2>5. CASE call[c].row.expires <= now \/ users[call[c].row.user] = None
    <3>1. call'[c].at = "idle"
      BY <1>5, <2>5 DEF LookupUser, Goto, Idle
    <3> QED BY <2>1, <2>3, <2>4, <3>1 DEF RowKept, EntryOf, HeldOf, ReadOf, AdminsNoted
  <2>6. CASE ~(call[c].row.expires <= now) /\ users[call[c].row.user] # None
    <3>1. call'[c] = [at |-> "fill", s |-> call[c].s,
                      info |-> SessionInfoOf(users, call[c].row.user, call[c].row.expires)]
      BY <1>5, <2>6 DEF LookupUser, Goto
    <3> HIDE DEF SessionTypeOK, AccountsTypeOK
    <3>2. ReadOf(c)
      BY <2>1, <2>2, <2>6, <3>1 DEF ReadOf
    <3> QED BY <2>1, <2>3, <2>4, <3>2 DEF RowKept, EntryOf, HeldOf, ReadOf, AdminsNoted
  <2> QED BY <2>5, <2>6
<1>6. CASE FillSession(c)
  <2>1. UNCHANGED <<now, users, sessions, last_admin, held>>
    BY <1>6 DEF FillSession
  <2>2. call[c].s \in Sessions /\ call[c].at = "fill"
        /\ [call[c] EXCEPT !.at = "extend"]
             = [at |-> "extend", s |-> call[c].s, info |-> call[c].info]
    BY <1>1, <1>6, CallFields DEF FillSession
  <2>3. \A d \in Calls \ {c} : call'[d] = call[d]
    BY <1>6 DEF FillSession, Goto
  <2>4. \A s \in Sessions : \/ session_cache'[s] = session_cache[s]
                            \/ s = call[c].s /\ session_cache'[s] = call[c].info
    BY <1>6, <2>2 DEF FillSession
  <2>5. \/ call'[c].at = "handler"
        \/ call'[c] = [at |-> "extend", s |-> call[c].s, info |-> call[c].info]
    BY <1>6, <2>2 DEF FillSession, Goto, Admitted
  <2>6. ReadOf(c)
    BY <2>2, <2>5 DEF ReadOf
  <2> QED BY <2>1, <2>2, <2>3, <2>4, <2>6 DEF RowKept, EntryOf, HeldOf, ReadOf, AdminsNoted
<1>7. CASE ExtendSession(c)
  <2>1. UNCHANGED <<now, users, session_cache, last_admin, held>>
    BY <1>7 DEF ExtendSession
  <2>2. \A d \in Calls : call'[d] = call[d] \/ call'[d].at = "handler"
    BY <1>7 DEF ExtendSession, Goto, Admitted
  <2>3. call[c].s \in Sessions
    BY <1>1, <1>7, CallFields DEF ExtendSession
  <2>4. \A s \in Sessions : RowKept(s)
    BY <1>7, <2>1, <2>3 DEF ExtendSession, extend_session, RowKept, SessionRow
  <2> QED BY <2>1, <2>2, <2>4 DEF EntryOf, HeldOf, ReadOf, AdminsNoted
<1>8. CASE Respond(c) \/ LogoutRowFails(c) \/ DropCall(c)
  <2>1. UNCHANGED <<now, users, sessions, session_cache, last_admin, held>>
    BY <1>8 DEF Respond, LogoutRowFails, DropCall
  <2>2. \A d \in Calls : call'[d] = call[d] \/ call'[d].at = "idle"
    BY <1>8 DEF Respond, LogoutRowFails, DropCall, Goto, Idle
  <2> QED BY <2>1, <2>2 DEF RowKept, EntryOf, HeldOf, ReadOf, AdminsNoted
<1>9. CASE CountAdmins(c)
  <2>1. UNCHANGED <<now, users, sessions, session_cache, last_admin, held>>
    BY <1>9 DEF CountAdmins
  <2>2. \A d \in Calls : call'[d] = call[d] \/ call'[d].at \in {"idle", "demote"}
    BY <1>9 DEF CountAdmins, Goto, Idle
  <2> QED BY <2>1, <2>2 DEF RowKept, EntryOf, HeldOf, ReadOf, AdminsNoted
<1>10. CASE DemoteSelf(c)
  <2>1. UNCHANGED <<now, sessions, session_cache, held>> /\ TrackAdmins
    BY <1>10 DEF DemoteSelf
  <2>2. \A d \in Calls : call'[d] = call[d] \/ call'[d].at = "idle"
    BY <1>10 DEF DemoteSelf, Goto, Idle
  <2> QED BY <2>1, <2>2 DEF RowKept, EntryOf, HeldOf, ReadOf, AdminsNoted
<1>11. CASE ResetTwoFactor(c)
  <2>1. UNCHANGED <<now, sessions, session_cache, last_admin, held>>
        /\ users' = disable_totp(users, call[c].u)
    BY <1>11 DEF ResetTwoFactor
  <2>2. call[c].u \in Users
    BY <1>1, <1>11, CallFields DEF ResetTwoFactor
  <2>3. \A d \in Calls : call'[d] = call[d] \/ call'[d].at = "evict"
    BY <1>11 DEF ResetTwoFactor, Goto
  <2>4. AdminsNoted
    BY <2>1, <2>2, SameRoles DEF AdminsNoted
  <2> QED BY <2>1, <2>3, <2>4 DEF RowKept, EntryOf, HeldOf, ReadOf
<1>12. CASE EvictUser(c)
  <2>1. UNCHANGED <<now, users, sessions, last_admin, held>>
    BY <1>12 DEF EvictUser
  <2>2. \A s \in Sessions : session_cache'[s] = None \/ session_cache'[s] = session_cache[s]
    BY <1>12 DEF EvictUser, EvictSessions
  <2>3. \A d \in Calls : call'[d] = call[d] \/ call'[d].at = "idle"
    BY <1>12 DEF EvictUser, Goto, Idle
  <2> QED BY <2>1, <2>2, <2>3 DEF RowKept, EntryOf, HeldOf, ReadOf, AdminsNoted
<1>13. CASE LogoutRow(c)
  <2>1. UNCHANGED <<now, users, session_cache, last_admin, held>>
    BY <1>13 DEF LogoutRow
  <2>2. \A s \in Sessions : sessions'[s] = None \/ sessions'[s] = sessions[s]
    BY <1>13 DEF LogoutRow, delete_session
  <2>3. \A d \in Calls : call'[d] = call[d] \/ call'[d].at = "idle"
    BY <1>13 DEF LogoutRow, Goto, Idle
  <2> QED BY <2>1, <2>2, <2>3 DEF RowKept, EntryOf, HeldOf, ReadOf, AdminsNoted
<1>14. ASSUME NEW u \in Users, NEW role \in {"admin", "user"}, UpdateRole(c, u, role)
       PROVE  Goal
  <2>1. UNCHANGED <<now, sessions, session_cache, held>> /\ TrackAdmins
    BY <1>14 DEF UpdateRole
  <2>2. \A d \in Calls : call'[d] = call[d] \/ call'[d].at = "idle"
    BY <1>14 DEF UpdateRole, Goto, Idle
  <2> QED BY <2>1, <2>2 DEF RowKept, EntryOf, HeldOf, ReadOf, AdminsNoted
<1>15. ASSUME NEW u \in Users, DeleteUser(c, u) PROVE Goal
  <2>1. UNCHANGED <<now, session_cache, held>> /\ TrackAdmins
    BY <1>15 DEF DeleteUser
  <2>2. \A s \in Sessions : sessions'[s] = None \/ sessions'[s] = sessions[s]
    BY <1>15 DEF DeleteUser, CascadeSessions
  <2>3. \A d \in Calls : call'[d] = call[d] \/ call'[d].at = "idle"
    BY <1>15 DEF DeleteUser, Goto, Idle
  <2> QED BY <2>1, <2>2, <2>3 DEF RowKept, EntryOf, HeldOf, ReadOf, AdminsNoted
<1>16. ASSUME NEW u \in Users, NEW hash \in Passwords, ResetPassword(c, u, hash) PROVE Goal
  <2>1. UNCHANGED <<now, sessions, session_cache, last_admin, held>>
        /\ users' = reset_password(users, u, hash)
    BY <1>16 DEF ResetPassword
  <2>2. \A d \in Calls : call'[d] = call[d] \/ call'[d].at = "reset_2fa"
    BY <1>16 DEF ResetPassword, Goto
  <2>3. AdminsNoted
    BY <2>1, SameRoles DEF AdminsNoted
  <2> QED BY <2>1, <2>2, <2>3 DEF RowKept, EntryOf, HeldOf, ReadOf
<1>17. ASSUME NEW u \in Users, NEW hash \in Passwords, NEW role \in {"admin", "user"},
              CreateUser(c, u, hash, role)
       PROVE  Goal
  <2>1. UNCHANGED <<now, sessions, session_cache, held>> /\ TrackAdmins
    BY <1>17 DEF CreateUser
  <2>2. \A d \in Calls : call'[d] = call[d] \/ call'[d].at = "idle"
    BY <1>17 DEF CreateUser, Goto, Idle
  <2> QED BY <2>1, <2>2 DEF RowKept, EntryOf, HeldOf, ReadOf, AdminsNoted
<1>18. ASSUME NEW d \in Domains, AddDomain(c, d) \/ RemoveDomain(c, d) PROVE Goal
  <2>1. UNCHANGED <<now, users, sessions, session_cache, last_admin, held>>
    BY <1>18 DEF AddDomain, RemoveDomain
  <2>2. \A e \in Calls : call'[e] = call[e] \/ call'[e].at = "idle"
    BY <1>18 DEF AddDomain, RemoveDomain, Goto, Idle
  <2> QED BY <2>1, <2>2 DEF RowKept, EntryOf, HeldOf, ReadOf, AdminsNoted
<1>19. ASSUME NEW u \in Users, ReadRole(c, u) PROVE Goal
  <2>1. UNCHANGED <<now, users, sessions, session_cache, last_admin, held>>
    BY <1>19 DEF ReadRole
  <2>2. \A d \in Calls \ {c} : call'[d] = call[d]
    BY <1>19 DEF ReadRole, Goto
  <2>3. /\ call'[c] = [at |-> "open", u |-> u, role |-> users[u].role, since |-> now]
        /\ users[u] # None
    BY <1>19 DEF ReadRole, Goto
  <2>4. RoleRead(c)
    BY <2>1, <2>3 DEF RoleRead
  <2> QED BY <2>1, <2>2, <2>4 DEF RowKept, EntryOf, HeldOf, ReadOf, AdminsNoted
<1>20. ASSUME NEW s \in Sessions, OpenRow(c, s) PROVE Goal
  <2>1. UNCHANGED <<now, users, session_cache, last_admin>> /\ held[s] = None
    BY <1>20 DEF OpenRow
  <2>2. \A d \in Calls \ {c} : call'[d] = call[d]
    BY <1>20 DEF OpenRow, Goto
  <2>3. CASE users[call[c].u] = None
    <3>1. UNCHANGED <<sessions, held>> /\ call'[c].at = "idle"
      BY <1>20, <2>3 DEF OpenRow, Goto, Idle
    <3> QED BY <2>1, <2>2, <3>1 DEF RowKept, EntryOf, HeldOf, ReadOf, AdminsNoted
  <2>4. CASE users[call[c].u] # None
    <3>1. PICK info : info = [user |-> call[c].u, role |-> call[c].role,
                              expires |-> now + SessionTtl, totp_enabled |-> FALSE]
      OBVIOUS
    <3>2. /\ sessions' = create_session(sessions, s, call[c].u, now + SessionTtl)
          /\ held' = [held EXCEPT ![s] = now - call[c].since]
          /\ call[c].at = "open"
      BY <1>20, <2>4 DEF OpenRow
    <3>3. call'[c] = [at |-> "cache", s |-> s, info |-> info]
      BY <1>20, <2>4, <3>1 DEF OpenRow, Goto
    <3>4. Opened(c)
      BY <2>1, <3>1, <3>2, <3>3 DEF Opened
    <3>5. \A t \in Sessions : RowKept(t) /\ HeldOf(t)
      BY <2>1, <3>2 DEF RowKept, HeldOf, create_session
    <3> QED BY <2>1, <2>2, <3>4, <3>5 DEF EntryOf, ReadOf, AdminsNoted
  <2> QED BY <2>3, <2>4
<1>21. CASE CacheSession(c)
  <2>1. UNCHANGED <<now, users, sessions, last_admin, held>>
    BY <1>21 DEF CacheSession
  <2>2. call[c].s \in Sessions /\ call[c].at = "cache"
    BY <1>1, <1>21, CallFields DEF CacheSession
  <2>3. \A d \in Calls : call'[d] = call[d] \/ call'[d].at = "idle"
    BY <1>21 DEF CacheSession, Goto, Idle
  <2>4. \A s \in Sessions : EntryOf(s)
    BY <1>21, <2>2 DEF CacheSession, EntryOf
  <2> QED BY <2>1, <2>3, <2>4 DEF RowKept, HeldOf, ReadOf, AdminsNoted
<1> QED
  BY <1>2, <1>3, <1>4, <1>5, <1>6, <1>7, <1>8, <1>9, <1>10, <1>11, <1>12, <1>13, <1>14,
     <1>15, <1>16, <1>17, <1>18, <1>19, <1>20, <1>21 DEF CallStep

LEMMA SessionDoes ==
    ASSUME SessionTypeOK, SessionTypeOK', [SessionNext]_access
    PROVE  /\ \A s \in Sessions : RowKept(s) /\ EntryOf(s) /\ HeldOf(s)
           /\ \A d \in Calls : ReadOf(d)
           /\ AdminsNoted
<1> USE DEF SessionTypeOK, AccountsTypeOK, RowKept, EntryOf, HeldOf, ReadOf, AdminsNoted
<1>1. ASSUME NEW c \in Calls, CallStep(c)
      PROVE  /\ \A s \in Sessions : RowKept(s) /\ EntryOf(s) /\ HeldOf(s)
             /\ \A d \in Calls : ReadOf(d)
             /\ AdminsNoted
  BY <1>1, CallDoes
<1>2. CASE CleanCache
  BY <1>2 DEF CleanCache
<1>3. CASE CleanRows
  BY <1>3 DEF CleanRows, cleanup_expired_sessions
<1>4. CASE RestartWeb
  BY <1>4 DEF RestartWeb, Idle
<1>5. CASE TickWeb
  BY <1>5 DEF TickWeb
<1>6. CASE UNCHANGED access
  BY <1>6 DEF access
<1> QED BY <1>1, <1>2, <1>3, <1>4, <1>5, <1>6 DEF SessionNext
-----------------------------------------------------------------------------
(* The rights of a cached entry are bounded because those of everything it *)
(* may be filled from are: an administrator's entry, or what a request is  *)
(* about to cache, expires at most SessionTtl after its user was one, plus *)
(* what the login held the role; a login knows an administrator who was    *)
(* one when it read; a row, or a row read, expires at most SessionTtl from *)
(* now.                                                                    *)
RightsInv ==
    /\ \A u \in Users :
         /\ last_admin[u] <= now
         /\ users[u] # None /\ users[u].role = "admin" => last_admin[u] = now
    /\ \A s \in Sessions : sessions[s] # None => sessions[s].expires <= now + SessionTtl
    /\ \A c \in Calls :
         /\ call[c].at = "user" => call[c].row.expires <= now + SessionTtl
         /\ call[c].at = "open" /\ call[c].role = "admin" =>
              call[c].since <= last_admin[call[c].u]
         /\ call[c].at \in {"fill", "extend", "cache"} /\ call[c].info.role = "admin" =>
              call[c].info.expires <= last_admin[call[c].info.user] + SessionTtl + Held(call[c].s)
    /\ \A s \in Sessions : LET e == session_cache[s] IN
         e # None /\ e.role = "admin" => e.expires <= last_admin[e.user] + SessionTtl + Held(s)

(* Nobody reads a role in the future.                                      *)
LEMMA LoginsPastStep ==
    ASSUME SessionTypeOK, SessionTypeOK', LoginsPast, [SessionNext]_access
    PROVE  LoginsPast'
<1>1. (\A d \in Calls : ReadOf(d)) /\ AdminsNoted
  BY SessionDoes
<1>2. now \in Nat /\ now' \in Nat /\ now <= now'
  BY <1>1, AccountsAssumption DEF AdminsNoted, SessionTypeOK, AccountsTypeOK
<1>3. ASSUME NEW d \in Calls, call'[d].at = "open" PROVE call'[d].since <= now'
  <2>1. call'[d].since \in Nat
    <3>1. call'[d] \in SessionCalls
      BY DEF SessionTypeOK
    <3>2. call'[d].since \in 0..MaxTime
      BY <1>3, <3>1, CallFields
    <3> QED BY <3>2, AccountsAssumption
  <2>2. CASE call'[d] = call[d]
    BY <1>2, <1>3, <2>1, <2>2 DEF LoginsPast
  <2>3. CASE RoleRead(d)
    BY <1>2, <2>3 DEF RoleRead
  <2> QED BY <1>1, <1>3, <2>2, <2>3 DEF ReadOf, Opened
<1> QED BY <1>3 DEF LoginsPast

(* What a login held only becomes known.                                   *)
HeldThen(s) == IF held'[s] = None THEN 0 ELSE held'[s]

LEMMA HeldStep ==
    ASSUME SessionTypeOK, SessionTypeOK', NEW s \in Sessions, HeldOf(s)
    PROVE  Held(s) \in Nat /\ Held(s)' \in Nat /\ Held(s) <= Held(s)'
BY DEF Held, HeldOf, SessionTypeOK

(* The history of administrators never goes back.                          *)
LEMMA AdminsStep ==
    ASSUME SessionTypeOK, SessionTypeOK', RightsInv, AdminsNoted, NEW u \in Users
    PROVE  /\ now <= now' /\ last_admin[u] <= last_admin'[u] /\ last_admin'[u] <= now'
           /\ users'[u] # None /\ users'[u].role = "admin" => last_admin'[u] = now'
<1>1. now \in Nat /\ now' \in Nat /\ last_admin[u] \in Nat /\ last_admin'[u] \in Nat
  BY AccountsAssumption DEF SessionTypeOK, AccountsTypeOK
<1>2. last_admin[u] <= now
        /\ (users[u] # None /\ users[u].role = "admin" => last_admin[u] = now)
  BY DEF RightsInv
<1>3. CASE TrackAdmins /\ (now' = now \/ now' = now + 1)
  BY <1>1, <1>2, <1>3 DEF TrackAdmins
<1>4. CASE /\ UNCHANGED <<now, last_admin>>
           /\ users'[u] # None => users[u] # None /\ users'[u].role = users[u].role
  BY <1>1, <1>2, <1>4
<1> QED BY <1>3, <1>4 DEF AdminsNoted

LEMMA RightsStep ==
    ASSUME SessionTypeOK, SessionTypeOK', RightsInv, LoginsPast, [SessionNext]_access
    PROVE  RightsInv'
<1> USE AccountsAssumption
<1>1. /\ \A s \in Sessions : RowKept(s) /\ EntryOf(s) /\ HeldOf(s)
      /\ \A d \in Calls : ReadOf(d)
      /\ AdminsNoted
  BY SessionDoes
<1>2. \A u \in Users :
        /\ now <= now' /\ last_admin[u] <= last_admin'[u] /\ last_admin'[u] <= now'
        /\ users'[u] # None /\ users'[u].role = "admin" => last_admin'[u] = now'
  BY <1>1, AdminsStep
<1>3. now \in Nat /\ now' \in Nat /\ SessionTtl \in Nat /\ now <= now'
  BY <1>1 DEF SessionTypeOK, AccountsTypeOK, AdminsNoted
<1>4. \A u \in Users : last_admin[u] \in Nat /\ last_admin'[u] \in Nat
  BY DEF SessionTypeOK
<1>5. ASSUME NEW s \in Sessions, sessions'[s] # None
      PROVE  sessions'[s].expires <= now' + SessionTtl
  <2>1. sessions'[s].expires \in Nat
    BY <1>5 DEF SessionTypeOK, AccountsTypeOK, SessionRow
  <2>2. CASE sessions'[s] = sessions[s]
    <3>1. sessions[s].expires <= now + SessionTtl
      BY <1>5, <2>2 DEF RightsInv
    <3> QED BY <1>3, <2>1, <2>2, <3>1
  <2>3. CASE now' = now /\ sessions'[s].expires = now + SessionTtl
    BY <1>3, <2>3
  <2> QED BY <1>1, <1>5, <2>2, <2>3 DEF RowKept
<1>6. ASSUME NEW c \in Calls, call'[c].at = "user"
      PROVE  call'[c].row.expires <= now' + SessionTtl
  <2>1. call'[c].row \in SessionRow
    BY <1>6, CallFields DEF SessionTypeOK
  <2>2. call'[c].row.expires \in Nat
    BY <2>1 DEF SessionRow
  <2>3. CASE call'[c] = call[c]
    <3>1. call[c].row.expires <= now + SessionTtl
      BY <1>6, <2>3 DEF RightsInv
    <3> QED BY <1>3, <2>2, <2>3, <3>1
  <2>4. CASE /\ call'[c].s \in Sessions /\ now' = now
             /\ sessions[call'[c].s] # None /\ call'[c].row = sessions[call'[c].s]
    <3>1. sessions[call'[c].s].expires <= now + SessionTtl
      BY <2>4 DEF RightsInv
    <3> QED BY <2>4, <3>1
  <2> QED BY <1>1, <1>6, <2>3, <2>4 DEF ReadOf, RoleRead, Opened
<1>7. \A s \in Sessions : Held(s) \in Nat /\ Held(s)' \in Nat /\ Held(s) <= Held(s)'
  BY <1>1, HeldStep
<1>8. ASSUME NEW c \in Calls, call'[c].at = "open", call'[c].role = "admin"
      PROVE  call'[c].since <= last_admin'[call'[c].u]
  <2>1. call'[c].u \in Users /\ call'[c].since \in Nat
    <3>1. call'[c] \in SessionCalls
      BY DEF SessionTypeOK
    <3>2. call'[c].u \in Users /\ call'[c].since \in 0..MaxTime
      BY <1>8, <3>1, CallFields
    <3> QED BY <3>2
  <2>2. CASE call'[c] = call[c]
    <3>1. call[c].since <= last_admin[call[c].u]
      BY <1>8, <2>2 DEF RightsInv
    <3> QED BY <1>2, <1>4, <2>1, <2>2, <3>1
  <2>3. CASE RoleRead(c)
    <3>1. users[call'[c].u] # None /\ users[call'[c].u].role = "admin" /\ call'[c].since = now
            /\ last_admin' = last_admin
      BY <1>8, <2>3 DEF RoleRead
    <3>2. last_admin[call'[c].u] = now
      BY <2>1, <3>1 DEF RightsInv
    <3> QED BY <1>3, <3>1, <3>2
  <2> QED BY <1>1, <1>8, <2>2, <2>3 DEF ReadOf, Opened
<1>9. ASSUME NEW c \in Calls, call'[c].at \in {"fill", "extend", "cache"},
             call'[c].info.role = "admin"
      PROVE  call'[c].info.expires
               <= last_admin'[call'[c].info.user] + SessionTtl + HeldThen(call'[c].s)
  <2>1. call'[c].info \in SessionInfo /\ call'[c].s \in Sessions
    BY <1>9, CallFields DEF SessionTypeOK
  <2>2. PICK u, s, t : u = call'[c].info.user /\ s = call'[c].s /\ t = call'[c].info.expires
    OBVIOUS
  <2>3. u \in Users /\ s \in Sessions /\ t \in Nat
    BY <2>1, <2>2 DEF SessionInfo
  <2>4. /\ last_admin[u] \in Nat /\ last_admin'[u] \in Nat /\ last_admin[u] <= last_admin'[u]
        /\ Held(s) \in Nat /\ Held(s)' \in Nat /\ Held(s) <= Held(s)'
    BY <1>2, <1>4, <1>7, <2>3
  <2>5. CASE call[c].at \in {"fill", "extend", "cache"} /\ call'[c].info = call[c].info
             /\ call'[c].s = call[c].s
    <3>1. t <= last_admin[u] + SessionTtl + Held(s)
      BY <1>9, <2>2, <2>5 DEF RightsInv
    <3>2. t <= last_admin'[u] + SessionTtl + Held(s)'
      BY <1>3, <2>3, <2>4, <3>1
    <3> QED BY <2>2, <3>2 DEF Held, HeldThen
  <2>6. CASE /\ call[c].at = "user" /\ now' = now /\ last_admin' = last_admin
             /\ users[call[c].row.user] # None
             /\ call'[c].info = SessionInfoOf(users, call[c].row.user, call[c].row.expires)
    <3>1. u = call[c].row.user /\ t = call[c].row.expires
            /\ users[u] # None /\ users[u].role = "admin"
      BY <1>9, <2>2, <2>6 DEF SessionInfoOf
    <3>2. last_admin[u] = now
      BY <2>3, <3>1 DEF RightsInv
    <3>3. t <= now + SessionTtl
      BY <2>6, <3>1 DEF RightsInv
    <3>4. last_admin'[u] = now
      BY <2>6, <3>2
    <3>5. t <= last_admin'[u] + SessionTtl + Held(s)'
      BY <1>3, <2>3, <2>4, <3>3, <3>4
    <3> QED BY <2>2, <3>5 DEF Held, HeldThen
  <2>7. CASE Opened(c)
    <3>1. /\ call[c].at = "open" /\ last_admin' = last_admin
          /\ held[s] = None /\ held'[s] = now - call[c].since
          /\ u = call[c].u /\ call[c].role = "admin" /\ t = now + SessionTtl
      BY <1>9, <2>2, <2>7 DEF Opened
    <3>2. call[c].since \in Nat
      <4>1. call[c] \in SessionCalls
        BY DEF SessionTypeOK
      <4>2. call[c].since \in 0..MaxTime
        BY <3>1, <4>1, CallFields
      <4> QED BY <4>2
    <3>3. call[c].since <= last_admin'[u]
      BY <3>1 DEF RightsInv
    <3>4. call[c].since <= now
      BY <3>1 DEF LoginsPast
    <3>5. held'[s] \in Nat
      BY <1>3, <3>1, <3>2, <3>4
    <3>6. Held(s)' = now - call[c].since
      BY <3>1, <3>5 DEF Held
    <3>7. t <= last_admin'[u] + SessionTtl + Held(s)'
      BY <1>3, <2>3, <2>4, <3>1, <3>2, <3>3, <3>6
    <3> QED BY <2>2, <3>7 DEF Held, HeldThen
  <2>8. ReadOf(c)
    BY <1>1
  <2> QED BY <1>9, <2>5, <2>6, <2>7, <2>8 DEF ReadOf, RoleRead
<1>10. ASSUME NEW s \in Sessions, session_cache'[s] # None, session_cache'[s].role = "admin"
       PROVE  session_cache'[s].expires
                <= last_admin'[session_cache'[s].user] + SessionTtl + Held(s)'
  <2>1. PICK e : e = session_cache'[s]
    OBVIOUS
  <2>2. e.expires \in Nat /\ e.user \in Users
    BY <1>10, <2>1 DEF SessionTypeOK, AccountsTypeOK, SessionInfo
  <2>3. e.expires <= last_admin[e.user] + SessionTtl + Held(s)
    <3>1. CASE e = session_cache[s]
      BY <1>10, <2>1, <3>1 DEF RightsInv
    <3>2. ASSUME NEW d \in Calls, call[d].at \in {"fill", "cache"}, call[d].s = s,
                 e = call[d].info
          PROVE  e.expires <= last_admin[e.user] + SessionTtl + Held(s)
      BY <1>10, <2>1, <3>2 DEF RightsInv
    <3> QED BY <1>1, <1>10, <2>1, <3>1, <3>2 DEF EntryOf
  <2>4. /\ last_admin[e.user] \in Nat /\ last_admin'[e.user] \in Nat
        /\ last_admin[e.user] <= last_admin'[e.user]
        /\ Held(s) \in Nat /\ Held(s)' \in Nat /\ Held(s) <= Held(s)'
    BY <1>2, <1>4, <1>7, <2>2
  <2>5. e.expires <= last_admin'[e.user] + SessionTtl + Held(s)'
    BY <1>3, <2>2, <2>3, <2>4
  <2> QED BY <2>1, <2>5
<1> QED BY <1>2, <1>5, <1>6, <1>8, <1>9, <1>10 DEF RightsInv, Held, HeldThen

(* A client's session stays known: no login draws its id again.            *)
LEMMA KnownStays ==
    ASSUME NEW s \in Sessions, Known(s), HeldOf(s), \A d \in Calls : ReadOf(d)
    PROVE  Known(s)'
<1>1. held[s] # None /\ \A d \in Calls : ~(call[d].at = "cache" /\ call[d].s = s)
  BY DEF Known
<1>2. ASSUME NEW d \in Calls, call'[d].at = "cache", call'[d].s = s PROVE FALSE
  BY <1>1, <1>2 DEF ReadOf, RoleRead, Opened
<1> QED BY <1>1, <1>2 DEF Known, HeldOf

(* A session that was logged out does not come back, because nobody holds  *)
(* its row or its entry, and no login is going to cache it.                *)
LogoutInv ==
    /\ \A s \in logged_out :
          /\ sessions[s] = None /\ session_cache[s] = None
          /\ Known(s)
          /\ \A d \in Calls : ~HalfWayIn(d, s)
    /\ \A d \in Calls, s \in Sessions : call[d].at = "logout" /\ s = call[d].s => Known(s)

LEMMA LogoutStep ==
    ASSUME SessionTypeOK, SessionTypeOK', LogoutInv, [SessionNext]_access
    PROVE  LogoutInv'
<1>1. /\ \A s \in Sessions : RowKept(s) /\ EntryOf(s) /\ HeldOf(s)
      /\ \A d \in Calls : ReadOf(d)
  BY SessionDoes
<1>2. ASSUME NEW s \in logged_out
      PROVE  /\ sessions'[s] = None /\ session_cache'[s] = None
             /\ Known(s)'
             /\ \A d \in Calls : ~(HalfWayIn(d, s)')
  <2>1. s \in Sessions
    BY DEF SessionTypeOK
  <2>2. /\ sessions[s] = None /\ session_cache[s] = None /\ Known(s)
        /\ \A d \in Calls : ~(call[d].at \in {"user", "fill"} /\ call[d].s = s)
    BY DEF LogoutInv, HalfWayIn
  <2>3. sessions'[s] = None
    BY <1>1, <2>1, <2>2 DEF RowKept, Known
  <2>4. session_cache'[s] = None
    BY <1>1, <2>1, <2>2 DEF EntryOf, Known
  <2>5. ASSUME NEW d \in Calls, call'[d].at \in {"user", "fill"}, call'[d].s = s
        PROVE  FALSE
    BY <1>1, <2>2, <2>5 DEF ReadOf, RoleRead, Opened
  <2>6. Known(s)'
    BY <1>1, <2>1, <2>2, KnownStays
  <2> QED BY <2>3, <2>4, <2>5, <2>6 DEF HalfWayIn
<1>6. ASSUME NEW d \in Calls, NEW s \in Sessions, call'[d].at = "logout", s = call'[d].s
      PROVE  Known(s)'
  <2>1. Known(s)
    BY <1>1, <1>6 DEF ReadOf, RoleRead, Opened, LogoutInv
  <2> QED BY <1>1, <2>1, KnownStays
<1>3. CASE logged_out' = logged_out
  BY <1>2, <1>3, <1>6 DEF LogoutInv
<1>4. ASSUME NEW c \in Calls, LogoutRow(c) PROVE LogoutInv'
  <2>1. call[c].at = "logout" /\ call[c] \in SessionCalls
    BY <1>4 DEF LogoutRow, SessionTypeOK
  <2>2. PICK s \in Sessions : s = call[c].s
    BY <2>1, CallFields
  <2>3. ASSUME s \in logged_out', s \notin logged_out
        PROVE  /\ sessions'[s] = None /\ session_cache'[s] = None
               /\ Known(s)'
               /\ \A d \in Calls : ~(HalfWayIn(d, s)')
    <3>1. session_cache[s] = None /\ \A d \in Calls : ~HalfWayIn(d, s)
      BY <1>4, <2>2, <2>3 DEF LogoutRow
    <3>2. sessions'[s] = None /\ session_cache'[s] = None
      BY <1>4, <2>2, <3>1 DEF LogoutRow, delete_session, SessionTypeOK, AccountsTypeOK
    <3>3. \A d \in Calls : call'[d] = call[d] \/ call'[d].at = "idle"
      BY <1>4 DEF LogoutRow, Goto, Idle, SessionTypeOK
    <3>4. Known(s)'
      BY <1>1, <2>1, <2>2, KnownStays DEF LogoutInv
    <3> QED BY <3>1, <3>2, <3>3, <3>4 DEF HalfWayIn
  <2>4. logged_out' \subseteq logged_out \cup {s}
    BY <1>4, <2>2 DEF LogoutRow
  <2> QED BY <1>2, <1>6, <2>3, <2>4 DEF LogoutInv
<1>5. [\E c \in Calls : LogoutRow(c)]_logged_out
  <2>1. ASSUME NEW c \in Calls, CallStep(c) PROVE [LogoutRow(c)]_logged_out
    <3>1. ASSUME NEW s \in Sessions, OpenRow(c, s) PROVE logged_out' = logged_out
      BY <3>1 DEF OpenRow
    <3> QED
      BY <2>1, <3>1
      DEF CallStep, Present, Logout, LookupSession, LookupUser, FillSession, ExtendSession, Respond,
          CountAdmins, DemoteSelf, ResetTwoFactor, EvictUser, LogoutRowFails, DropCall,
          UpdateRole, DeleteUser, ResetPassword, CreateUser, AddDomain, RemoveDomain,
          ReadRole, CacheSession
  <2> QED BY <2>1 DEF SessionNext, access, CleanCache, CleanRows, RestartWeb, TickWeb
<1> QED BY <1>3, <1>4, <1>5
-----------------------------------------------------------------------------
(* What a request of an API client, or of a page about keys, has read.     *)
LEMMA ClientFields ==
    \A x \in ClientStages :
        /\ x.at \in {"lookup", "cache"} => x.k \in Keys
        /\ x.at \in {"cache", "token", "cache_token", "served"} => x.u \in Users
        /\ x.at \in {"cache_token", "served"} => x.token \in 1..MaxTokens
        /\ x.at = "cache_token" =>
             [x EXCEPT !.at = "served"] = [at |-> "served", u |-> x.u, token |-> x.token]
BY DEF ClientStages, AtRest

LEMMA ClientValues ==
    /\ AtRest \in ClientStages
    /\ \A k \in Keys : [at |-> "lookup", k |-> k] \in ClientStages
    /\ \A k \in Keys, u \in Users : [at |-> "cache", k |-> k, u |-> u] \in ClientStages
    /\ \A u \in Users : [at |-> "token", u |-> u] \in ClientStages
    /\ \A u \in Users, n \in 1..MaxTokens, at \in {"cache_token", "served"} :
         [at |-> at, u |-> u, token |-> n] \in ClientStages
BY DEF ClientStages

LEMMA PageFields ==
    \A x \in PageStages :
        /\ x.at \in {"insert", "register", "poll"} => x.u \in Users
        /\ x.at = "evict" => x.k \in Keys
BY DEF PageStages, AtRest

LEMMA PageValues ==
    /\ AtRest \in PageStages
    /\ \A u \in Users, at \in {"insert", "register", "poll"} : [at |-> at, u |-> u] \in PageStages
    /\ \A k \in Keys : [at |-> "evict", k |-> k] \in PageStages
BY DEF PageStages

LEMMA ClientTyped ==
    ASSUME KeyTypeOK, NEW c \in Clients, NEW to \in ClientStages, ClientGoto(c, to)
    PROVE  client' \in [Clients -> ClientStages]
BY DEF KeyTypeOK, ClientGoto

LEMMA PageTyped ==
    ASSUME KeyTypeOK, NEW p \in Pages, NEW to \in PageStages, PageGoto(p, to)
    PROVE  page' \in [Pages -> PageStages]
BY DEF KeyTypeOK, PageGoto

(* The statements on Kiro tokens keep the columns.                         *)
LEMMA StatementsOnTokens ==
    ASSUME kiro_tokens \in [Users -> KiroRow \cup {None}], NEW u \in Users,
           NEW refresh \in BOOLEAN, NEW access_token \in 1..MaxTokens, NEW expiry \in Nat
    PROVE  /\ upsert_kiro_token(u, refresh, access_token, expiry) \in [Users -> KiroRow \cup {None}]
           /\ clear_user_oauth_client(u) \in [Users -> KiroRow \cup {None}]
           /\ upsert_user_oauth_client(u) \in [Users -> KiroRow \cup {None}]
           /\ mark_kiro_token_expired(u) \in [Users -> KiroRow \cup {None}]
<1>1. upsert_kiro_token(u, refresh, access_token, expiry) \in [Users -> KiroRow \cup {None}]
  BY DEF upsert_kiro_token, KiroRow
<1>2. clear_user_oauth_client(u) \in [Users -> KiroRow \cup {None}]
  BY DEF clear_user_oauth_client, KiroRow
<1>3. upsert_user_oauth_client(u) \in [Users -> KiroRow \cup {None}]
  BY DEF upsert_user_oauth_client, KiroRow
<1>4. mark_kiro_token_expired(u) \in [Users -> KiroRow \cup {None}]
  BY DEF mark_kiro_token_expired, KiroRow
<1> QED BY <1>1, <1>2, <1>3, <1>4

LEMMA TrackTokensTyped ==
    ASSUME KeyTypeOK, AccountsTypeOK, TrackTokens
    PROVE  left' \in [1..MaxTokens -> Nat \cup {None}]
BY AccountsAssumption DEF KeyTypeOK, AccountsTypeOK, TrackTokens
(* Every step about keys and Kiro tokens keeps the types.                  *)
LEMMA ClientTypeStep ==
    ASSUME KeyTypeOK, AccountsTypeOK, NEW c \in Clients, ClientStep(c)
    PROVE  KeyTypeOK'
<1> USE DEF KeyTypeOK
<1>1. client[c] \in ClientStages
  OBVIOUS
<1>2. ASSUME NEW k \in Keys, PresentKey(c, k) PROVE KeyTypeOK'
  <2>1. (IF api_key_cache[k] # None THEN [at |-> "token", u |-> api_key_cache[k]]
         ELSE [at |-> "lookup", k |-> k]) \in ClientStages
    BY ClientValues
  <2>2. client' \in [Clients -> ClientStages]
    BY <1>2, <2>1, ClientTyped DEF PresentKey
  <2> QED BY <1>2, <2>2 DEF PresentKey
<1>3. CASE LookupKey(c)
  <2>1. client[c].k \in Keys
    BY <1>1, <1>3, ClientFields DEF LookupKey
  <2>2. (IF get_api_key_by_hash(client[c].k) = None THEN AtRest
         ELSE [at |-> "cache", k |-> client[c].k, u |-> get_api_key_by_hash(client[c].k)])
          \in ClientStages
    BY <2>1, ClientValues DEF get_api_key_by_hash
  <2>3. client' \in [Clients -> ClientStages]
    BY <1>3, <2>2, ClientTyped DEF LookupKey
  <2> QED BY <1>3, <2>3 DEF LookupKey
<1>4. CASE CacheKey(c)
  <2>1. client[c].k \in Keys /\ client[c].u \in Users
    BY <1>1, <1>4, ClientFields DEF CacheKey
  <2>2. client' \in [Clients -> ClientStages]
    BY <1>4, <2>1, ClientValues, ClientTyped DEF CacheKey
  <2>3. api_key_cache' \in [Keys -> Users \cup {None}]
    BY <1>4, <2>1 DEF CacheKey
  <2> QED BY <1>4, <2>2, <2>3 DEF CacheKey
<1>5. CASE FindToken(c)
  <2>1. client[c].u \in Users
    BY <1>1, <1>5, ClientFields DEF FindToken
  <2> DEFINE u == client[c].u
             e == kiro_token_cache[u]
             row == get_kiro_token(u)
  <2>2. /\ TokenLive(e) => e.token \in 1..MaxTokens
        /\ row # None /\ row.access # None => row.access \in 1..MaxTokens
    BY <2>1 DEF TokenLive, get_kiro_token, KiroRow
  <2>3. (IF TokenLive(e) THEN [at |-> "served", u |-> u, token |-> e.token]
         ELSE IF row = None THEN AtRest
         ELSE IF row.access = None THEN AtRest
         ELSE [at |-> "cache_token", u |-> u, token |-> row.access]) \in ClientStages
    <3>1. ASSUME NEW n \in 1..MaxTokens
          PROVE  /\ [at |-> "served", u |-> u, token |-> n] \in ClientStages
                 /\ [at |-> "cache_token", u |-> u, token |-> n] \in ClientStages
      BY <2>1, ClientValues
    <3> QED BY <2>2, <3>1, ClientValues
  <2>4. client' \in [Clients -> ClientStages]
    BY <1>5, <2>3, ClientTyped DEF FindToken
  <2> QED BY <1>5, <2>4 DEF FindToken
<1>6. CASE CacheToken(c)
  <2>1. client[c].u \in Users /\ client[c].token \in 1..MaxTokens
        /\ [client[c] EXCEPT !.at = "served"]
             = [at |-> "served", u |-> client[c].u, token |-> client[c].token]
    BY <1>1, <1>6, ClientFields DEF CacheToken
  <2>2. [at |-> "served", u |-> client[c].u, token |-> client[c].token] \in ClientStages
    BY <2>1, ClientValues
  <2>3. client' \in [Clients -> ClientStages]
    BY <1>6, <2>1, <2>2, ClientTyped DEF CacheToken
  <2>4. now \in Nat
    BY AccountsAssumption DEF AccountsTypeOK
  <2>5. kiro_token_cache' \in [Users -> [token : 1..MaxTokens, at : Nat] \cup {None}]
    BY <1>6, <2>1, <2>4 DEF CacheToken
  <2> QED BY <1>6, <2>3, <2>5 DEF CacheToken
<1>7. CASE ClientDone(c)
  <2>1. client' \in [Clients -> ClientStages]
    BY <1>7, ClientValues, ClientTyped DEF ClientDone
  <2> QED BY <1>7, <2>1 DEF ClientDone
<1> QED BY <1>2, <1>3, <1>4, <1>5, <1>6, <1>7 DEF ClientStep

LEMMA PageTypeStep ==
    ASSUME KeyTypeOK, AccountsTypeOK, NEW p \in Pages, PageStep(p), now' = now
    PROVE  KeyTypeOK'
<1> USE KeyAccessAssumption DEF KeyTypeOK
<1>1. page[p] \in PageStages /\ now \in Nat
  BY AccountsAssumption DEF AccountsTypeOK
<1>2. ASSUME NEW u \in Users, CountKeys(p, u) \/ KiroPoll(p, u) PROVE KeyTypeOK'
  <2>1. [at |-> "insert", u |-> u] \in PageStages /\ [at |-> "poll", u |-> u] \in PageStages
    BY PageValues
  <2>2. page' \in [Pages -> PageStages]
    BY <1>2, <2>1, PageTyped DEF CountKeys, KiroPoll
  <2> QED BY <1>2, <2>2 DEF CountKeys, KiroPoll
<1>3. CASE insert_api_key(p)
  <2>1. page[p].u \in Users
    BY <1>1, <1>3, PageFields DEF insert_api_key
  <2>2. page' \in [Pages -> PageStages]
    BY <1>3, PageValues, PageTyped DEF insert_api_key
  <2>3. drawn' \in 0..MaxDrawn
    BY <1>3 DEF insert_api_key
  <2>4. api_keys' \in [Keys -> Users \cup {None}]
    BY <1>3, <2>1 DEF insert_api_key
  <2> QED BY <1>3, <2>2, <2>3, <2>4 DEF insert_api_key
<1>4. ASSUME NEW k \in Keys, RevokeKey(p, k) PROVE KeyTypeOK'
  <2>1. page' \in [Pages -> PageStages]
    BY <1>4, PageValues, PageTyped DEF RevokeKey
  <2> QED BY <1>4, <2>1 DEF RevokeKey
<1>5. CASE EvictKey(p)
  <2>1. page[p].k \in Keys
    BY <1>1, <1>5, PageFields DEF EvictKey
  <2>2. page' \in [Pages -> PageStages]
    BY <1>5, PageValues, PageTyped DEF EvictKey
  <2> QED BY <1>5, <2>1, <2>2 DEF EvictKey, NotedRevoked
<1>6. ASSUME NEW u \in Users, KiroSetup(p, u) PROVE KeyTypeOK'
  <2>1. page' \in [Pages -> PageStages]
    <3>1. [at |-> "register", u |-> u] \in PageStages
      BY PageValues
    <3> QED BY <1>6, <3>1, PageTyped DEF KiroSetup
  <2>2. kiro_tokens' \in [Users -> KiroRow \cup {None}]
    BY <1>6 DEF KiroSetup, clear_user_oauth_client, KiroRow
  <2>3. left' \in [1..MaxTokens -> Nat \cup {None}]
    BY <1>6, TrackTokensTyped DEF KiroSetup
  <2> QED BY <1>6, <2>1, <2>2, <2>3 DEF KiroSetup
<1>7. CASE KiroRegistered(p)
  <2>1. page[p].u \in Users
    BY <1>1, <1>7, PageFields DEF KiroRegistered
  <2>2. page' \in [Pages -> PageStages]
    BY <1>7, PageValues, PageTyped DEF KiroRegistered
  <2>3. kiro_tokens' \in [Users -> KiroRow \cup {None}]
    BY <1>7, <2>1, ZenonT(60) DEF KiroRegistered, upsert_user_oauth_client, KiroRow
  <2>4. left' \in [1..MaxTokens -> Nat \cup {None}]
    BY <1>7, TrackTokensTyped DEF KiroRegistered
  <2> QED BY <1>7, <2>2, <2>3, <2>4 DEF KiroRegistered
<1>8. ASSUME NEW refresh \in BOOLEAN, KiroGranted(p, refresh) PROVE KeyTypeOK'
  <2>1. page[p].u \in Users
    BY <1>1, <1>8, PageFields DEF KiroGranted
  <2>2. page' \in [Pages -> PageStages]
    BY <1>8, PageValues, PageTyped DEF KiroGranted
  <2>3. issued' \in 1..MaxTokens /\ now + RefreshAhead \in Nat
    BY <1>1, <1>8 DEF KiroGranted
  <2>4. kiro_tokens' \in [Users -> KiroRow \cup {None}]
    BY <1>8, <2>1, <2>3, StatementsOnTokens DEF KiroGranted
  <2>5. left' \in [1..MaxTokens -> Nat \cup {None}]
    BY <1>8, TrackTokensTyped DEF KiroGranted
  <2> QED BY <1>8, <2>2, <2>3, <2>4, <2>5 DEF KiroGranted
<1>9. ASSUME NEW u \in Users, KiroDelete(p, u) PROVE KeyTypeOK'
  <2>1. left' \in [1..MaxTokens -> Nat \cup {None}]
    BY <1>9, TrackTokensTyped DEF KiroDelete
  <2> QED BY <1>9, <2>1 DEF KiroDelete
<1>10. CASE PageDone(p)
  <2>1. page' \in [Pages -> PageStages]
    BY <1>10, PageValues, PageTyped DEF PageDone
  <2> QED BY <1>10, <2>1 DEF PageDone
<1> QED
  BY <1>2, <1>3, <1>4, <1>5, <1>6, <1>7, <1>8, <1>9, <1>10 DEF PageStep

table == <<now, users, sessions, session_cache, allowed_domains>>

LEMMA KeyTypeStep ==
    ASSUME KeyTypeOK, AccountsTypeOK, [KeyNext]_<<table, keyvars>>
    PROVE  KeyTypeOK' /\ AccountsTypeOK'
<1> USE KeyAccessAssumption DEF KeyTypeOK
<1>1. now \in Nat
  BY AccountsAssumption DEF AccountsTypeOK
<1>2. ASSUME NEW c \in Clients, ClientStep(c) PROVE KeyTypeOK'
  BY <1>2, ClientTypeStep
<1>3. ASSUME NEW p \in Pages, PageStep(p), now' = now PROVE KeyTypeOK'
  BY <1>3, PageTypeStep
<1>4. ASSUME RefreshScan PROVE KeyTypeOK'
  BY <1>4 DEF RefreshScan, get_expiring_kiro_tokens_with_oauth
<1>5. ASSUME NEW u \in Users, RefreshGranted(u) PROVE KeyTypeOK'
  <2>1. issued' \in 1..MaxTokens /\ now + RefreshAhead \in Nat
    BY <1>1, <1>5 DEF RefreshGranted
  <2>2. kiro_tokens' \in [Users -> KiroRow \cup {None}]
    BY <1>5, <2>1, StatementsOnTokens DEF RefreshGranted
  <2>3. left' \in [1..MaxTokens -> Nat \cup {None}]
    BY <1>5, TrackTokensTyped DEF RefreshGranted
  <2>4. refresher' \in SUBSET Users /\ issued' \in 0..MaxTokens
    BY <1>5, <2>1 DEF RefreshGranted
  <2>5. UNCHANGED <<api_keys, api_key_cache, kiro_token_cache, drawn, client, page, revoked>>
    BY <1>5 DEF RefreshGranted
  <2> QED BY <2>2, <2>3, <2>4, <2>5
<1>6. ASSUME NEW u \in Users, RefreshRefused(u) PROVE KeyTypeOK'
  <2>1. kiro_tokens' \in [Users -> KiroRow \cup {None}]
    BY <1>6, ZenonT(60) DEF RefreshRefused, mark_kiro_token_expired, KiroRow
  <2>2. left' \in [1..MaxTokens -> Nat \cup {None}]
    BY <1>6, TrackTokensTyped DEF RefreshRefused
  <2> QED BY <1>6, <2>1, <2>2 DEF RefreshRefused
<1>7. ASSUME NEW u \in Users, RefreshSkipped(u) PROVE KeyTypeOK'
  BY <1>7 DEF RefreshSkipped
<1>8. ASSUME NEW u \in Users, EvictKeyOwner(u) PROVE KeyTypeOK'
  BY <1>8 DEF EvictKeyOwner
<1>9. ASSUME RestartKeys PROVE KeyTypeOK'
  BY <1>9, ClientValues, PageValues DEF RestartKeys
<1>10. ASSUME KeyStep, UNCHANGED table PROVE KeyTypeOK' /\ AccountsTypeOK'
  <2>1. AccountsTypeOK' /\ now' = now
    BY <1>10 DEF table, AccountsTypeOK
  <2> QED BY <1>2, <1>3, <1>4, <1>5, <1>6, <1>7, <1>8, <1>9, <1>10, <2>1 DEF KeyStep
<1>11. ASSUME NEW u \in Users, DeleteKeyOwner(u) PROVE KeyTypeOK' /\ AccountsTypeOK'
  <2>1. AccountsTypeOK'
    BY <1>11 DEF DeleteKeyOwner, delete_user, AccountsTypeOK
  <2>2. left' \in [1..MaxTokens -> Nat \cup {None}]
    BY <1>11, TrackTokensTyped DEF DeleteKeyOwner
  <2>3. kiro_tokens' \in [Users -> KiroRow \cup {None}] /\ api_keys' \in [Keys -> Users \cup {None}]
    BY <1>11 DEF DeleteKeyOwner
  <2> QED BY <1>11, <2>1, <2>2, <2>3 DEF DeleteKeyOwner
<1>12. ASSUME TickKeys PROVE KeyTypeOK' /\ AccountsTypeOK'
  <2>1. now' \in 0..MaxTime
    BY <1>1, <1>12, AccountsAssumption DEF TickKeys, AccountsTypeOK
  <2> QED BY <1>12, <2>1 DEF TickKeys, keyvars, AccountsTypeOK
<1>13. CASE UNCHANGED <<table, keyvars>>
  BY <1>13 DEF table, keyvars, AccountsTypeOK
<1> QED BY <1>10, <1>11, <1>12, <1>13 DEF KeyNext, table
-----------------------------------------------------------------------------
(* What one step may do to the rows and cached entries of keys, and to     *)
(* what those who move them have read.                                     *)
KeyRowOf(k) ==
    \/ api_keys'[k] = None \/ api_keys'[k] = api_keys[k]
    \/ k = drawn + 1 /\ drawn' = drawn + 1

KeyEntryOf(k) ==
    \/ api_key_cache'[k] = None \/ api_key_cache'[k] = api_key_cache[k]
    \/ \E c \in Clients : Caching(c, k)

KeyReadBy(c) ==
    \/ client'[c] = client[c]
    \/ client'[c].at # "cache"
    \/ client'[c].k \in Keys /\ api_keys[client'[c].k] # None

KeyGoneFor(p) ==
    \/ page'[p] = page[p]
    \/ page'[p].at # "evict"
    \/ /\ page'[p].k \in Keys
       /\ api_keys[page'[p].k] # None /\ api_keys'[page'[p].k] = None

RevocationNoted ==
    \/ revoked' = revoked
    \/ \E p \in Pages : EvictKey(p)

LEMMA KeyDoes ==
    ASSUME KeyTypeOK, [KeyNext]_<<table, keyvars>>
    PROVE  /\ \A k \in Keys : KeyRowOf(k) /\ KeyEntryOf(k)
           /\ \A c \in Clients : KeyReadBy(c)
           /\ \A p \in Pages : KeyGoneFor(p)
           /\ RevocationNoted
           /\ drawn' = drawn \/ drawn' = drawn + 1
<1> USE KeyAccessAssumption DEF KeyTypeOK
<1> DEFINE Goal == /\ \A k \in Keys : KeyRowOf(k) /\ KeyEntryOf(k)
                   /\ \A c \in Clients : KeyReadBy(c)
                   /\ \A p \in Pages : KeyGoneFor(p)
                   /\ RevocationNoted
                   /\ drawn' = drawn \/ drawn' = drawn + 1
<1>1. ASSUME UNCHANGED <<api_keys, api_key_cache, revoked, drawn>>,
             \A c \in Clients : KeyReadBy(c), \A p \in Pages : KeyGoneFor(p)
      PROVE  Goal
  BY <1>1 DEF KeyRowOf, KeyEntryOf, RevocationNoted
<1>2. client' = client => \A c \in Clients : KeyReadBy(c)
  BY DEF KeyReadBy
<1>3. page' = page => \A p \in Pages : KeyGoneFor(p)
  BY DEF KeyGoneFor
<1>4. ASSUME NEW c \in Clients, NEW k \in Keys, PresentKey(c, k) PROVE Goal
  <2>1. UNCHANGED <<api_keys, api_key_cache, revoked, drawn, page>>
    BY <1>4 DEF PresentKey
  <2>2. \A d \in Clients : client'[d] = client[d] \/ client'[d].at \in {"token", "lookup"}
    BY <1>4 DEF PresentKey, ClientGoto
  <2> QED BY <1>1, <1>3, <2>1, <2>2 DEF KeyReadBy
<1>5. ASSUME NEW c \in Clients, LookupKey(c) PROVE Goal
  <2>1. UNCHANGED <<api_keys, api_key_cache, revoked, drawn, page>>
    BY <1>5 DEF LookupKey
  <2>2. client[c].k \in Keys
    BY <1>5, ClientFields DEF LookupKey
  <2>3. \A d \in Clients \ {c} : client'[d] = client[d]
    BY <1>5 DEF LookupKey, ClientGoto
  <2>4. CASE api_keys[client[c].k] = None
    <3>1. client'[c].at = "idle"
      BY <1>5, <2>4 DEF LookupKey, ClientGoto, get_api_key_by_hash, AtRest
    <3> QED BY <1>1, <1>3, <2>1, <2>3, <3>1 DEF KeyReadBy
  <2>5. CASE api_keys[client[c].k] # None
    <3>1. client'[c] = [at |-> "cache", k |-> client[c].k, u |-> api_keys[client[c].k]]
      BY <1>5, <2>5 DEF LookupKey, ClientGoto, get_api_key_by_hash
    <3> QED BY <1>1, <1>3, <2>1, <2>2, <2>3, <2>5, <3>1 DEF KeyReadBy
  <2> QED BY <2>4, <2>5
<1>6. ASSUME NEW c \in Clients, CacheKey(c) PROVE Goal
  <2>1. UNCHANGED <<api_keys, revoked, drawn, page>>
    BY <1>6 DEF CacheKey
  <2>2. \A d \in Clients : client'[d] = client[d] \/ client'[d].at = "token"
    BY <1>6 DEF CacheKey, ClientGoto
  <2>3. \A k \in Keys : KeyEntryOf(k)
    BY <1>6 DEF CacheKey, KeyEntryOf, Caching
  <2> QED BY <1>3, <2>1, <2>2, <2>3 DEF KeyRowOf, KeyReadBy, RevocationNoted
<1>7. ASSUME NEW c \in Clients, FindToken(c) \/ CacheToken(c) \/ ClientDone(c) PROVE Goal
  <2>1. UNCHANGED <<api_keys, api_key_cache, revoked, drawn, page>>
    BY <1>7 DEF FindToken, CacheToken, ClientDone
  <2>2. \A d \in Clients \ {c} : client'[d] = client[d]
    BY <1>7 DEF FindToken, CacheToken, ClientDone, ClientGoto
  <2>3. client'[c].at # "cache"
    <3>1. CASE FindToken(c)
      BY <3>1 DEF FindToken, ClientGoto, AtRest
    <3>2. CASE CacheToken(c)
      <4>1. client'[c] = [client[c] EXCEPT !.at = "served"]
              /\ client[c].at = "cache_token" /\ client[c] \in ClientStages
        BY <3>2 DEF CacheToken, ClientGoto
      <4>2. client'[c] = [at |-> "served", u |-> client[c].u, token |-> client[c].token]
        BY <4>1, ClientFields
      <4> QED BY <4>2
    <3>3. CASE ClientDone(c)
      BY <3>3 DEF ClientDone, ClientGoto, AtRest
    <3> QED BY <1>7, <3>1, <3>2, <3>3
  <2> QED BY <1>1, <1>3, <2>1, <2>2, <2>3 DEF KeyReadBy
<1>8. ASSUME NEW p \in Pages, insert_api_key(p) PROVE Goal
  <2>1. UNCHANGED <<api_key_cache, revoked, client>> /\ drawn' = drawn + 1
    BY <1>8 DEF insert_api_key
  <2>2. \A q \in Pages : page'[q] = page[q] \/ page'[q].at = "idle"
    BY <1>8 DEF insert_api_key, PageGoto, AtRest
  <2>3. \A k \in Keys : api_keys'[k] = api_keys[k] \/ k = drawn + 1
    BY <1>8 DEF insert_api_key
  <2> QED BY <1>2, <2>1, <2>2, <2>3 DEF KeyRowOf, KeyEntryOf, KeyGoneFor, RevocationNoted
<1>9. ASSUME NEW p \in Pages, NEW k \in Keys, RevokeKey(p, k) PROVE Goal
  <2>1. UNCHANGED <<api_key_cache, revoked, client, drawn>>
    BY <1>9 DEF RevokeKey
  <2>2. \A q \in Pages : page'[q] = page[q] \/ page'[q] = [at |-> "evict", k |-> k]
    BY <1>9 DEF RevokeKey, PageGoto
  <2>3. api_keys[k] # None /\ api_keys'[k] = None /\ \A l \in Keys \ {k} : api_keys'[l] = api_keys[l]
    BY <1>9 DEF RevokeKey
  <2>4. \A q \in Pages : KeyGoneFor(q)
    BY <2>2, <2>3 DEF KeyGoneFor
  <2> QED BY <1>2, <2>1, <2>3, <2>4 DEF KeyRowOf, KeyEntryOf, RevocationNoted
<1>10. ASSUME NEW p \in Pages, EvictKey(p) PROVE Goal
  <2>1. UNCHANGED <<api_keys, client, drawn>>
    BY <1>10 DEF EvictKey
  <2>2. \A q \in Pages : page'[q] = page[q] \/ page'[q].at = "idle"
    BY <1>10 DEF EvictKey, PageGoto, AtRest
  <2>3. \A k \in Keys : api_key_cache'[k] = None \/ api_key_cache'[k] = api_key_cache[k]
    BY <1>10 DEF EvictKey
  <2> QED BY <1>2, <1>10, <2>1, <2>2, <2>3 DEF KeyRowOf, KeyEntryOf, KeyGoneFor, RevocationNoted
<1>11. ASSUME NEW p \in Pages, NEW u \in Users,
              CountKeys(p, u) \/ KiroSetup(p, u) \/ KiroPoll(p, u) \/ KiroDelete(p, u)
       PROVE  Goal
  <2>1. UNCHANGED <<api_keys, api_key_cache, revoked, drawn, client>>
    BY <1>11 DEF CountKeys, KiroSetup, KiroPoll, KiroDelete
  <2>2. \A q \in Pages : page'[q] = page[q] \/ page'[q].at \in {"insert", "register", "poll"}
    BY <1>11 DEF CountKeys, KiroSetup, KiroPoll, KiroDelete, PageGoto
  <2> QED BY <1>1, <1>2, <2>1, <2>2 DEF KeyGoneFor
<1>12. ASSUME NEW p \in Pages, NEW refresh \in BOOLEAN,
              KiroGranted(p, refresh) \/ KiroRegistered(p) \/ PageDone(p)
       PROVE  Goal
  <2>1. UNCHANGED <<api_keys, api_key_cache, revoked, drawn, client>>
    BY <1>12 DEF KiroGranted, KiroRegistered, PageDone
  <2>2. \A q \in Pages : page'[q] = page[q] \/ page'[q].at = "idle"
    BY <1>12 DEF KiroGranted, KiroRegistered, PageDone, PageGoto, AtRest
  <2> QED BY <1>1, <1>2, <2>1, <2>2 DEF KeyGoneFor
<1>13. ASSUME NEW u \in Users, RefreshGranted(u) \/ RefreshRefused(u) \/ RefreshSkipped(u)
       PROVE  Goal
  <2>1. UNCHANGED <<api_keys, api_key_cache, revoked, drawn, client, page>>
    BY <1>13 DEF RefreshGranted, RefreshRefused, RefreshSkipped
  <2> QED BY <1>1, <1>2, <1>3, <2>1
<1>14. ASSUME RefreshScan PROVE Goal
  <2>1. UNCHANGED <<api_keys, api_key_cache, revoked, drawn, client, page>>
    BY <1>14 DEF RefreshScan
  <2> QED BY <1>1, <1>2, <1>3, <2>1
<1>15. ASSUME NEW u \in Users, DeleteKeyOwner(u) PROVE Goal
  <2>1. UNCHANGED <<api_key_cache, revoked, drawn, client, page>>
    BY <1>15 DEF DeleteKeyOwner
  <2>2. \A k \in Keys : api_keys'[k] = None \/ api_keys'[k] = api_keys[k]
    BY <1>15 DEF DeleteKeyOwner
  <2> QED BY <1>2, <1>3, <2>1, <2>2 DEF KeyRowOf, KeyEntryOf, RevocationNoted
<1>16. ASSUME NEW u \in Users, EvictKeyOwner(u) PROVE Goal
  <2>1. UNCHANGED <<api_keys, revoked, drawn, client, page>>
    BY <1>16 DEF EvictKeyOwner
  <2>2. \A k \in Keys : api_key_cache'[k] = None \/ api_key_cache'[k] = api_key_cache[k]
    BY <1>16 DEF EvictKeyOwner
  <2> QED BY <1>2, <1>3, <2>1, <2>2 DEF KeyRowOf, KeyEntryOf, RevocationNoted
<1>17. ASSUME RestartKeys PROVE Goal
  <2>1. UNCHANGED <<api_keys, revoked, drawn>>
    BY <1>17 DEF RestartKeys
  <2>2. /\ \A k \in Keys : api_key_cache'[k] = None
        /\ \A c \in Clients : client'[c].at = "idle"
        /\ \A p \in Pages : page'[p].at = "idle"
    BY <1>17 DEF RestartKeys, AtRest
  <2> QED BY <2>1, <2>2 DEF KeyRowOf, KeyEntryOf, KeyReadBy, KeyGoneFor, RevocationNoted
<1>18. ASSUME TickKeys \/ UNCHANGED <<table, keyvars>> PROVE Goal
  <2>1. UNCHANGED <<api_keys, api_key_cache, revoked, drawn, client, page>>
    BY <1>18 DEF TickKeys, keyvars
  <2> QED BY <1>1, <1>2, <1>3, <2>1
<1>19. ASSUME NEW c \in Clients, ClientStep(c) PROVE Goal
  BY <1>4, <1>5, <1>6, <1>7, <1>19 DEF ClientStep
<1>20. ASSUME NEW p \in Pages, PageStep(p) PROVE Goal
  BY <1>8, <1>9, <1>10, <1>11, <1>12, <1>20 DEF PageStep
<1> QED BY <1>13, <1>14, <1>15, <1>16, <1>17, <1>18, <1>19, <1>20 DEF KeyNext, KeyStep

(* A revoked key is refused for good: its number was drawn, so no row is   *)
(* inserted for it again, and nobody who read its row is about to cache    *)
(* it; a page that is to evict a key finds it in the same state.           *)
KeyInv ==
    /\ \A k \in Keys : k > drawn => api_keys[k] = None
    /\ \A p \in Pages : page[p].at = "evict" => page[p].k <= drawn /\ api_keys[page[p].k] = None
    /\ \A k \in revoked :
         /\ k <= drawn /\ api_keys[k] = None /\ api_key_cache[k] = None
         /\ \A c \in Clients : ~Caching(c, k)

LEMMA KeyInvStep ==
    ASSUME KeyTypeOK, KeyTypeOK', KeyInv, [KeyNext]_<<table, keyvars>>
    PROVE  KeyInv'
<1> USE KeyAccessAssumption
<1>1. /\ \A k \in Keys : KeyRowOf(k) /\ KeyEntryOf(k)
      /\ \A c \in Clients : KeyReadBy(c)
      /\ \A p \in Pages : KeyGoneFor(p)
      /\ RevocationNoted
      /\ drawn' = drawn \/ drawn' = drawn + 1
  BY KeyDoes
<1>2. drawn \in Nat /\ drawn' \in Nat /\ \A k \in Keys : k \in Nat
  BY DEF KeyTypeOK, Keys
<1>3. \A k \in Keys : k <= drawn /\ api_keys[k] = None => k <= drawn' /\ api_keys'[k] = None
  BY <1>1, <1>2 DEF KeyRowOf
<1>4. \A k \in Keys : k > drawn' => api_keys'[k] = None
  BY <1>1, <1>2 DEF KeyRowOf, KeyInv
<1>5. \A k \in Keys : api_keys[k] # None => k <= drawn
  BY <1>2 DEF KeyInv
<1>6. ASSUME NEW p \in Pages, page'[p].at = "evict"
      PROVE  page'[p].k <= drawn' /\ api_keys'[page'[p].k] = None
  <2>1. page'[p].k \in Keys
    BY <1>6, PageFields DEF KeyTypeOK
  <2>2. CASE page'[p] = page[p]
    BY <1>3, <1>6, <2>1, <2>2 DEF KeyInv
  <2>3. CASE api_keys[page'[p].k] # None /\ api_keys'[page'[p].k] = None
    BY <1>1, <1>2, <1>5, <2>1, <2>3
  <2> QED BY <1>1, <1>6, <2>2, <2>3 DEF KeyGoneFor
<1>7. ASSUME NEW k \in Keys, k <= drawn, api_keys[k] = None,
             \A c \in Clients : ~Caching(c, k)
      PROVE  \A c \in Clients : ~(client'[c].at = "cache" /\ client'[c].k = k)
  BY <1>1, <1>7 DEF KeyReadBy, Caching
<1>8. ASSUME NEW k \in Keys, k \in revoked
      PROVE  /\ k <= drawn' /\ api_keys'[k] = None /\ api_key_cache'[k] = None
             /\ \A c \in Clients : ~(client'[c].at = "cache" /\ client'[c].k = k)
  <2>1. /\ k <= drawn /\ api_keys[k] = None /\ api_key_cache[k] = None
        /\ \A c \in Clients : ~Caching(c, k)
    BY <1>8 DEF KeyInv
  <2>2. api_key_cache'[k] = None
    BY <1>1, <2>1 DEF KeyEntryOf
  <2> QED BY <1>3, <1>7, <2>1, <2>2
<1>9. revoked \subseteq Keys /\ revoked' \subseteq Keys
  BY DEF KeyTypeOK
<1>10. ASSUME NEW k \in revoked'
       PROVE  /\ k <= drawn' /\ api_keys'[k] = None /\ api_key_cache'[k] = None
              /\ \A c \in Clients : ~(client'[c].at = "cache" /\ client'[c].k = k)
  <2>1. k \in Keys
    BY <1>9
  <2>2. CASE k \in revoked
    BY <1>8, <2>1, <2>2
  <2>3. CASE k \notin revoked
    <3>1. PICK p \in Pages : EvictKey(p)
      BY <1>1, <2>3 DEF RevocationNoted
    <3>2. page[p].at = "evict" /\ k = page[p].k /\ \A c \in Clients : ~Caching(c, k)
      BY <2>3, <3>1 DEF EvictKey, NotedRevoked
    <3>3. k <= drawn /\ api_keys[k] = None
      BY <3>2 DEF KeyInv
    <3>4. api_key_cache'[k] = None
      BY <2>1, <3>1, <3>2 DEF EvictKey, KeyTypeOK
    <3> QED BY <1>3, <1>7, <2>1, <3>2, <3>3, <3>4
  <2> QED BY <2>2, <2>3
<1> QED BY <1>4, <1>6, <1>10 DEF KeyInv, Caching
-----------------------------------------------------------------------------
(* What one step may do to the history of access tokens, to the token a    *)
(* request is about to cache, and to the cached ones.                      *)
TokensNoted ==
    \/ TrackTokens /\ now' = now
    \/ UNCHANGED <<kiro_tokens, left>> /\ now' = now
    \/ /\ UNCHANGED <<kiro_tokens, left, client>> /\ now' = now + 1
       /\ \A c \in Clients : client[c].at # "cache_token"

TokenReadBy(c) ==
    \/ client'[c] = client[c]
    \/ client'[c].at # "cache_token"
    \/ /\ UNCHANGED <<now, left>>
       /\ \E u \in Users : /\ kiro_tokens[u] # None /\ kiro_tokens[u].access # None
                           /\ client'[c].token = kiro_tokens[u].access

TokenEntryOf(u) ==
    \/ kiro_token_cache'[u] = None \/ kiro_token_cache'[u] = kiro_token_cache[u]
    \/ /\ UNCHANGED <<now, left>>
       /\ \E c \in Clients : /\ client[c].at = "cache_token"
                             /\ kiro_token_cache'[u] = [token |-> client[c].token, at |-> now]

LEMMA TokensDo ==
    ASSUME KeyTypeOK, AccountsTypeOK, [KeyNext]_<<table, keyvars>>
    PROVE  /\ TokensNoted
           /\ \A c \in Clients : TokenReadBy(c)
           /\ \A u \in Users : TokenEntryOf(u)
<1> USE DEF KeyTypeOK
<1> DEFINE Goal == /\ TokensNoted
                   /\ \A c \in Clients : TokenReadBy(c)
                   /\ \A u \in Users : TokenEntryOf(u)
<1>1. client' = client => \A c \in Clients : TokenReadBy(c)
  BY DEF TokenReadBy
<1>2. kiro_token_cache' = kiro_token_cache => \A u \in Users : TokenEntryOf(u)
  BY DEF TokenEntryOf
<1>3. ASSUME NEW c \in Clients, NEW k \in Keys, PresentKey(c, k), UNCHANGED table PROVE Goal
  <2>1. UNCHANGED <<kiro_tokens, left, kiro_token_cache, now>>
    BY <1>3 DEF PresentKey, table
  <2>2. \A d \in Clients : client'[d] = client[d] \/ client'[d].at \in {"token", "lookup"}
    BY <1>3 DEF PresentKey, ClientGoto
  <2> QED BY <1>2, <2>1, <2>2 DEF TokensNoted, TokenReadBy
<1>4. ASSUME NEW c \in Clients, LookupKey(c) \/ CacheKey(c) \/ ClientDone(c), UNCHANGED table
      PROVE  Goal
  <2>1. UNCHANGED <<kiro_tokens, left, kiro_token_cache, now>>
    BY <1>4 DEF LookupKey, CacheKey, ClientDone, table
  <2>2. \A d \in Clients : client'[d] = client[d] \/ client'[d].at \in {"idle", "cache", "token"}
    BY <1>4 DEF LookupKey, CacheKey, ClientDone, ClientGoto, AtRest
  <2> QED BY <1>2, <2>1, <2>2 DEF TokensNoted, TokenReadBy
<1>5. ASSUME NEW c \in Clients, FindToken(c), UNCHANGED table PROVE Goal
  <2>1. UNCHANGED <<kiro_tokens, left, kiro_token_cache, now>>
    BY <1>5 DEF FindToken, table
  <2>2. client[c].u \in Users
    BY <1>5, ClientFields DEF FindToken
  <2>3. \A d \in Clients \ {c} : client'[d] = client[d]
    BY <1>5 DEF FindToken, ClientGoto
  <2> DEFINE u == client[c].u
             row == kiro_tokens[u]
  <2>4. \/ client'[c].at \in {"idle", "served"}
        \/ row # None /\ row.access # None /\ client'[c].token = row.access
    BY <1>5 DEF FindToken, ClientGoto, get_kiro_token, AtRest
  <2>5. TokenReadBy(c)
    BY <2>1, <2>2, <2>4 DEF TokenReadBy
  <2> QED BY <1>2, <2>1, <2>3, <2>5 DEF TokensNoted, TokenReadBy
<1>6. ASSUME NEW c \in Clients, CacheToken(c), UNCHANGED table PROVE Goal
  <2>1. UNCHANGED <<kiro_tokens, left, now>> /\ client[c].at = "cache_token"
    BY <1>6 DEF CacheToken, table
  <2>2. [client[c] EXCEPT !.at = "served"]
          = [at |-> "served", u |-> client[c].u, token |-> client[c].token]
    BY <2>1, ClientFields
  <2>3. \A d \in Clients : client'[d] = client[d] \/ client'[d].at = "served"
    BY <1>6, <2>2 DEF CacheToken, ClientGoto
  <2>4. \A u \in Users : \/ kiro_token_cache'[u] = kiro_token_cache[u]
                         \/ kiro_token_cache'[u] = [token |-> client[c].token, at |-> now]
    BY <1>6 DEF CacheToken
  <2> QED BY <2>1, <2>3, <2>4 DEF TokensNoted, TokenReadBy, TokenEntryOf
<1>7. ASSUME NEW p \in Pages, PageStep(p), UNCHANGED table PROVE Goal
  <2>1. TokensNoted
    BY <1>7 DEF PageStep, CountKeys, KiroSetup, KiroPoll, KiroDelete, RevokeKey, insert_api_key,
                EvictKey, KiroRegistered, PageDone, KiroGranted, TokensNoted, table
  <2>2. UNCHANGED <<client, kiro_token_cache>>
    BY <1>7 DEF PageStep, CountKeys, KiroSetup, KiroPoll, KiroDelete, RevokeKey, insert_api_key,
                EvictKey, KiroRegistered, PageDone, KiroGranted
  <2> QED BY <1>1, <1>2, <2>1, <2>2
<1>8. ASSUME NEW u \in Users, RefreshGranted(u) \/ RefreshRefused(u) \/ RefreshSkipped(u),
             UNCHANGED table
      PROVE  Goal
  <2>1. TokensNoted /\ UNCHANGED <<client, kiro_token_cache>>
    BY <1>8 DEF RefreshGranted, RefreshRefused, RefreshSkipped, TokensNoted, table
  <2> QED BY <1>1, <1>2, <2>1
<1>9. ASSUME RefreshScan, UNCHANGED table PROVE Goal
  <2>1. TokensNoted /\ UNCHANGED <<client, kiro_token_cache>>
    BY <1>9 DEF RefreshScan, TokensNoted, table
  <2> QED BY <1>1, <1>2, <2>1
<1>10. ASSUME NEW u \in Users, EvictKeyOwner(u), UNCHANGED table PROVE Goal
  <2>1. TokensNoted /\ UNCHANGED client
    BY <1>10 DEF EvictKeyOwner, TokensNoted, table
  <2>2. \A v \in Users : kiro_token_cache'[v] = None \/ kiro_token_cache'[v] = kiro_token_cache[v]
    BY <1>10 DEF EvictKeyOwner
  <2> QED BY <1>1, <2>1, <2>2 DEF TokenEntryOf
<1>11. ASSUME RestartKeys, UNCHANGED table PROVE Goal
  <2>1. TokensNoted
    BY <1>11 DEF RestartKeys, TokensNoted, table
  <2>2. /\ \A u \in Users : kiro_token_cache'[u] = None
        /\ \A c \in Clients : client'[c].at = "idle"
    BY <1>11 DEF RestartKeys, AtRest
  <2> QED BY <2>1, <2>2 DEF TokenReadBy, TokenEntryOf
<1>12. ASSUME NEW u \in Users, DeleteKeyOwner(u) PROVE Goal
  <2>1. TokensNoted /\ UNCHANGED <<client, kiro_token_cache>>
    BY <1>12 DEF DeleteKeyOwner, TokensNoted
  <2> QED BY <1>1, <1>2, <2>1
<1>13. ASSUME TickKeys PROVE Goal
  <2>1. TokensNoted /\ UNCHANGED <<client, kiro_token_cache>>
    BY <1>13 DEF TickKeys, keyvars, TokensNoted
  <2> QED BY <1>1, <1>2, <2>1
<1>14. ASSUME UNCHANGED <<table, keyvars>> PROVE Goal
  <2>1. TokensNoted /\ UNCHANGED <<client, kiro_token_cache>>
    BY <1>14 DEF keyvars, table, TokensNoted
  <2> QED BY <1>1, <1>2, <2>1
<1>15. ASSUME NEW c \in Clients, ClientStep(c), UNCHANGED table PROVE Goal
  BY <1>3, <1>4, <1>5, <1>6, <1>15 DEF ClientStep
<1>16. ASSUME KeyStep, UNCHANGED table PROVE Goal
  BY <1>7, <1>8, <1>9, <1>10, <1>11, <1>15, <1>16 DEF KeyStep
<1> QED BY <1>12, <1>13, <1>14, <1>16 DEF KeyNext, table

(* A cached token was in a row when it was cached: it was read there, and  *)
(* no time passed since.                                                   *)
TokenInv ==
    /\ \A n \in 1..MaxTokens : left[n] # None => left[n] <= now
    /\ \A u \in Users : kiro_tokens[u] # None /\ kiro_tokens[u].access # None =>
         left[kiro_tokens[u].access] = None
    /\ \A c \in Clients : client[c].at = "cache_token" => LastInRow(client[c].token) = now
    /\ \A u \in Users : kiro_token_cache[u] # None =>
         kiro_token_cache[u].at <= LastInRow(kiro_token_cache[u].token)

LEMMA TokenInvStep ==
    ASSUME KeyTypeOK, KeyTypeOK', AccountsTypeOK, AccountsTypeOK', TokenInv,
           [KeyNext]_<<table, keyvars>>
    PROVE  TokenInv'
<1> USE KeyAccessAssumption, AccountsAssumption
<1>1. /\ TokensNoted
      /\ \A c \in Clients : TokenReadBy(c)
      /\ \A u \in Users : TokenEntryOf(u)
  BY TokensDo
<1>2. now \in Nat /\ now' \in Nat
  BY DEF AccountsTypeOK
<1>3. \A n \in 1..MaxTokens : /\ left[n] \in Nat \cup {None} /\ left'[n] \in Nat \cup {None}
                              /\ left[n] # None => left[n] <= now
  BY DEF KeyTypeOK, TokenInv
<1>4. \A n \in 1..MaxTokens : left'[n] # None => left'[n] <= now'
  BY <1>1, <1>2, <1>3 DEF TokensNoted, TrackTokens
<1>5. ASSUME NEW u \in Users, kiro_tokens'[u] # None, kiro_tokens'[u].access # None
      PROVE  left'[kiro_tokens'[u].access] = None
  <2>1. kiro_tokens'[u].access \in 1..MaxTokens
    BY <1>5 DEF KeyTypeOK, KiroRow
  <2>2. CASE TrackTokens
    BY <1>5, <2>1, <2>2 DEF TrackTokens
  <2>3. CASE UNCHANGED <<kiro_tokens, left>>
    BY <1>5, <2>3 DEF TokenInv
  <2> QED BY <1>1, <2>2, <2>3 DEF TokensNoted
<1>6. \A n \in 1..MaxTokens : LastInRow(n) \in Nat /\ LastInRow(n) <= now
  BY <1>2, <1>3 DEF LastInRow
<1>7. \A n \in 1..MaxTokens : now' = now => LastInRow(n) <= LastInRow(n)'
  BY <1>1, <1>2, <1>3 DEF LastInRow, TokensNoted, TrackTokens
<1>8. \A n \in 1..MaxTokens : LastInRow(n) <= LastInRow(n)' /\ LastInRow(n)' <= now'
  BY <1>1, <1>2, <1>3, <1>4, <1>7 DEF LastInRow, TokensNoted
<1>9. \A n \in 1..MaxTokens : LastInRow(n)' \in Nat
  BY <1>2, <1>3 DEF LastInRow
<1>10. ASSUME NEW c \in Clients, client'[c].at = "cache_token"
       PROVE  LastInRow(client[c].token)' = now'
  <2>1. client'[c].token \in 1..MaxTokens
    BY <1>10, ClientFields DEF KeyTypeOK
  <2>2. PICK n \in 1..MaxTokens : n = client'[c].token
    BY <2>1
  <2>3. LastInRow(n)' = now'
    <3>1. CASE client'[c] = client[c]
      <4>1. client[c].at = "cache_token" /\ n = client[c].token
        BY <1>10, <2>2, <3>1
      <4>2. LastInRow(n) = now /\ now' = now
        BY <1>1, <4>1 DEF TokenInv, TokensNoted
      <4> QED BY <1>2, <1>6, <1>8, <1>9, <4>2
    <3>2. CASE /\ UNCHANGED <<now, left>>
               /\ \E u \in Users : /\ kiro_tokens[u] # None /\ kiro_tokens[u].access # None
                                   /\ n = kiro_tokens[u].access
      <4>1. left[n] = None
        BY <3>2 DEF TokenInv
      <4> QED BY <3>2, <4>1 DEF LastInRow
    <3> QED BY <1>1, <1>10, <2>2, <3>1, <3>2 DEF TokenReadBy
  <2> QED BY <2>2, <2>3 DEF LastInRow
<1>11. ASSUME NEW u \in Users, kiro_token_cache'[u] # None
       PROVE  kiro_token_cache'[u].at <= LastInRow(kiro_token_cache[u].token)'
  <2>1. kiro_token_cache'[u].token \in 1..MaxTokens /\ kiro_token_cache'[u].at \in Nat
    BY <1>11 DEF KeyTypeOK
  <2>2. PICK n \in 1..MaxTokens : n = kiro_token_cache'[u].token
    BY <2>1
  <2>3. kiro_token_cache'[u].at <= LastInRow(n)'
    <3>1. CASE kiro_token_cache'[u] = kiro_token_cache[u]
      <4>1. kiro_token_cache'[u].at <= LastInRow(n)
        BY <1>11, <2>2, <3>1 DEF TokenInv
      <4> QED BY <1>6, <1>8, <1>9, <2>1, <4>1
    <3>2. CASE /\ UNCHANGED <<now, left>>
               /\ \E c \in Clients : /\ client[c].at = "cache_token"
                                     /\ kiro_token_cache'[u] = [token |-> client[c].token, at |-> now]
      <4>1. LastInRow(n) = now /\ kiro_token_cache'[u].at = now
        BY <2>2, <3>2 DEF TokenInv
      <4>2. LastInRow(n)' = LastInRow(n)
        BY <3>2 DEF LastInRow
      <4> QED BY <1>2, <4>1, <4>2
    <3> QED BY <1>1, <1>11, <3>1, <3>2 DEF TokenEntryOf
  <2> QED BY <2>2, <2>3 DEF LastInRow
<1> QED BY <1>4, <1>5, <1>10, <1>11 DEF TokenInv
-----------------------------------------------------------------------------
(* Both ways in.  Where the web UI moves, nobody has cached a Kiro token;  *)
(* where the keys move, nobody has a session or a request of the web UI.   *)
AccessInv ==
    /\ part \in {"sessions", "keys"}
    /\ SessionTypeOK /\ KeyTypeOK
    /\ LogoutInv /\ LoginsPast /\ KeyInv
    /\ part = "sessions" => RightsInv /\ \A u \in Users : kiro_token_cache[u] = None
    /\ part = "keys" => /\ TokenInv
                        /\ \A s \in Sessions : session_cache[s] = None
                        /\ \A c \in Calls : call[c] = Idle

LEMMA KeyInitTyped ==
    ASSUME NEW keys \in [Keys -> Users \cup {None}], NEW d \in 0..MaxDrawn,
           NEW n \in 0..MaxTokens, KeyInit(keys, d, n)
    PROVE  KeyTypeOK
BY ClientValues, PageValues DEF KeyInit, KeyTypeOK

LEMMA KeyInitHolds ==
    ASSUME NEW keys \in [Keys -> Users \cup {None}], NEW d \in 0..MaxDrawn,
           NEW n \in 0..MaxTokens, KeyInit(keys, d, n), now = 0,
           \A k \in Keys : k > d => keys[k] = None
    PROVE  KeyInv /\ TokenInv /\ \A u \in Users : kiro_token_cache[u] = None
<1>1. KeyInv
  BY DEF KeyInit, KeyInv, AtRest
<1>2. TokenInv
  BY DEF KeyInit, TokenInv, AtRest
<1>3. \A u \in Users : kiro_token_cache[u] = None
  BY DEF KeyInit
<1> QED BY <1>1, <1>2, <1>3

LEMMA SessionInitHolds ==
    ASSUME SessionInit
    PROVE  SessionTypeOK /\ RightsInv /\ LogoutInv /\ LoginsPast
<1> USE AccountsAssumption
<1>1. PICK role \in [Users -> {"admin", "user"}], owner \in [Sessions -> Users], hash \in Passwords :
        /\ \E s \in Sessions : held[s] # None /\ role[owner[s]] = "admin"
        /\ users = [u \in Users |->
                      [role |-> role[u], password |-> hash, totp_secret |-> None,
                       totp_enabled |-> FALSE, auth_method |-> "password",
                       google_linked |-> FALSE]]
        /\ sessions = [s \in Sessions |->
              IF held[s] = None THEN None ELSE [user |-> owner[s], expires |-> SessionTtl]]
        /\ session_cache = [s \in Sessions |->
              IF held[s] = None THEN None ELSE SessionInfoOf(users, owner[s], SessionTtl)]
  BY Zenon DEF SessionInit
<1>2. users \in [Users -> UserRow \cup {None}]
  BY <1>1 DEF UserRow
<1>3. sessions \in [Sessions -> SessionRow \cup {None}]
  BY <1>1 DEF SessionRow
<1>4. \A s \in Sessions : session_cache[s] # None =>
        session_cache[s] = [user |-> owner[s], role |-> role[owner[s]],
                            expires |-> SessionTtl, totp_enabled |-> FALSE]
  BY <1>1 DEF SessionInfoOf
<1>5. session_cache \in [Sessions -> SessionInfo \cup {None}]
  <2>1. ASSUME NEW s \in Sessions, session_cache[s] # None PROVE session_cache[s] \in SessionInfo
    <3>1. [user |-> owner[s], role |-> role[owner[s]], expires |-> SessionTtl,
           totp_enabled |-> FALSE] \in SessionInfo
      BY DEF SessionInfo
    <3> QED BY <1>4, <2>1, <3>1
  <2> QED BY <1>1, <2>1
<1>6. now = 0 /\ logged_out = {} /\ last_admin = [u \in Users |-> 0]
        /\ call = [c \in Calls |-> Idle] /\ allowed_domains = [d \in Domains |-> None]
        /\ held \in [Sessions -> {0, None}]
  BY DEF SessionInit
<1>7. SessionTypeOK
  <2>1. held \in [Sessions -> Nat \cup {None}]
    BY <1>6
  <2> QED BY <1>2, <1>3, <1>5, <1>6, <2>1, CallValues DEF SessionTypeOK, AccountsTypeOK
<1>8. RightsInv
  <2>1. \A u \in Users : last_admin[u] = now
    BY <1>6
  <2>2. \A s \in Sessions : sessions[s] # None => sessions[s].expires <= now + SessionTtl
    BY <1>1, <1>6
  <2>3. \A c \in Calls : call[c].at = "idle"
    BY <1>6 DEF Idle
  <2>4. ASSUME NEW s \in Sessions, session_cache[s] # None
        PROVE  session_cache[s].expires
                 <= last_admin[session_cache[s].user] + SessionTtl + Held(s)
    <3>1. owner[s] \in Users
      OBVIOUS
    <3>2. session_cache[s] = [user |-> owner[s], role |-> role[owner[s]],
                              expires |-> SessionTtl, totp_enabled |-> FALSE]
      BY <1>4, <2>4
    <3>3. session_cache[s].user = owner[s] /\ session_cache[s].expires = SessionTtl
      BY <3>2
    <3>4. last_admin[owner[s]] = 0
      BY <1>6, <3>1
    <3>5. Held(s) = 0
      BY <1>6 DEF Held
    <3> QED BY <3>3, <3>4, <3>5
  <2> QED BY <1>6, <2>1, <2>2, <2>3, <2>4 DEF RightsInv
<1>9. LogoutInv /\ LoginsPast
  BY <1>6 DEF LogoutInv, LoginsPast, Idle
<1> QED BY <1>7, <1>8, <1>9

LEMMA OneKeyOwnerHolds ==
    ASSUME OneKeyOwner
    PROVE  /\ SessionTypeOK /\ LogoutInv /\ LoginsPast
           /\ now = 0 /\ \A s \in Sessions : session_cache[s] = None
           /\ \A c \in Calls : call[c] = Idle
<1>1. PICK u \in Users, hash \in Passwords :
        users = create_password_user([v \in Users |-> None], u, hash, "user")
  BY DEF OneKeyOwner
<1>2. [v \in Users |-> None] \in [Users -> UserRow \cup {None}]
  OBVIOUS
<1>3. users \in [Users -> UserRow \cup {None}]
  BY <1>1, <1>2, StatementsOnUsers
<1>4. SessionTypeOK
  BY <1>3, AccountsAssumption, CallValues DEF OneKeyOwner, SessionTypeOK, AccountsTypeOK
<1> QED BY <1>4 DEF OneKeyOwner, LogoutInv, LoginsPast, Idle

LEMMA AccessInitHolds ==
    ASSUME AccessInit
    PROVE  AccessInv
<1> USE KeyAccessAssumption
<1>1. NoKeys \in [Keys -> Users \cup {None}] /\ \A k \in Keys : NoKeys[k] = None
  BY DEF NoKeys
<1>2. CASE part = "sessions" /\ SessionInit /\ KeyInit(NoKeys, 0, 0)
  <2>1. now = 0
    BY <1>2 DEF SessionInit
  <2>2. KeyTypeOK /\ KeyInv /\ \A u \in Users : kiro_token_cache[u] = None
    BY <1>1, <1>2, <2>1, KeyInitTyped, KeyInitHolds
  <2> QED BY <1>2, <2>2, SessionInitHolds DEF AccessInv
<1>3. CASE part = "keys" /\ OneKeyOwner /\ KeyInit(NoKeys, 0, MaxTokens)
  <2>1. KeyTypeOK /\ KeyInv /\ TokenInv
    BY <1>1, <1>3, OneKeyOwnerHolds, KeyInitTyped, KeyInitHolds
  <2> QED BY <1>3, <2>1, OneKeyOwnerHolds DEF AccessInv
<1>4. ASSUME part = "keys", OneKeyOwner, NEW u \in Users,
             KeyInit([NoKeys EXCEPT ![1] = u], MaxDrawn, 0)
      PROVE  AccessInv
  <2>1. [NoKeys EXCEPT ![1] = u] \in [Keys -> Users \cup {None}]
    BY <1>1
  <2>2. \A k \in Keys : ~(k > MaxDrawn)
    BY DEF Keys
  <2>3. MaxDrawn \in 0..MaxDrawn /\ 0 \in 0..MaxTokens /\ now = 0
    BY <1>4, OneKeyOwnerHolds
  <2>4. KeyTypeOK
    BY <1>4, <2>1, <2>3, KeyInitTyped
  <2>5. KeyInv /\ TokenInv
    BY <1>4, <2>1, <2>2, <2>3, KeyInitHolds
  <2> QED BY <1>4, <2>4, <2>5, OneKeyOwnerHolds DEF AccessInv
<1> QED BY <1>2, <1>3, <1>4 DEF AccessInit

LEMMA AccessStep ==
    ASSUME AccessInv, [AccessNext]_accessvars
    PROVE  AccessInv'
<1>1. CASE part = "sessions" /\ SessionNext /\ UNCHANGED <<keyvars, part>>
  <2>1. SessionTypeOK' /\ RightsInv' /\ LogoutInv' /\ LoginsPast'
    BY <1>1, SessionTypeStep, LoginsPastStep, RightsStep, LogoutStep DEF AccessInv
  <2>2. KeyTypeOK' /\ KeyInv'
    BY <1>1 DEF AccessInv, keyvars, KeyTypeOK, KeyInv, Caching
  <2>3. \A u \in Users : kiro_token_cache'[u] = None
    BY <1>1 DEF AccessInv, keyvars
  <2> QED BY <1>1, <2>1, <2>2, <2>3 DEF AccessInv
<1>2. CASE part = "keys" /\ KeyNext /\ UNCHANGED <<call, logged_out, last_admin, held, part>>
  <2>1. AccountsTypeOK /\ KeyTypeOK /\ KeyInv /\ TokenInv
    BY <1>2 DEF AccessInv, SessionTypeOK
  <2>2. AccountsTypeOK' /\ KeyTypeOK'
    BY <1>2, <2>1, KeyTypeStep
  <2>3. KeyInv' /\ TokenInv'
    BY <1>2, <2>1, <2>2, KeyInvStep, TokenInvStep
  <2>4. UNCHANGED <<sessions, session_cache>>
    BY <1>2 DEF KeyNext, DeleteKeyOwner, TickKeys
  <2>5. SessionTypeOK'
    BY <1>2, <2>2 DEF AccessInv, SessionTypeOK
  <2>6. LogoutInv' /\ LoginsPast'
    <3>1. \A c \in Calls : call[c].at = "idle" /\ call'[c].at = "idle"
      BY <1>2 DEF AccessInv, Idle
    <3> QED BY <1>2, <2>4, <3>1 DEF AccessInv, LogoutInv, LoginsPast, HalfWayIn, Known
  <2> QED BY <1>2, <2>2, <2>3, <2>4, <2>5, <2>6 DEF AccessInv
<1>3. CASE UNCHANGED accessvars
  <2>1. UNCHANGED access /\ UNCHANGED keyvars /\ part' = part
    BY <1>3 DEF accessvars
  <2>2. SessionTypeOK' /\ LogoutInv' /\ LoginsPast' /\ (part = "sessions" => RightsInv')
    <3>1. SessionTypeOK' /\ LogoutInv' /\ LoginsPast'
      BY <2>1, SessionTypeStep, LoginsPastStep, LogoutStep DEF AccessInv
    <3> QED BY <2>1, <3>1, RightsStep DEF AccessInv
  <2>3. UNCHANGED <<table, keyvars>>
    BY <2>1 DEF access, table
  <2>4. KeyTypeOK' /\ KeyInv' /\ (part = "keys" => TokenInv')
    <3>1. AccountsTypeOK /\ KeyTypeOK /\ AccountsTypeOK' /\ KeyTypeOK'
      BY <2>2, <2>3, KeyTypeStep DEF AccessInv, SessionTypeOK
    <3> QED BY <2>3, <3>1, KeyInvStep, TokenInvStep DEF AccessInv
  <2>5. UNCHANGED <<session_cache, kiro_token_cache, call>>
    BY <2>1 DEF access, keyvars
  <2> QED BY <2>1, <2>2, <2>4, <2>5 DEF AccessInv
<1> QED BY <1>1, <1>2, <1>3 DEF AccessNext

THEOREM AccessInvariant == AccessSpec => []AccessInv
<1>1. AccessInit => AccessInv
  BY AccessInitHolds
<1>2. AccessInv /\ [AccessNext]_accessvars => AccessInv'
  BY AccessStep
<1> QED BY <1>1, <1>2, PTL DEF AccessSpec

(* An entry of session_cache that is admitted as an administrator's is of  *)
(* a user who was one less than SessionTtl ago, and for a session that a   *)
(* login opened the time more that the login held the role it had read,    *)
(* for any number of requests that fill the cache, and logins that open    *)
(* sessions, while roles change (session_middleware,                       *)
(* create_session_response).                                               *)
THEOREM RightsBounded == AccessSpec => []RightsExpire
<1>1. ASSUME AccessInv PROVE RightsExpire
  <2>1. ASSUME NEW s \in Sessions, session_cache[s] # None, session_cache[s].expires > now,
               session_cache[s].role = "admin"
        PROVE  now < last_admin[session_cache[s].user] + SessionTtl + Held(s)
    <3>1. RightsInv
      BY <1>1, <2>1 DEF AccessInv
    <3>2. session_cache[s].expires <= last_admin[session_cache[s].user] + SessionTtl + Held(s)
      BY <2>1, <3>1 DEF RightsInv
    <3>3. /\ session_cache[s].expires \in Nat /\ session_cache[s].user \in Users /\ now \in Nat
          /\ last_admin[session_cache[s].user] \in Nat /\ SessionTtl \in Nat
      BY <1>1, <2>1, AccountsAssumption DEF AccessInv, SessionTypeOK, AccountsTypeOK, SessionInfo
    <3>4. Held(s) \in Nat
      BY <1>1 DEF AccessInv, SessionTypeOK, Held
    <3> QED BY <2>1, <3>2, <3>3, <3>4
  <2> QED BY <2>1 DEF RightsExpire
<1> QED BY <1>1, AccessInvariant, PTL

(* A session that was logged out, and a key that was revoked and evicted,  *)
(* while no request was about to cache it, stay gone from table and cache  *)
(* (logout_with_session, delete_api_key).                                  *)
THEOREM RevokedForGood == AccessSpec => []RevocationHolds
<1>1. ASSUME AccessInv PROVE RevocationHolds
  BY <1>1 DEF AccessInv, LogoutInv, KeyInv, RevocationHolds, LogoutHolds, RevokedKeyRefused
<1> QED BY <1>1, AccessInvariant, PTL

(* A Kiro token served from the cache was in its user's row less than      *)
(* KiroTtl ago (auth_middleware).                                          *)
THEOREM KiroTokenStaleness == AccessSpec => []KiroTokenStalenessBounded
<1>1. ASSUME AccessInv PROVE KiroTokenStalenessBounded
  <2>1. ASSUME NEW u \in Users, TokenLive(kiro_token_cache[u])
        PROVE  now - LastInRow(kiro_token_cache[u].token) < KiroTtl
    <3> DEFINE e == kiro_token_cache[u]
    <3>1. e # None /\ now - e.at < KiroTtl
      BY <2>1 DEF TokenLive
    <3>2. TokenInv /\ KeyTypeOK /\ now \in Nat /\ KiroTtl \in Nat
      BY <1>1, <3>1, KeyAccessAssumption, AccountsAssumption DEF AccessInv, SessionTypeOK, AccountsTypeOK
    <3>3. e.at \in Nat /\ e.token \in 1..MaxTokens
      BY <3>1, <3>2 DEF KeyTypeOK
    <3>4. LastInRow(e.token) \in Nat
      BY <3>2, <3>3 DEF LastInRow, KeyTypeOK
    <3>5. e.at <= LastInRow(e.token)
      BY <3>1, <3>2 DEF TokenInv
    <3> QED BY <3>1, <3>2, <3>3, <3>4, <3>5
  <2> QED BY <2>1 DEF KiroTokenStalenessBounded
<1> QED BY <1>1, AccessInvariant, PTL

-----------------------------------------------------------------------------
(***************************************************************************)
(* The logins.                                                             *)
(***************************************************************************)
UserTable == [Users -> UserRow \cup {None}]

-----------------------------------------------------------------------------
(* What the statements of Accounts make of the table of users.             *)
LEMMA StatementsTyped ==
    ASSUME NEW t \in UserTable, NEW u \in Users
    PROVE  /\ upsert_user(t, u) \in UserTable
           /\ \A secret \in Secrets : enable_totp(t, u, secret) \in UserTable
           /\ disable_totp(t, u) \in UserTable
           /\ \A secret \in Secrets : set_totp_secret(t, u, secret) \in UserTable
           /\ set_google_linked(t, u) \in UserTable
           /\ \A hash \in Passwords : update_password_with_auth_method(t, u, hash) \in UserTable
<1> USE DEF UserTable
<1>1. upsert_user(t, u) \in UserTable
  <2>1. PICK row : row = [role |-> IF Registered(t) = {} THEN "admin" ELSE "user",
             password |-> None, totp_secret |-> None, totp_enabled |-> FALSE,
             auth_method |-> "google", google_linked |-> FALSE]
    OBVIOUS
  <2>2. row \in UserRow
    BY <2>1 DEF UserRow
  <2>3. upsert_user(t, u) = t \/ upsert_user(t, u) = [t EXCEPT ![u] = row]
    BY <2>1 DEF upsert_user
  <2>4. QED
    BY <2>2, <2>3
<1>2. \A secret \in Secrets : enable_totp(t, u, secret) \in UserTable
  BY DEF enable_totp, UserRow
<1>3. disable_totp(t, u) \in UserTable
  BY DEF disable_totp, UserRow
<1>4. \A secret \in Secrets : set_totp_secret(t, u, secret) \in UserTable
  BY DEF set_totp_secret, UserRow
<1>5. set_google_linked(t, u) \in UserTable
  BY DEF set_google_linked, UserRow
<1>6. \A hash \in Passwords : update_password_with_auth_method(t, u, hash) \in UserTable
  BY DEF update_password_with_auth_method, UserRow
<1>7. QED
  BY <1>1, <1>2, <1>3, <1>4, <1>5, <1>6

-----------------------------------------------------------------------------
(* The fields of a call by where it is, and the records that are calls.    *)
LEMMA LoginFields ==
    \A x \in LoginCalls :
        /\ x.at = "row" => x.u \in Users /\ x.pw \in Passwords
        /\ x.at = "verify" => x.u \in Users /\ x.pw \in Passwords /\ x.hash \in Passwords
                              /\ x.role \in {"admin", "user"} /\ x.totp \in BOOLEAN
        /\ x.at \in {"pend", "owner", "g_link", "s_codes", "c_write"} => x.u \in Users
        /\ x.at \in {"code", "session", "g_auth", "g_linked"} =>
             x.u \in Users /\ x.role \in {"admin", "user"}
        /\ x.at = "session" => x.totp \in BOOLEAN
        /\ x.at = "consume" => x.u \in Users /\ x.token \in Tokens
        /\ x.at \in {"s_disable", "s_secret", "v_enable"} => x.u \in Users /\ x.secret \in Secrets
        /\ x.at = "exchange" => x.linking \in Users \cup {None}
BY DEF LoginCalls, Away

LEMMA LoginValues ==
    /\ Away \in LoginCalls
    /\ \A u \in Users, pw \in Passwords : [at |-> "row", u |-> u, pw |-> pw] \in LoginCalls
    /\ \A u \in Users, pw, hash \in Passwords, role \in {"admin", "user"}, totp \in BOOLEAN :
          [at |-> "verify", u |-> u, pw |-> pw, hash |-> hash, role |-> role, totp |-> totp]
            \in LoginCalls
    /\ \A u \in Users, at \in {"pend", "owner", "g_link", "s_codes", "c_write"} :
          [at |-> at, u |-> u] \in LoginCalls
    /\ \A u \in Users, role \in {"admin", "user"}, at \in {"code", "g_auth", "g_linked"} :
          [at |-> at, u |-> u, role |-> role] \in LoginCalls
    /\ \A u \in Users, role \in {"admin", "user"}, totp \in BOOLEAN :
          [at |-> "session", u |-> u, role |-> role, totp |-> totp] \in LoginCalls
    /\ \A u \in Users, token \in Tokens : [at |-> "consume", u |-> u, token |-> token] \in LoginCalls
    /\ \A u \in Users, secret \in Secrets, at \in {"s_disable", "s_secret", "v_enable"} :
          [at |-> at, u |-> u, secret |-> secret] \in LoginCalls
    /\ \A linking \in Users \cup {None} : [at |-> "exchange", linking |-> linking] \in LoginCalls
BY DEF LoginCalls

Typed == AccountsTypeOK /\ LoginTypeOK

LEMMA Caches ==
    ASSUME Typed, NEW s \in Sessions, session_cache[s] # None
    PROVE  session_cache[s].user \in Users
BY DEF Typed, AccountsTypeOK, SessionInfo

LEMMA SecretOf ==
    ASSUME Typed, NEW u \in Users
    PROVE  get_totp_secret(users, u) \in Secrets \cup {None}
BY DEF Typed, AccountsTypeOK, UserRow, get_totp_secret

(* What a step of call l may make of the call, which goes on at to.        *)
Moves(l, to) ==
    /\ to \in LoginCalls /\ login' = [login EXCEPT ![l] = to]
    /\ to.at = "row" => login[l].at = "idle" /\ ~LockedOut(to.u)
    /\ to.at = "verify" => login[l].at = "row" /\ to.u = login[l].u
    /\ to.at = "v_enable" => to.secret \in verified'
    /\ to.at = "g_linked" =>
         /\ UNCHANGED users
         /\ LET row == users[to.u]
            IN row # None => row.auth_method # "password" \/ row.google_linked
    /\ login[l].at = "s_disable" => SetupDisable(l) \/ half_set_up'

(* Most steps lead to a place that none of this is about.                  *)
LEMMA Passes ==
    ASSUME NEW l \in Logins, NEW to \in LoginCalls, LoginGoto(l, to),
           to.at \notin {"row", "verify", "v_enable", "g_linked"},
           login[l].at # "s_disable"
    PROVE  Moves(l, to)
BY DEF Moves, LoginGoto

LEMMA CallMoves ==
    ASSUME Typed, NEW l \in Logins, LoginStep(l)
    PROVE  \E to \in LoginCalls : Moves(l, to)
<1> DEFINE Goal == \E to \in LoginCalls : Moves(l, to)
<1>0. login[l] \in LoginCalls /\ Away.at = "idle"
  BY DEF Typed, LoginTypeOK, Away
<1>1. ASSUME NEW u \in Users, NEW pw \in Passwords, LoginCheck(l, u, pw) PROVE Goal
  <2>1. PICK to \in LoginCalls : to = [at |-> "row", u |-> u, pw |-> pw]
    BY LoginValues
  <2>2. to.at = "row" /\ to.u = u /\ login[l] = Away /\ ~LockedOut(u) /\ login' = [login EXCEPT ![l] = to]
    BY <1>1, <2>1 DEF LoginCheck, LoginGoto
  <2>3. QED
    BY <1>0, <2>2 DEF Moves
<1>2. ASSUME NEW enabled \in BOOLEAN, LoginRow(l, enabled) PROVE Goal
  <2>1. login[l].at = "row" /\ login[l].u \in Users /\ login[l].pw \in Passwords
    BY <1>0, <1>2, LoginFields DEF LoginRow
  <2>2. CASE LoginGoto(l, Away)
    BY <1>0, <2>1, <2>2, LoginValues, Passes
  <2>3. CASE ~LoginGoto(l, Away)
    <3>1. PICK u \in Users, pw \in Passwords, hash \in Passwords, role \in {"admin", "user"},
               totp \in BOOLEAN :
            /\ u = login[l].u
            /\ LoginGoto(l, [at |-> "verify", u |-> u, pw |-> pw, hash |-> hash, role |-> role,
                             totp |-> totp])
      BY <1>2, <2>1, <2>3 DEF LoginRow, Typed, AccountsTypeOK, UserRow
    <3>2. PICK to \in LoginCalls :
            to = [at |-> "verify", u |-> u, pw |-> pw, hash |-> hash, role |-> role, totp |-> totp]
      BY LoginValues
    <3>3. to.at = "verify" /\ to.u = u
      BY <3>2
    <3>4. QED
      BY <2>1, <3>1, <3>2, <3>3 DEF Moves, LoginGoto
  <2>4. QED
    BY <2>2, <2>3
<1>3. ASSUME LoginVerify(l) PROVE Goal
  <2>1. login[l].at = "verify" /\ login[l].u \in Users /\ login[l].role \in {"admin", "user"}
    BY <1>0, <1>3, LoginFields DEF LoginVerify
  <2>2. \/ LoginGoto(l, Away)
        \/ LoginGoto(l, [at |-> "pend", u |-> login[l].u])
        \/ LoginGoto(l, [at |-> "session", u |-> login[l].u, role |-> login[l].role, totp |-> FALSE])
    BY <1>3 DEF LoginVerify
  <2>3. PICK to \in LoginCalls : to = [at |-> "pend", u |-> login[l].u]
    BY <2>1, LoginValues
  <2>4. PICK on \in LoginCalls :
          on = [at |-> "session", u |-> login[l].u, role |-> login[l].role, totp |-> FALSE]
    BY <2>1, LoginValues
  <2>5. to.at = "pend" /\ on.at = "session"
    BY <2>3, <2>4
  <2>6. QED
    BY <1>0, <2>1, <2>2, <2>3, <2>4, <2>5, LoginValues, Passes
<1>4. ASSUME NEW t \in Tokens, create_pending_2fa(l, t) PROVE Goal
  BY <1>0, <1>4, LoginValues, Passes DEF create_pending_2fa
<1>5. ASSUME NEW t \in Tokens, FindPending(l, t) PROVE Goal
  <2>1. PICK u \in Users : LoginGoto(l, [at |-> "consume", u |-> u, token |-> t])
    BY <1>5 DEF FindPending, Typed, LoginTypeOK
  <2>2. PICK to \in LoginCalls : to = [at |-> "consume", u |-> u, token |-> t]
    BY LoginValues
  <2>3. to.at = "consume" /\ login[l] = Away
    BY <1>5, <2>2 DEF FindPending
  <2>4. QED
    BY <1>0, <2>1, <2>2, <2>3, Passes
<1>6. ASSUME ConsumePending(l) PROVE Goal
  <2>1. login[l].at = "consume" /\ login[l].u \in Users
    BY <1>0, <1>6, LoginFields DEF ConsumePending
  <2>2. PICK to \in LoginCalls : to = [at |-> "owner", u |-> login[l].u]
    BY <2>1, LoginValues
  <2>3. to.at = "owner" /\ LoginGoto(l, to)
    BY <1>6, <2>2 DEF ConsumePending
  <2>4. QED
    BY <2>1, <2>3, Passes
<1>7. ASSUME NEW code, CheckCode(l, code) PROVE Goal
  <2>1. login[l].at = "code" /\ login[l].u \in Users /\ login[l].role \in {"admin", "user"}
    BY <1>0, <1>7, LoginFields DEF CheckCode
  <2>2. \/ LoginGoto(l, Away)
        \/ LoginGoto(l, [at |-> "session", u |-> login[l].u, role |-> login[l].role, totp |-> TRUE])
    BY <1>7 DEF CheckCode
  <2>3. PICK to \in LoginCalls :
          to = [at |-> "session", u |-> login[l].u, role |-> login[l].role, totp |-> TRUE]
    BY <2>1, LoginValues
  <2>4. to.at = "session"
    BY <2>3
  <2>5. QED
    BY <1>0, <2>1, <2>2, <2>3, <2>4, LoginValues, Passes
<1>8. ASSUME NEW s \in Sessions, OpenSession(l, s) PROVE Goal
  BY <1>0, <1>8, LoginValues, Passes DEF OpenSession
<1>9. ASSUME NEW s \in Sessions, NEW secret \in Secrets, SetupStart(l, s, secret) PROVE Goal
  <2>1. PICK u \in Users : u = session_cache[s].user
    BY <1>9, Caches DEF SetupStart
  <2>2. /\ login[l] = Away
        /\ LoginGoto(l, Away) \/ LoginGoto(l, [at |-> "s_disable", u |-> u, secret |-> secret])
    BY <1>9, <2>1 DEF SetupStart
  <2>3. PICK to \in LoginCalls : to = [at |-> "s_disable", u |-> u, secret |-> secret]
    BY LoginValues
  <2>4. to.at = "s_disable"
    BY <2>3
  <2>5. QED
    BY <1>0, <2>2, <2>3, <2>4, LoginValues, Passes
<1>10. ASSUME NEW s \in Sessions, NEW secret \in Secrets, VerifyRead(l, s, secret) PROVE Goal
  <2>1. PICK u \in Users : u = session_cache[s].user
    BY <1>10, Caches DEF VerifyRead
  <2>2. login[l] = Away
    BY <1>10 DEF VerifyRead
  <2>3. CASE LoginGoto(l, Away)
    BY <1>0, <2>2, <2>3, LoginValues, Passes
  <2>4. CASE ~LoginGoto(l, Away)
    <3>1. PICK x \in Secrets : /\ LoginGoto(l, [at |-> "v_enable", u |-> u, secret |-> x])
                               /\ x \in verified'
      BY <1>10, <2>1, <2>4, SecretOf DEF VerifyRead
    <3>2. PICK to \in LoginCalls : to = [at |-> "v_enable", u |-> u, secret |-> x]
      BY LoginValues
    <3>3. to.at = "v_enable" /\ to.secret = x
      BY <3>2
    <3>4. QED
      BY <1>0, <2>2, <3>1, <3>2, <3>3 DEF Moves, LoginGoto
  <2>5. QED
    BY <2>3, <2>4
<1>11. ASSUME NEW s \in Sessions, NEW pw \in Passwords, ChangeRead(l, s, pw) PROVE Goal
  <2>1. PICK u \in Users : u = session_cache[s].user
    BY <1>11, Caches DEF ChangeRead
  <2>2. PICK to \in LoginCalls : to = [at |-> "c_write", u |-> u]
    BY LoginValues
  <2>3. to.at = "c_write" /\ LoginGoto(l, to) /\ login[l] = Away
    BY <1>11, <2>1, <2>2 DEF ChangeRead
  <2>4. QED
    BY <1>0, <2>3, Passes
<1>12. ASSUME SetupDisable(l) PROVE Goal
  <2>1. PICK u \in Users, secret \in Secrets : u = login[l].u /\ secret = login[l].secret
    BY <1>0, <1>12, LoginFields DEF SetupDisable
  <2>2. login[l].at = "s_disable" /\ LoginGoto(l, [login[l] EXCEPT !.at = "s_secret"])
    BY <1>12 DEF SetupDisable
  <2>3. PICK to \in LoginCalls : to = [at |-> "s_secret", u |-> u, secret |-> secret]
    BY LoginValues
  <2>4. [login[l] EXCEPT !.at = "s_secret"] = to
    BY <1>0, <2>1, <2>2, <2>3 DEF LoginCalls, Away
  <2>5. to.at = "s_secret"
    BY <2>3
  <2>6. QED
    BY <1>12, <2>2, <2>4, <2>5 DEF Moves, LoginGoto
<1>13. ASSUME SetupSecret(l) PROVE Goal
  <2>1. login[l].at = "s_secret" /\ login[l].u \in Users
    BY <1>0, <1>13, LoginFields DEF SetupSecret
  <2>2. PICK to \in LoginCalls : to = [at |-> "s_codes", u |-> login[l].u]
    BY <2>1, LoginValues
  <2>3. to.at = "s_codes" /\ LoginGoto(l, to)
    BY <1>13, <2>2 DEF SetupSecret
  <2>4. QED
    BY <2>1, <2>3, Passes
<1>14. ASSUME VerifyEnable(l) PROVE Goal
  BY <1>0, <1>14, LoginValues, Passes DEF VerifyEnable
<1>15. ASSUME NEW k \in Codes, SetupCodes(l, {k}) PROVE Goal
  BY <1>0, <1>15, LoginValues, Passes DEF SetupCodes
<1>16. ASSUME NEW pw \in Passwords, ChangeWrite(l, pw) PROVE Goal
  BY <1>0, <1>16, LoginValues, Passes DEF ChangeWrite
<1>17. ASSUME NEW st \in States, GoogleCallback(l, st) PROVE Goal
  <2>1. login[l] = Away
    BY <1>17 DEF GoogleCallback
  <2>2. CASE UNCHANGED login
    <3>1. LoginGoto(l, Away)
      BY <2>1, <2>2 DEF LoginGoto, Typed, LoginTypeOK
    <3>2. QED
      BY <1>0, <2>1, <3>1, LoginValues, Passes
  <2>3. CASE login' # login
    <3>1. PICK linking \in Users \cup {None} : LoginGoto(l, [at |-> "exchange", linking |-> linking])
      BY <1>17, <2>3 DEF GoogleCallback, Typed, LoginTypeOK
    <3>2. PICK to \in LoginCalls : to = [at |-> "exchange", linking |-> linking]
      BY LoginValues
    <3>3. to.at = "exchange"
      BY <3>2
    <3>4. QED
      BY <1>0, <2>1, <3>1, <3>2, <3>3, Passes
  <2>4. QED
    BY <2>2, <2>3
<1>18. ASSUME NEW u \in Users, GoogleIdentity(l, u) PROVE Goal
  <2>1. login[l].at = "exchange"
    BY <1>18 DEF GoogleIdentity
  <2>2. CASE LoginGoto(l, Away)
    BY <1>0, <2>1, <2>2, LoginValues, Passes
  <2>3. CASE LoginGoto(l, [at |-> "g_link", u |-> u])
    <3>1. PICK to \in LoginCalls : to = [at |-> "g_link", u |-> u]
      BY LoginValues
    <3>2. to.at = "g_link"
      BY <3>1
    <3>3. QED
      BY <2>1, <2>3, <3>1, <3>2, Passes
  <2>4. CASE LoginGoto(l, [at |-> "g_auth", u |-> u, role |-> upsert_user(users, u)[u].role])
    <3>1. upsert_user(users, u)[u].role \in {"admin", "user"}
      BY DEF upsert_user, UserRow, Typed, AccountsTypeOK
    <3>2. PICK to \in LoginCalls :
            to = [at |-> "g_auth", u |-> u, role |-> upsert_user(users, u)[u].role]
      BY <3>1, LoginValues
    <3>3. to.at = "g_auth"
      BY <3>2
    <3>4. QED
      BY <2>1, <2>4, <3>2, <3>3, Passes
  <2>5. QED
    BY <1>18, <2>2, <2>3, <2>4 DEF GoogleIdentity
<1>19. ASSUME GoogleLink(l) PROVE Goal
  BY <1>0, <1>19, LoginValues, Passes DEF GoogleLink
<1>20. ASSUME GoogleAuth(l) PROVE Goal
  <2>1. login[l].at = "g_auth" /\ UNCHANGED users
    BY <1>20 DEF GoogleAuth
  <2>2. PICK u \in Users, role \in {"admin", "user"} : u = login[l].u /\ role = login[l].role
    BY <1>0, <2>1, LoginFields
  <2>3. CASE users[u] # None /\ users[u].auth_method = "password" /\ ~get_google_linked(users, u)
    <3>1. LoginGoto(l, Away)
      BY <1>20, <2>2, <2>3 DEF GoogleAuth
    <3>2. QED
      BY <1>0, <2>1, <3>1, LoginValues, Passes
  <2>4. CASE ~(users[u] # None /\ users[u].auth_method = "password" /\ ~get_google_linked(users, u))
    <3>1. LoginGoto(l, [at |-> "g_linked", u |-> u, role |-> role])
      BY <1>20, <2>2, <2>4 DEF GoogleAuth
    <3>2. PICK to \in LoginCalls : to = [at |-> "g_linked", u |-> u, role |-> role]
      BY LoginValues
    <3>3. to.at = "g_linked" /\ to.u = u
      BY <3>2
    <3>4. users[u] # None => users[u].auth_method # "password" \/ users[u].google_linked
      BY <2>4 DEF get_google_linked
    <3>5. QED
      BY <2>1, <3>1, <3>2, <3>3, <3>4 DEF Moves, LoginGoto
  <2>5. QED
    BY <2>3, <2>4
<1>21. ASSUME GoogleLinked(l) PROVE Goal
  <2>1. login[l].at = "g_linked" /\ login[l].u \in Users /\ login[l].role \in {"admin", "user"}
    BY <1>0, <1>21, LoginFields DEF GoogleLinked
  <2>2. PICK to \in LoginCalls :
          to = [at |-> "session", u |-> login[l].u, role |-> login[l].role, totp |-> FALSE]
    BY <2>1, LoginValues
  <2>3. to.at = "session" /\ LoginGoto(l, to)
    BY <1>21, <2>2 DEF GoogleLinked
  <2>4. QED
    BY <2>1, <2>3, Passes
<1>22. ASSUME LoginDropped(l) PROVE Goal
  <2>1. login[l].at = "s_disable" => half_set_up'
    BY <1>22 DEF LoginDropped
  <2>2. LoginGoto(l, Away)
    BY <1>22 DEF LoginDropped
  <2>3. QED
    BY <1>0, <2>1, <2>2, LoginValues DEF Moves, LoginGoto
<1>23. ASSUME ReadOwner(l) PROVE Goal
  <2>1. login[l].at = "owner" /\ login[l].u \in Users
    BY <1>0, <1>23, LoginFields DEF ReadOwner
  <2>2. users[login[l].u].role \in {"admin", "user"}
    BY <1>23, <2>1 DEF ReadOwner, UserRow, Typed, AccountsTypeOK
  <2>3. PICK to \in LoginCalls :
          to = [at |-> "code", u |-> login[l].u, role |-> users[login[l].u].role]
    BY <2>1, <2>2, LoginValues
  <2>4. to.at = "code" /\ LoginGoto(l, to)
    BY <1>23, <2>3 DEF ReadOwner
  <2>5. QED
    BY <2>1, <2>4, Passes
<1>24. QED
  BY <1>1, <1>2, <1>3, <1>4, <1>5, <1>6, <1>7, <1>8, <1>9, <1>10, <1>11, <1>12, <1>13, <1>14,
     <1>15, <1>16, <1>17, <1>18, <1>19, <1>20, <1>21, <1>22, <1>23 DEF LoginStep

-----------------------------------------------------------------------------
(* Which steps of a call may touch a variable.                             *)
LEMMA StepChanges ==
    ASSUME NEW l \in Logins, LoginStep(l)
    PROVE  /\ LoginVerify(l) \/ UNCHANGED limiter
           /\ \/ \E t \in Tokens : create_pending_2fa(l, t)
              \/ ConsumePending(l)
              \/ UNCHANGED pending_2fa
           /\ \/ \E code \in Codes \cup Secrets \cup {None} : CheckCode(l, code)
              \/ \E k \in Codes : SetupCodes(l, {k})
              \/ UNCHANGED <<recovery, opened>>
           /\ (\E st \in States : GoogleCallback(l, st)) \/ UNCHANGED <<oauth_pending, answered>>
<1>1. LoginVerify(l) \/ UNCHANGED limiter
  BY DEF LoginStep, LoginCheck, LoginRow, LoginVerify, create_pending_2fa, FindPending, ConsumePending,
      ReadOwner, CheckCode, OpenSession, SetupStart, VerifyRead, ChangeRead, SetupDisable, SetupSecret,
      VerifyEnable, SetupCodes, ChangeWrite, GoogleCallback, GoogleIdentity, GoogleLink, GoogleAuth,
      GoogleLinked, LoginDropped
<1>2. \/ \E t \in Tokens : create_pending_2fa(l, t)
      \/ ConsumePending(l)
      \/ UNCHANGED pending_2fa
  BY DEF LoginStep, LoginCheck, LoginRow, LoginVerify, create_pending_2fa, FindPending, ConsumePending,
      ReadOwner, CheckCode, OpenSession, SetupStart, VerifyRead, ChangeRead, SetupDisable, SetupSecret,
      VerifyEnable, SetupCodes, ChangeWrite, GoogleCallback, GoogleIdentity, GoogleLink, GoogleAuth,
      GoogleLinked, LoginDropped
<1>3. \/ \E code \in Codes \cup Secrets \cup {None} : CheckCode(l, code)
      \/ \E k \in Codes : SetupCodes(l, {k})
      \/ UNCHANGED <<recovery, opened>>
  BY DEF LoginStep, LoginCheck, LoginRow, LoginVerify, create_pending_2fa, FindPending, ConsumePending,
      ReadOwner, CheckCode, OpenSession, SetupStart, VerifyRead, ChangeRead, SetupDisable, SetupSecret,
      VerifyEnable, SetupCodes, ChangeWrite, GoogleCallback, GoogleIdentity, GoogleLink, GoogleAuth,
      GoogleLinked, LoginDropped
<1>4. (\E st \in States : GoogleCallback(l, st)) \/ UNCHANGED <<oauth_pending, answered>>
  BY DEF LoginStep, LoginCheck, LoginRow, LoginVerify, create_pending_2fa, FindPending, ConsumePending,
      ReadOwner, CheckCode, OpenSession, SetupStart, VerifyRead, ChangeRead, SetupDisable, SetupSecret,
      VerifyEnable, SetupCodes, ChangeWrite, GoogleCallback, GoogleIdentity, GoogleLink, GoogleAuth,
      GoogleLinked, LoginDropped
<1> QED BY <1>1, <1>2, <1>3, <1>4

LEMMA AccountChanges ==
    ASSUME NEW l \in Logins, LoginStep(l)
    PROVE  /\ \/ \E s \in Sessions : OpenSession(l, s)
              \/ VerifyEnable(l)
              \/ UNCHANGED <<sessions, session_cache>>
           /\ \/ \E s \in Sessions, secret \in Secrets : SetupStart(l, s, secret)
              \/ SetupDisable(l) \/ SetupSecret(l) \/ VerifyEnable(l)
              \/ \E pw \in Passwords : ChangeWrite(l, pw)
              \/ \E u \in Users : GoogleIdentity(l, u)
              \/ GoogleLink(l) \/ GoogleLinked(l)
              \/ UNCHANGED users
           /\ (\E s \in Sessions, secret \in Secrets : VerifyRead(l, s, secret)) \/ UNCHANGED verified
           /\ SetupSecret(l) \/ LoginDropped(l) \/ UNCHANGED half_set_up
           /\ (\E u \in Users : GoogleIdentity(l, u)) \/ GoogleLink(l) \/ UNCHANGED consented
<1>1. \/ \E s \in Sessions : OpenSession(l, s)
      \/ VerifyEnable(l)
      \/ UNCHANGED <<sessions, session_cache>>
  BY DEF LoginStep, LoginCheck, LoginRow, LoginVerify, create_pending_2fa, FindPending, ConsumePending,
      ReadOwner, CheckCode, OpenSession, SetupStart, VerifyRead, ChangeRead, SetupDisable, SetupSecret,
      VerifyEnable, SetupCodes, ChangeWrite, GoogleCallback, GoogleIdentity, GoogleLink, GoogleAuth,
      GoogleLinked, LoginDropped
<1>2. \/ \E s \in Sessions, secret \in Secrets : SetupStart(l, s, secret)
      \/ SetupDisable(l) \/ SetupSecret(l) \/ VerifyEnable(l)
      \/ \E pw \in Passwords : ChangeWrite(l, pw)
      \/ \E u \in Users : GoogleIdentity(l, u)
      \/ GoogleLink(l) \/ GoogleLinked(l)
      \/ UNCHANGED users
  BY DEF LoginStep, LoginCheck, LoginRow, LoginVerify, create_pending_2fa, FindPending, ConsumePending,
      ReadOwner, CheckCode, OpenSession, SetupStart, VerifyRead, ChangeRead, SetupDisable, SetupSecret,
      VerifyEnable, SetupCodes, ChangeWrite, GoogleCallback, GoogleIdentity, GoogleLink, GoogleAuth,
      GoogleLinked, LoginDropped
<1>3. (\E s \in Sessions, secret \in Secrets : VerifyRead(l, s, secret)) \/ UNCHANGED verified
  BY DEF LoginStep, LoginCheck, LoginRow, LoginVerify, create_pending_2fa, FindPending, ConsumePending,
      ReadOwner, CheckCode, OpenSession, SetupStart, VerifyRead, ChangeRead, SetupDisable, SetupSecret,
      VerifyEnable, SetupCodes, ChangeWrite, GoogleCallback, GoogleIdentity, GoogleLink, GoogleAuth,
      GoogleLinked, LoginDropped
<1>4. SetupSecret(l) \/ LoginDropped(l) \/ UNCHANGED half_set_up
  BY DEF LoginStep, LoginCheck, LoginRow, LoginVerify, create_pending_2fa, FindPending, ConsumePending,
      ReadOwner, CheckCode, OpenSession, SetupStart, VerifyRead, ChangeRead, SetupDisable, SetupSecret,
      VerifyEnable, SetupCodes, ChangeWrite, GoogleCallback, GoogleIdentity, GoogleLink, GoogleAuth,
      GoogleLinked, LoginDropped
<1>5. (\E u \in Users : GoogleIdentity(l, u)) \/ GoogleLink(l) \/ UNCHANGED consented
  BY DEF LoginStep, LoginCheck, LoginRow, LoginVerify, create_pending_2fa, FindPending, ConsumePending,
      ReadOwner, CheckCode, OpenSession, SetupStart, VerifyRead, ChangeRead, SetupDisable, SetupSecret,
      VerifyEnable, SetupCodes, ChangeWrite, GoogleCallback, GoogleIdentity, GoogleLink, GoogleAuth,
      GoogleLinked, LoginDropped
<1> QED BY <1>1, <1>2, <1>3, <1>4, <1>5

Entries == [count : Nat, since : Nat]

(* What the check of a password leaves in the limiter for its user: none, a *)
(* first failure, or one more in the same window.                          *)
LEMMA VerifyLimits ==
    ASSUME Typed, NEW l \in Logins, LoginVerify(l)
    PROVE  \E entry \in Entries \cup {None} :
              /\ limiter' = [limiter EXCEPT ![login[l].u] = entry]
              /\ \/ entry = None
                 \/ entry.count = 1
                 \/ /\ limiter[login[l].u] # None
                    /\ now - limiter[login[l].u].since < Lockout
                    /\ entry.count = limiter[login[l].u].count + 1
                    /\ entry.since = limiter[login[l].u].since
<1>1. PICK u \in Users : u = login[l].u
  BY LoginFields DEF LoginVerify, Typed, LoginTypeOK
<1>2. now \in Nat /\ Lockout \in Nat /\ limiter \in [Users -> Entries \cup {None}]
  BY AccountsAssumption, PasswordLoginAssumption DEF Typed, AccountsTypeOK, LoginTypeOK, Entries
<1>3. CASE clear_rate_limit(u)
  BY <1>1, <1>3 DEF clear_rate_limit
<1>4. CASE record_login_failure(u)
  <2>1. PICK entry :
          /\ limiter' = [limiter EXCEPT ![u] = entry]
          /\ entry = IF limiter[u] = None THEN [count |-> 1, since |-> now]
                     ELSE IF now - limiter[u].since >= Lockout THEN [count |-> 1, since |-> now]
                     ELSE [count |-> limiter[u].count + 1, since |-> limiter[u].since]
    BY <1>4 DEF record_login_failure
  <2>2. CASE limiter[u] = None \/ now - limiter[u].since >= Lockout
    <3>1. entry \in Entries /\ entry.count = 1
      BY <1>2, <2>1, <2>2 DEF Entries
    <3>2. QED
      BY <1>1, <2>1, <3>1
  <2>3. CASE ~(limiter[u] = None \/ now - limiter[u].since >= Lockout)
    <3>1. limiter[u] \in Entries
      BY <1>2, <2>3
    <3>2. /\ entry \in Entries
          /\ entry.count = limiter[u].count + 1
          /\ entry.since = limiter[u].since
      BY <2>1, <2>3, <3>1 DEF Entries
    <3>3. now - limiter[u].since < Lockout
      BY <1>2, <2>3, <3>1 DEF Entries
    <3>4. QED
      BY <1>1, <2>1, <2>3, <3>2, <3>3
  <2>4. QED
    BY <2>2, <2>3
<1>5. QED
  BY <1>1, <1>3, <1>4 DEF LoginVerify

(* A step of a call keeps the types of all that it changes.                *)
LEMMA StepTyped ==
    ASSUME Typed, NEW l \in Logins, LoginStep(l), UNCHANGED <<now, allowed_domains>>
    PROVE  Typed'
<1> DEFINE CachesTyped == /\ sessions' \in [Sessions -> SessionRow \cup {None}]
                          /\ session_cache' \in [Sessions -> SessionInfo \cup {None}]
           PendingTyped == pending_2fa' \in [Tokens -> [user : Users, expires : Nat] \cup {None}]
           CodesTyped == /\ recovery' \in [Codes -> [user : Users, used : BOOLEAN] \cup {None}]
                         /\ opened' \in [Codes -> Nat]
           StatesTyped ==
             /\ oauth_pending' \in [States -> [created : Nat, linking : Users \cup {None}] \cup {None}]
             /\ answered' \in [States -> Nat]
<1>0. /\ now \in Nat /\ users \in UserTable /\ login[l] \in LoginCalls
      /\ PendingTtl \in Nat /\ SessionTtl \in Nat
  BY AccountsAssumption, PasswordLoginAssumption DEF Typed, AccountsTypeOK, LoginTypeOK, UserTable
<1>1. users' \in UserTable
  <2>1. ASSUME NEW s \in Sessions, NEW secret \in Secrets, SetupStart(l, s, secret)
        PROVE  users' \in UserTable
    <3>1. session_cache[s].user \in Users
      BY <2>1, Caches DEF SetupStart
    <3>2. QED
      BY <1>0, <2>1, <3>1, StatementsTyped DEF SetupStart
  <2>2. ASSUME SetupDisable(l) PROVE users' \in UserTable
    BY <1>0, <2>2, LoginFields, StatementsTyped DEF SetupDisable
  <2>3. ASSUME SetupSecret(l) PROVE users' \in UserTable
    BY <1>0, <2>3, LoginFields, StatementsTyped DEF SetupSecret
  <2>4. ASSUME VerifyEnable(l) PROVE users' \in UserTable
    BY <1>0, <2>4, LoginFields, StatementsTyped DEF VerifyEnable
  <2>5. ASSUME NEW pw \in Passwords, ChangeWrite(l, pw) PROVE users' \in UserTable
    BY <1>0, <2>5, LoginFields, StatementsTyped DEF ChangeWrite
  <2>6. ASSUME NEW u \in Users, GoogleIdentity(l, u) PROVE users' \in UserTable
    BY <1>0, <2>6, StatementsTyped DEF GoogleIdentity
  <2>7. ASSUME GoogleLink(l) PROVE users' \in UserTable
    BY <1>0, <2>7, LoginFields, StatementsTyped DEF GoogleLink
  <2>8. ASSUME GoogleLinked(l) PROVE users' \in UserTable
    BY <1>0, <2>8, LoginFields, StatementsTyped DEF GoogleLinked
  <2>9. QED
    BY <1>0, <2>1, <2>2, <2>3, <2>4, <2>5, <2>6, <2>7, <2>8, AccountChanges
<1>2. CachesTyped
  <2>1. ASSUME NEW s \in Sessions, OpenSession(l, s) PROVE CachesTyped
    <3>1. PICK u \in Users, role \in {"admin", "user"}, totp \in BOOLEAN :
            u = login[l].u /\ role = login[l].role /\ totp = login[l].totp
      BY <1>0, <2>1, LoginFields DEF OpenSession
    <3>2. CASE users[u] = None
      BY <2>1, <3>1, <3>2 DEF OpenSession, Typed, AccountsTypeOK
    <3>3. CASE users[u] # None
      <4>2. [user |-> u, role |-> role, expires |-> now + SessionTtl, totp_enabled |-> totp]
              \in SessionInfo
        BY <1>0 DEF SessionInfo
      <4>3. [user |-> u, expires |-> now + SessionTtl] \in SessionRow
        BY <1>0 DEF SessionRow
      <4>4. QED
        BY <2>1, <3>1, <3>3, <4>2, <4>3 DEF OpenSession, create_session, Typed, AccountsTypeOK
    <3>4. QED
      BY <3>2, <3>3
  <2>2. ASSUME VerifyEnable(l) PROVE CachesTyped
    <3>1. \A s \in Sessions : session_cache[s] # None =>
             [session_cache[s] EXCEPT !.totp_enabled = TRUE] \in SessionInfo
      BY DEF Typed, AccountsTypeOK, SessionInfo
    <3>2. QED
      BY <2>2, <3>1 DEF VerifyEnable, FlagSessions, Typed, AccountsTypeOK
  <2>3. QED
    BY <2>1, <2>2, AccountChanges DEF Typed, AccountsTypeOK
<1>3. limiter' \in [Users -> [count : Nat, since : Nat] \cup {None}]
  <2>1. ASSUME LoginVerify(l) PROVE limiter' \in [Users -> Entries \cup {None}]
    BY <2>1, VerifyLimits DEF Typed, LoginTypeOK, Entries
  <2>2. QED
    BY <2>1, StepChanges DEF Typed, LoginTypeOK, Entries
<1>4. PendingTyped
  <2>1. ASSUME NEW t \in Tokens, create_pending_2fa(l, t) PROVE PendingTyped
    <3>1. login[l].u \in Users
      BY <1>0, <2>1, LoginFields DEF create_pending_2fa
    <3>2. QED
      BY <1>0, <2>1, <3>1 DEF create_pending_2fa, Typed, LoginTypeOK
  <2>2. ASSUME ConsumePending(l) PROVE PendingTyped
    BY <2>2 DEF ConsumePending, Typed, LoginTypeOK
  <2>3. QED
    BY <2>1, <2>2, StepChanges DEF Typed, LoginTypeOK
<1>5. CodesTyped
  <2>1. ASSUME NEW code, CheckCode(l, code) PROVE CodesTyped
    <3>1. CASE UNCHANGED <<recovery, opened>>
      BY <3>1 DEF Typed, LoginTypeOK
    <3>2. CASE ~UNCHANGED <<recovery, opened>>
      <4>1. /\ code \in Codes /\ recovery[code] # None
            /\ recovery' = [recovery EXCEPT ![code].used = TRUE]
            /\ opened' = [opened EXCEPT ![code] = @ + 1]
        BY <2>1, <3>2 DEF CheckCode, CanUse
      <4>2. [recovery[code] EXCEPT !.used = TRUE] \in [user : Users, used : BOOLEAN]
        BY <4>1 DEF Typed, LoginTypeOK
      <4>3. QED
        BY <4>1, <4>2 DEF Typed, LoginTypeOK
    <3>3. QED
      BY <3>1, <3>2
  <2>2. ASSUME NEW k \in Codes, SetupCodes(l, {k}) PROVE CodesTyped
    <3>1. login[l].u \in Users
      BY <1>0, <2>2, LoginFields DEF SetupCodes
    <3>2. QED
      BY <2>2, <3>1 DEF SetupCodes, Typed, LoginTypeOK
  <2>3. QED
    BY <2>1, <2>2, StepChanges DEF Typed, LoginTypeOK
<1>6. StatesTyped
  <2>1. ASSUME NEW st \in States, GoogleCallback(l, st) PROVE StatesTyped
    <3>1. oauth_pending' \in [States -> [created : Nat, linking : Users \cup {None}] \cup {None}]
      BY <2>1 DEF GoogleCallback, Typed, LoginTypeOK
    <3>2. UNCHANGED answered \/ answered' = [answered EXCEPT ![st] = @ + 1]
      BY <2>1 DEF GoogleCallback
    <3>3. QED
      BY <3>1, <3>2 DEF Typed, LoginTypeOK
  <2>2. QED
    BY <2>1, StepChanges DEF Typed, LoginTypeOK
<1>7. login' \in [Logins -> LoginCalls]
  BY CallMoves DEF Moves, Typed, LoginTypeOK
<1>8. verified' \subseteq Secrets
  <2>1. (\E secret \in Secrets : verified' = verified \cup {secret}) \/ UNCHANGED verified
    BY AccountChanges, Caches, SecretOf DEF VerifyRead
  <2>2. QED
    BY <2>1 DEF Typed, LoginTypeOK
<1>9. half_set_up' \in BOOLEAN
  <2>1. half_set_up \in BOOLEAN
    BY DEF Typed, LoginTypeOK
  <2>2. (\E p \in BOOLEAN : half_set_up' = (half_set_up \/ p)) \/ UNCHANGED half_set_up
    BY AccountChanges, Zenon DEF SetupSecret, LoginDropped
  <2>3. QED
    BY <2>1, <2>2
<1>10. consented' \subseteq Users
  <2>1. (\E u \in Users : consented' = consented \cup {u}) \/ UNCHANGED consented
    BY <1>0, AccountChanges, LoginFields DEF GoogleIdentity, GoogleLink
  <2>2. QED
    BY <2>1 DEF Typed, LoginTypeOK
<1>11. now' \in 0..MaxTime /\ allowed_domains' \in [Domains -> Users \cup {None}]
  BY DEF Typed, AccountsTypeOK
<1>12. QED
  BY <1>1, <1>2, <1>3, <1>4, <1>5, <1>6, <1>7, <1>8, <1>9, <1>10, <1>11
  DEF Typed, AccountsTypeOK, LoginTypeOK, UserTable

-----------------------------------------------------------------------------
(* What is for one use: an unused code let nobody through, a pending state *)
(* was not answered.                                                       *)
UsedInv ==
    /\ \A k \in Codes : opened[k] <= 1 /\ (recovery[k] # None /\ ~recovery[k].used => opened[k] = 0)
    /\ \A st \in States : answered[st] <= 1 /\ (oauth_pending[st] # None => answered[st] = 0)

LEMMA UsedStep ==
    ASSUME Typed, UsedInv, NEW l \in Logins, LoginStep(l)
    PROVE  UsedInv'
<1> DEFINE CodesOnce == \A k \in Codes :
                opened[k] <= 1 /\ (recovery[k] # None /\ ~recovery[k].used => opened[k] = 0)
           StatesOnce == \A st \in States :
                answered[st] <= 1 /\ (oauth_pending[st] # None => answered[st] = 0)
<1>0. /\ CodesOnce /\ StatesOnce
      /\ recovery \in [Codes -> [user : Users, used : BOOLEAN] \cup {None}]
      /\ opened \in [Codes -> Nat] /\ answered \in [States -> Nat]
      /\ oauth_pending \in [States -> [created : Nat, linking : Users \cup {None}] \cup {None}]
  BY DEF UsedInv, Typed, LoginTypeOK
<1>1. CodesOnce'
  <2>1. ASSUME NEW code \in Codes \cup Secrets \cup {None}, CheckCode(l, code) PROVE CodesOnce'
    <3>1. CASE UNCHANGED <<recovery, opened>>
      BY <1>0, <3>1
    <3>2. CASE ~UNCHANGED <<recovery, opened>>
      <4>1. /\ code \in Codes /\ recovery[code] # None /\ ~recovery[code].used
            /\ recovery' = [recovery EXCEPT ![code].used = TRUE]
            /\ opened' = [opened EXCEPT ![code] = @ + 1]
        BY <2>1, <3>2 DEF CheckCode, CanUse
      <4>2. recovery'[code].used /\ opened'[code] = 1
        BY <1>0, <4>1
      <4>3. \A k \in Codes : k # code => recovery'[k] = recovery[k] /\ opened'[k] = opened[k]
        BY <1>0, <4>1
      <4>4. QED
        BY <1>0, <4>2, <4>3
    <3>3. QED
      BY <3>1, <3>2
  <2>2. ASSUME NEW k \in Codes, SetupCodes(l, {k}) PROVE CodesOnce'
    <3>1. UNCHANGED opened /\ opened[k] = 0
      BY <2>2 DEF SetupCodes
    <3>2. \A x \in Codes : x # k => recovery'[x] \in {recovery[x], None}
      BY <2>2 DEF SetupCodes
    <3>3. QED
      BY <1>0, <3>1, <3>2
  <2>3. CASE UNCHANGED <<recovery, opened>>
    BY <1>0, <2>3
  <2>4. QED
    BY <2>1, <2>2, <2>3, StepChanges
<1>2. StatesOnce'
  <2>1. ASSUME NEW st \in States, GoogleCallback(l, st) PROVE StatesOnce'
    <3>1. /\ oauth_pending[st] # None /\ oauth_pending' = [oauth_pending EXCEPT ![st] = None]
          /\ UNCHANGED answered \/ answered' = [answered EXCEPT ![st] = @ + 1]
      BY <2>1 DEF GoogleCallback
    <3>2. QED
      BY <1>0, <3>1
  <2>2. CASE UNCHANGED <<oauth_pending, answered>>
    BY <1>0, <2>2
  <2>3. QED
    BY <2>1, <2>2, StepChanges
<1>3. QED
  BY <1>1, <1>2 DEF UsedInv

-----------------------------------------------------------------------------
(* The calls that have passed the check of the limiter for u and may still *)
(* count a failure.                                                        *)
Trying(u) == {l \in Logins : login[l].at \in {"row", "verify"} /\ login[l].u = u}

(* The failures counted, and those that the calls under way can still add, *)
(* stay below the bound; or the window is over, and the next failure       *)
(* starts a new one.                                                       *)
LockoutInv ==
    \A u \in Users : limiter[u] # None =>
        \/ limiter[u].count + Cardinality(Trying(u)) < MaxAttempts + Cardinality(Logins)
        \/ /\ limiter[u].count < MaxAttempts + Cardinality(Logins)
           /\ now - limiter[u].since >= Lockout

(* A call joins those under way where the limiter is looked at, and leaves *)
(* them with the check of its password.                                    *)
LEMMA TryingMoves ==
    ASSUME Typed, NEW l \in Logins, NEW to, Moves(l, to), NEW u \in Users
    PROVE  /\ Cardinality(Trying(u)) \in Nat /\ Cardinality(Trying(u)') \in Nat
           /\ Cardinality(Logins) \in Nat
           /\ Cardinality(Trying(u)') <= Cardinality(Logins)
           /\ (to.at = "row" /\ to.u = u) \/ Cardinality(Trying(u)') <= Cardinality(Trying(u))
           /\ login[l].at = "verify" /\ login[l].u = u =>
                /\ Cardinality(Trying(u)') <= Cardinality(Logins) - 1
                /\ Cardinality(Trying(u)') <= Cardinality(Trying(u)) - 1
<1>1. PICK T : T = Trying(u)
  OBVIOUS
<1>2. PICK T2 : T2 = Trying(u)'
  OBVIOUS
<1>3. /\ \A x \in Logins \ {l} : login'[x] = login[x]
      /\ login'[l] = to
  BY DEF Moves, Typed, LoginTypeOK
<1>4. /\ T \subseteq Logins /\ T2 \subseteq Logins
      /\ (to.at = "row" /\ to.u = u) \/ T2 \subseteq T
      /\ login[l].at = "verify" /\ login[l].u = u =>
            l \in T /\ T2 \subseteq Logins \ {l} /\ T2 \subseteq T \ {l}
  BY <1>1, <1>2, <1>3 DEF Trying, Moves
<1>5. IsFiniteSet(Logins)
  BY PasswordLoginAssumption
<1>6. /\ IsFiniteSet(T) /\ Cardinality(T) \in Nat
      /\ IsFiniteSet(T2) /\ Cardinality(T2) \in Nat
      /\ Cardinality(Logins) \in Nat /\ Cardinality(T2) <= Cardinality(Logins)
  BY <1>4, <1>5, FS_Subset, FS_CardinalityType
<1>7. T2 \subseteq T => Cardinality(T2) <= Cardinality(T)
  BY <1>6, FS_Subset
<1>8. ASSUME l \in T, T2 \subseteq Logins \ {l}, T2 \subseteq T \ {l}
      PROVE  Cardinality(T2) <= Cardinality(Logins) - 1 /\ Cardinality(T2) <= Cardinality(T) - 1
  <2>1. /\ IsFiniteSet(Logins \ {l}) /\ Cardinality(Logins \ {l}) = Cardinality(Logins) - 1
        /\ IsFiniteSet(T \ {l}) /\ Cardinality(T \ {l}) = Cardinality(T) - 1
    BY <1>5, <1>6, <1>8, FS_RemoveElement
  <2>2. QED
    BY <1>8, <2>1, FS_Subset
<1>9. QED
  BY <1>1, <1>2, <1>4, <1>6, <1>7, <1>8

LEMMA LockoutStep ==
    ASSUME Typed, LockoutInv, NEW l \in Logins, LoginStep(l), UNCHANGED now
    PROVE  LockoutInv'
<1> SUFFICES ASSUME NEW u \in Users, limiter'[u] # None
             PROVE  \/ limiter'[u].count + Cardinality(Trying(u)') < MaxAttempts + Cardinality(Logins)
                    \/ /\ limiter'[u].count < MaxAttempts + Cardinality(Logins)
                       /\ now' - limiter'[u].since >= Lockout
  BY DEF LockoutInv
<1>1. PICK to \in LoginCalls : Moves(l, to)
  BY CallMoves
<1>2. PICK before, after, all \in Nat :
        /\ before = Cardinality(Trying(u)) /\ after = Cardinality(Trying(u)')
        /\ all = Cardinality(Logins)
        /\ after <= all
        /\ (to.at = "row" /\ to.u = u) \/ after <= before
        /\ login[l].at = "verify" /\ login[l].u = u => after <= all - 1 /\ after <= before - 1
  BY <1>1, TryingMoves
<1>3. /\ now \in Nat /\ Lockout \in Nat /\ MaxAttempts \in Nat \ {0}
      /\ limiter \in [Users -> Entries \cup {None}]
  BY AccountsAssumption, PasswordLoginAssumption DEF Typed, AccountsTypeOK, LoginTypeOK, Entries
<1>4. limiter[u] # None =>
        /\ limiter[u].count \in Nat /\ limiter[u].since \in Nat
        /\ \/ limiter[u].count + before < MaxAttempts + all
           \/ limiter[u].count < MaxAttempts + all /\ now - limiter[u].since >= Lockout
  BY <1>2, <1>3 DEF LockoutInv, Entries
<1>5. CASE limiter'[u] = limiter[u]
  <2>1. CASE to.at = "row" /\ to.u = u
    <3>1. limiter[u].count < MaxAttempts \/ now - limiter[u].since >= Lockout
      BY <1>1, <1>3, <1>4, <1>5, <2>1 DEF Moves, LockedOut
    <3>2. QED
      BY <1>2, <1>3, <1>4, <1>5, <3>1
  <2>2. CASE after <= before
    BY <1>2, <1>3, <1>4, <1>5, <2>2
  <2>3. QED
    BY <1>2, <2>1, <2>2
<1>6. CASE limiter'[u] # limiter[u]
  <2>1. LoginVerify(l) /\ login[l].at = "verify"
    BY <1>6, StepChanges DEF LoginVerify
  <2>2. PICK entry \in Entries \cup {None} :
              /\ limiter' = [limiter EXCEPT ![login[l].u] = entry]
              /\ \/ entry = None
                 \/ entry.count = 1
                 \/ /\ limiter[login[l].u] # None
                    /\ now - limiter[login[l].u].since < Lockout
                    /\ entry.count = limiter[login[l].u].count + 1
                    /\ entry.since = limiter[login[l].u].since
    BY <2>1, VerifyLimits
  <2>3. login[l].u = u /\ limiter'[u] = entry /\ entry \in Entries
    BY <1>3, <1>6, <2>2
  <2>4. entry.count + after < MaxAttempts + all
    <3>1. CASE entry.count = 1
      BY <1>2, <1>3, <2>1, <2>3, <3>1
    <3>2. CASE /\ limiter[u] # None /\ now - limiter[u].since < Lockout
               /\ entry.count = limiter[u].count + 1
      BY <1>2, <1>3, <1>4, <2>1, <2>3, <3>2
    <3>3. QED
      BY <2>2, <2>3, <3>1, <3>2
  <2>5. QED
    BY <1>2, <2>3, <2>4
<1>7. QED
  BY <1>5, <1>6

-----------------------------------------------------------------------------
(* The invariant of the second factor, for each user on its own: only a    *)
(* set-up of the same user can have enabled a secret nobody showed a code  *)
(* of.                                                                     *)
TotpInv ==
    /\ \A u \in Users : users[u] # None /\ users[u].totp_enabled =>
        \/ users[u].totp_secret \in verified
        \/ half_set_up
        \/ \E l \in Logins : login[l].at = "s_disable" /\ login[l].u = u
    /\ \A l \in Logins : login[l].at = "v_enable" => login[l].secret \in verified

LEMMA HistoryGrows ==
    ASSUME Typed, NEW l \in Logins, LoginStep(l)
    PROVE  /\ verified \subseteq verified' /\ consented \subseteq consented'
           /\ half_set_up => half_set_up'
<1>1. verified \subseteq verified'
  BY AccountChanges DEF VerifyRead
<1>2. consented \subseteq consented'
  BY AccountChanges DEF GoogleIdentity, GoogleLink
<1>3. half_set_up => half_set_up'
  BY AccountChanges DEF SetupSecret, LoginDropped
<1>4. QED
  BY <1>1, <1>2, <1>3

(* A row has the second factor enabled after a step because it had it with *)
(* that secret before, or because of the step.                             *)
LEMMA EnabledBefore ==
    ASSUME Typed, TotpInv, NEW l \in Logins, LoginStep(l), NEW u \in Users,
           users'[u] # None, users'[u].totp_enabled
    PROVE  \/ /\ users[u] # None /\ users[u].totp_enabled
              /\ users'[u].totp_secret = users[u].totp_secret
              /\ ~(SetupDisable(l) /\ login[l].u = u)
           \/ users'[u].totp_secret \in verified'
           \/ half_set_up'
           \/ login'[l].at = "s_disable" /\ login'[l].u = u
<1> DEFINE Goal == \/ /\ users[u] # None /\ users[u].totp_enabled
                      /\ users'[u].totp_secret = users[u].totp_secret
                      /\ ~(SetupDisable(l) /\ login[l].u = u)
                   \/ users'[u].totp_secret \in verified'
                   \/ half_set_up'
                   \/ login'[l].at = "s_disable" /\ login'[l].u = u
<1>0. /\ users \in UserTable /\ login[l] \in LoginCalls /\ login \in [Logins -> LoginCalls]
      /\ SetupDisable(l) => login[l].at = "s_disable"
  BY DEF Typed, AccountsTypeOK, LoginTypeOK, UserTable, SetupDisable
<1>1. ASSUME NEW s \in Sessions, NEW secret \in Secrets, SetupStart(l, s, secret) PROVE Goal
  <2>1. PICK x \in Users : x = session_cache[s].user
    BY <1>1, Caches DEF SetupStart
  <2>2. login[l].at = "idle"
    BY <1>1 DEF SetupStart, Away
  <2>3. CASE users' = users
    BY <1>0, <2>2, <2>3
  <2>4. CASE users' # users
    <3>1. /\ users' = enable_totp(users, x, secret)
          /\ login' = [login EXCEPT ![l] = [at |-> "s_disable", u |-> x, secret |-> secret]]
      BY <1>1, <2>1, <2>4 DEF SetupStart, LoginGoto
    <3>2. login'[l].at = "s_disable" /\ login'[l].u = x
      BY <1>0, <3>1
    <3>3. x # u => users'[u] = users[u]
      BY <1>0, <3>1 DEF UserTable, enable_totp
    <3>4. QED
      BY <1>0, <2>2, <3>2, <3>3
  <2>5. QED
    BY <2>3, <2>4
<1>2. ASSUME SetupDisable(l) PROVE Goal
  <2>1. PICK x \in Users, secret \in Secrets : x = login[l].u /\ secret = login[l].secret
    BY <1>0, <1>2, LoginFields
  <2>2. users' = disable_totp(users, x)
    BY <1>2, <2>1 DEF SetupDisable
  <2>3. x # u
    BY <1>0, <2>2 DEF disable_totp, UserTable, UserRow
  <2>4. users'[u] = users[u]
    BY <1>0, <2>2, <2>3 DEF disable_totp, UserTable
  <2>5. QED
    BY <2>1, <2>3, <2>4
<1>3. ASSUME SetupSecret(l) PROVE Goal
  <2>1. PICK x \in Users, secret \in Secrets : x = login[l].u /\ secret = login[l].secret
    BY <1>0, <1>3, LoginFields DEF SetupSecret
  <2>2. /\ users' = set_totp_secret(users, x, secret)
        /\ half_set_up' = (half_set_up \/ (users[x] # None /\ users[x].totp_enabled))
        /\ login[l].at = "s_secret"
    BY <1>3, <2>1 DEF SetupSecret
  <2>3. CASE x # u
    <3>1. users'[u] = users[u]
      BY <1>0, <2>2, <2>3 DEF set_totp_secret, UserTable
    <3>2. QED
      BY <1>0, <2>2, <3>1
  <2>4. CASE x = u
    <3>1. users[u] # None /\ users[u].totp_enabled
      BY <1>0, <2>2, <2>4 DEF set_totp_secret, UserTable, UserRow
    <3>2. half_set_up'
      BY <2>2, <2>4, <3>1, Zenon
    <3>3. QED
      BY <3>2
  <2>5. QED
    BY <2>3, <2>4
<1>4. ASSUME VerifyEnable(l) PROVE Goal
  <2>1. PICK x \in Users, secret \in Secrets : x = login[l].u /\ secret = login[l].secret
    BY <1>0, <1>4, LoginFields DEF VerifyEnable
  <2>2. users' = enable_totp(users, x, secret) /\ login[l].at = "v_enable" /\ secret \in verified'
    BY <1>4, <2>1, HistoryGrows DEF VerifyEnable, TotpInv
  <2>3. CASE x # u
    <3>1. users'[u] = users[u]
      BY <1>0, <2>2, <2>3 DEF enable_totp, UserTable
    <3>2. QED
      BY <1>0, <2>2, <3>1
  <2>4. CASE x = u
    <3>1. users'[u].totp_secret = secret
      BY <1>0, <2>2, <2>4 DEF enable_totp, UserTable, UserRow
    <3>2. QED
      BY <2>2, <3>1
  <2>5. QED
    BY <2>3, <2>4
<1>5. ASSUME /\ users'[u] # None /\ users'[u].totp_enabled => users[u] # None
             /\ users[u] # None => /\ users'[u].totp_enabled = users[u].totp_enabled
                                   /\ users'[u].totp_secret = users[u].totp_secret,
             ~SetupDisable(l)
      PROVE  Goal
  BY <1>5
<1>6. ASSUME NEW pw \in Passwords, ChangeWrite(l, pw) PROVE Goal
  <2>1. PICK x \in Users : x = login[l].u
    BY <1>0, <1>6, LoginFields DEF ChangeWrite
  <2>2. users' = update_password_with_auth_method(users, x, pw) /\ login[l].at = "c_write"
    BY <1>6, <2>1 DEF ChangeWrite
  <2>3. QED
    BY <1>0, <1>5, <2>2 DEF update_password_with_auth_method, UserTable, UserRow
<1>7. ASSUME NEW x \in Users, GoogleIdentity(l, x) PROVE Goal
  <2>1. /\ users' = users \/ (users[x] = None /\ users' = upsert_user(users, x))
        /\ login[l].at = "exchange"
    BY <1>7 DEF GoogleIdentity, upsert_user
  <2>2. upsert_user(users, x)[u] = users[u] \/ ~upsert_user(users, x)[u].totp_enabled
    BY <1>0 DEF upsert_user, UserTable
  <2>3. users'[u] = users[u]
    BY <2>1, <2>2
  <2>4. QED
    BY <1>0, <2>1, <2>3
<1>8. ASSUME GoogleLink(l) \/ GoogleLinked(l) PROVE Goal
  <2>1. PICK x \in Users : x = login[l].u
    BY <1>0, <1>8, LoginFields DEF GoogleLink, GoogleLinked
  <2>2. users' = set_google_linked(users, x) /\ login[l].at \in {"g_link", "g_linked"}
    BY <1>8, <2>1 DEF GoogleLink, GoogleLinked
  <2>3. QED
    BY <1>0, <1>5, <2>2 DEF set_google_linked, UserTable, UserRow
<1>9. CASE UNCHANGED users /\ ~SetupDisable(l)
  BY <1>9
<1>10. QED
  BY <1>1, <1>2, <1>3, <1>4, <1>6, <1>7, <1>8, <1>9, AccountChanges

LEMMA TotpStep ==
    ASSUME Typed, TotpInv, NEW l \in Logins, LoginStep(l)
    PROVE  TotpInv'
<1>0. PICK to \in LoginCalls : Moves(l, to)
  BY CallMoves
<1>1. /\ \A x \in Logins \ {l} : login'[x] = login[x]
      /\ login'[l] = to
  BY <1>0 DEF Moves, Typed, LoginTypeOK
<1>2. ASSUME NEW u \in Users, users'[u] # None, users'[u].totp_enabled
      PROVE  \/ users'[u].totp_secret \in verified'
             \/ half_set_up'
             \/ \E x \in Logins : login'[x].at = "s_disable" /\ login'[x].u = u
  <2>1. CASE /\ users[u] # None /\ users[u].totp_enabled
             /\ users'[u].totp_secret = users[u].totp_secret
             /\ ~(SetupDisable(l) /\ login[l].u = u)
    <3>1. \/ users[u].totp_secret \in verified
          \/ half_set_up
          \/ \E x \in Logins : login[x].at = "s_disable" /\ login[x].u = u
      BY <2>1 DEF TotpInv
    <3>2. ASSUME NEW x \in Logins, login[x].at = "s_disable", login[x].u = u
          PROVE  half_set_up' \/ (login'[x].at = "s_disable" /\ login'[x].u = u)
      BY <1>0, <1>1, <2>1, <3>2 DEF Moves
    <3>3. QED
      BY <2>1, <3>1, <3>2, HistoryGrows
  <2>2. QED
    BY <1>2, <2>1, EnabledBefore
<1>3. ASSUME NEW x \in Logins, login'[x].at = "v_enable" PROVE login'[x].secret \in verified'
  BY <1>0, <1>1, <1>3, HistoryGrows DEF Moves, TotpInv
<1>4. QED
  BY <1>2, <1>3 DEF TotpInv

-----------------------------------------------------------------------------
(* Accounts that Google logins are open to are those that came from Google *)
(* or were linked; a login that has passed the check of its account is     *)
(* with one of them.                                                       *)
LinkInv ==
    /\ \A u \in Users : /\ users[u] # None
                        /\ users[u].auth_method = "google" \/ users[u].google_linked
                        => u \in consented
    /\ \A l \in Logins : login[l].at = "g_linked" /\ users[login[l].u] # None
                         => login[l].u \in consented

LEMMA OpenBefore ==
    ASSUME Typed, LinkInv, NEW l \in Logins, LoginStep(l), NEW u \in Users, users'[u] # None
    PROVE  /\ users'[u].auth_method = "google" \/ users'[u].google_linked
              => \/ users[u] # None /\ (users[u].auth_method = "google" \/ users[u].google_linked)
                 \/ u \in consented'
           /\ users[u] # None \/ u \in consented'
<1> DEFINE Goal == /\ users'[u].auth_method = "google" \/ users'[u].google_linked
                      => \/ /\ users[u] # None
                            /\ users[u].auth_method = "google" \/ users[u].google_linked
                         \/ u \in consented'
                   /\ users[u] # None \/ u \in consented'
<1>0. users \in UserTable /\ login[l] \in LoginCalls
  BY DEF Typed, AccountsTypeOK, LoginTypeOK, UserTable
<1>1. ASSUME users[u] # None, users'[u].auth_method \in {users[u].auth_method, "password"},
             users'[u].google_linked = users[u].google_linked
      PROVE  Goal
  BY <1>1
<1>2. CASE users'[u] = users[u]
  BY <1>2
<1>3. ASSUME NEW s \in Sessions, NEW secret \in Secrets, SetupStart(l, s, secret) PROVE Goal
  <2>1. PICK x \in Users : x = session_cache[s].user
    BY <1>3, Caches DEF SetupStart
  <2>2. users' = users \/ users' = enable_totp(users, x, secret)
    BY <1>3, <2>1 DEF SetupStart
  <2>3. QED
    BY <1>0, <1>1, <1>2, <2>2 DEF enable_totp, UserTable, UserRow
<1>4. ASSUME SetupDisable(l) PROVE Goal
  <2>1. PICK x \in Users : users' = disable_totp(users, x)
    BY <1>0, <1>4, LoginFields DEF SetupDisable
  <2>2. QED
    BY <1>0, <1>1, <1>2, <2>1 DEF disable_totp, UserTable, UserRow
<1>5. ASSUME SetupSecret(l) PROVE Goal
  <2>1. PICK x \in Users, secret \in Secrets : users' = set_totp_secret(users, x, secret)
    BY <1>0, <1>5, LoginFields DEF SetupSecret
  <2>2. QED
    BY <1>0, <1>1, <1>2, <2>1 DEF set_totp_secret, UserTable, UserRow
<1>6. ASSUME VerifyEnable(l) PROVE Goal
  <2>1. PICK x \in Users, secret \in Secrets : users' = enable_totp(users, x, secret)
    BY <1>0, <1>6, LoginFields DEF VerifyEnable
  <2>2. QED
    BY <1>0, <1>1, <1>2, <2>1 DEF enable_totp, UserTable, UserRow
<1>7. ASSUME NEW pw \in Passwords, ChangeWrite(l, pw) PROVE Goal
  <2>1. PICK x \in Users : users' = update_password_with_auth_method(users, x, pw)
    BY <1>0, <1>7, LoginFields DEF ChangeWrite
  <2>2. QED
    BY <1>0, <1>1, <1>2, <2>1 DEF update_password_with_auth_method, UserTable, UserRow
<1>8. ASSUME NEW x \in Users, GoogleIdentity(l, x) PROVE Goal
  <2>1. \/ users' = users
        \/ users' = upsert_user(users, x) /\ (users[x] = None => x \in consented')
    BY <1>8 DEF GoogleIdentity
  <2>2. CASE x = u /\ users[u] = None
    BY <2>1, <2>2
  <2>3. CASE x # u \/ users[u] # None
    BY <1>0, <1>2, <2>1, <2>3 DEF upsert_user, UserTable
  <2>4. QED
    BY <2>2, <2>3
<1>9. ASSUME GoogleLink(l) \/ GoogleLinked(l) PROVE Goal
  <2>1. PICK x \in Users : x = login[l].u
    BY <1>0, <1>9, LoginFields DEF GoogleLink, GoogleLinked
  <2>2. users' = set_google_linked(users, x)
    BY <1>9, <2>1 DEF GoogleLink, GoogleLinked
  <2>3. CASE x # u \/ users[x] = None
    BY <1>0, <1>2, <2>2, <2>3 DEF set_google_linked, UserTable
  <2>4. CASE x = u /\ users[x] # None
    <3>1. x \in consented'
      BY <1>9, <2>1, <2>4 DEF GoogleLink, GoogleLinked, LinkInv
    <3>2. QED
      BY <2>4, <3>1
  <2>5. QED
    BY <2>3, <2>4
<1>10. QED
  BY <1>2, <1>3, <1>4, <1>5, <1>6, <1>7, <1>8, <1>9, AccountChanges

LEMMA LinkStep ==
    ASSUME Typed, LinkInv, NEW l \in Logins, LoginStep(l)
    PROVE  LinkInv'
<1>0. PICK to \in LoginCalls : Moves(l, to)
  BY CallMoves
<1>1. /\ \A x \in Logins \ {l} : login'[x] = login[x]
      /\ login'[l] = to /\ login \in [Logins -> LoginCalls] /\ users \in UserTable
  BY <1>0 DEF Moves, Typed, LoginTypeOK, AccountsTypeOK, UserTable
<1>2. ASSUME NEW u \in Users, users'[u] # None,
             users'[u].auth_method = "google" \/ users'[u].google_linked
      PROVE  u \in consented'
  BY <1>2, OpenBefore, HistoryGrows DEF LinkInv
<1>3. ASSUME NEW x \in Logins, login'[x].at = "g_linked", users'[login'[x].u] # None
      PROVE  login'[x].u \in consented'
  <2>1. login'[x] \in LoginCalls
    BY <1>1
  <2>2. PICK u \in Users : u = login'[x].u
    BY <1>3, <2>1, LoginFields
  <2>3. CASE x = l
    <3>1. /\ users' = users /\ users[u] # None
          /\ users[u].auth_method # "password" \/ users[u].google_linked
      BY <1>0, <1>1, <1>3, <2>2, <2>3 DEF Moves
    <3>2. users[u].auth_method = "google" \/ users[u].google_linked
      BY <1>1, <3>1 DEF UserTable, UserRow
    <3>3. QED
      BY <1>2, <2>2, <3>1, <3>2
  <2>4. CASE x # l
    <3>1. login[x].at = "g_linked" /\ login[x].u = u
      BY <1>1, <1>3, <2>2, <2>4
    <3>2. users[u] # None \/ u \in consented'
      BY <1>3, <2>2, OpenBefore
    <3>3. QED
      BY <2>2, <3>1, <3>2, HistoryGrows DEF LinkInv
  <2>5. QED
    BY <2>3, <2>4
<1>4. QED
  BY <1>2, <1>3 DEF LinkInv

-----------------------------------------------------------------------------
(* The invariant as a whole.                                               *)
LoginInv == Typed /\ UsedInv /\ LockoutInv /\ TotpInv /\ LinkInv

LEMMA LoginInvInit == Init => LoginInv
<1> SUFFICES ASSUME Init PROVE LoginInv
  OBVIOUS
<1> USE DEF Init, LoginInit
<1>1. AccountsTypeOK
  <2>1. \A u \in Users, hash \in Passwords :
           create_password_user([v \in Users |-> None], u, hash, "user")[u] \in UserRow
    BY DEF create_password_user, UserRow
  <2>2. users \in [Users -> UserRow \cup {None}]
    BY <2>1
  <2>3. now \in 0..MaxTime
    BY AccountsAssumption
  <2>4. QED
    BY <2>2, <2>3 DEF AccountsTypeOK
<1>2. LoginTypeOK
  BY LoginValues DEF LoginTypeOK
<1>3. UsedInv
  BY DEF UsedInv
<1>4. LockoutInv
  BY DEF LockoutInv
<1>5. \A u \in Users : users[u] # None =>
         users[u].totp_enabled = FALSE /\ users[u].auth_method = "password"
         /\ users[u].google_linked = FALSE
  BY DEF create_password_user
<1>6. TotpInv
  BY <1>5 DEF TotpInv, Away
<1>7. LinkInv
  BY <1>5 DEF LinkInv, Away
<1>8. QED
  BY <1>1, <1>2, <1>3, <1>4, <1>6, <1>7 DEF LoginInv, Typed

LEMMA LoginInvStep ==
    LoginInv /\ [LoginNext]_<<now, users, sessions, session_cache, allowed_domains, loginvars>>
        => LoginInv'
<1> SUFFICES ASSUME LoginInv,
                    [LoginNext]_<<now, users, sessions, session_cache, allowed_domains, loginvars>>
             PROVE  LoginInv'
  OBVIOUS
<1>0. Typed /\ UsedInv /\ LockoutInv /\ TotpInv /\ LinkInv
  BY DEF LoginInv
<1>1. ASSUME NEW l \in Logins, LoginStep(l), UNCHANGED <<now, allowed_domains>> PROVE LoginInv'
  BY <1>0, <1>1, StepTyped, UsedStep, LockoutStep, TotpStep, LinkStep DEF LoginInv
<1>2. ASSUME UNCHANGED <<users, login, verified, half_set_up, consented>>
      PROVE  TotpInv' /\ LinkInv'
  BY <1>0, <1>2 DEF TotpInv, LinkInv
<1>3. ASSUME NEW st \in States, NEW linking \in Users \cup {None}, GoogleRedirect(st, linking),
             UNCHANGED <<now, allowed_domains>>
      PROVE  LoginInv'
  <2>1. /\ \A x \in States : \/ oauth_pending'[x] \in {None, oauth_pending[x]}
                             \/ /\ oauth_pending'[x] = [created |-> now, linking |-> linking]
                                /\ answered[x] = 0
        /\ DOMAIN oauth_pending' = States
        /\ oauth_pending' = [x \in States |-> oauth_pending'[x]]
    BY <1>3 DEF GoogleRedirect
  <2>2. now \in Nat
    BY <1>0, AccountsAssumption DEF Typed, AccountsTypeOK
  <2>3. oauth_pending' \in [States -> [created : Nat, linking : Users \cup {None}] \cup {None}]
    BY <1>0, <2>1, <2>2 DEF Typed, LoginTypeOK
  <2>4. UNCHANGED <<now, allowed_domains, users, sessions, session_cache, limiter, pending_2fa,
                    recovery, login, verified, half_set_up, opened, answered, consented>>
    BY <1>3 DEF GoogleRedirect
  <2>5. Typed'
    BY <1>0, <2>3, <2>4 DEF Typed, AccountsTypeOK, LoginTypeOK
  <2>6. UsedInv'
    BY <1>0, <2>1, <2>4 DEF UsedInv
  <2>7. LockoutInv'
    BY <1>0, <2>4 DEF LockoutInv, Trying
  <2>8. QED
    BY <1>2, <2>4, <2>5, <2>6, <2>7 DEF LoginInv
<1>4. ASSUME cleanup_expired_2fa, UNCHANGED <<now, allowed_domains>> PROVE LoginInv'
  <2>1. UNCHANGED <<now, allowed_domains, users, sessions, session_cache, limiter, recovery,
                    oauth_pending, login, verified, half_set_up, opened, answered, consented>>
    BY <1>4 DEF cleanup_expired_2fa
  <2>2. pending_2fa' \in [Tokens -> [user : Users, expires : Nat] \cup {None}]
    BY <1>0, <1>4 DEF cleanup_expired_2fa, Typed, LoginTypeOK
  <2>3. Typed'
    BY <1>0, <2>1, <2>2 DEF Typed, AccountsTypeOK, LoginTypeOK
  <2>4. UsedInv' /\ LockoutInv'
    BY <1>0, <2>1 DEF UsedInv, LockoutInv, Trying
  <2>5. QED
    BY <1>2, <2>1, <2>3, <2>4 DEF LoginInv
<1>5. ASSUME TickLogin PROVE LoginInv'
  <2>1. UNCHANGED <<users, sessions, session_cache, allowed_domains, loginvars>>
    BY <1>5 DEF TickLogin
  <2>2. Typed'
    BY <1>0, <1>5, <2>1, AccountsAssumption
    DEF Typed, AccountsTypeOK, LoginTypeOK, TickLogin, loginvars
  <2>3. UsedInv'
    BY <1>0, <2>1 DEF UsedInv, loginvars
  <2>4. \A u \in Users : Trying(u)' = Trying(u)
    BY <2>1 DEF Trying, loginvars
  <2>5. now \in Nat /\ Lockout \in Nat /\ now' = now + 1 /\ UNCHANGED limiter
        /\ limiter \in [Users -> Entries \cup {None}]
    BY <1>0, <1>5, AccountsAssumption, PasswordLoginAssumption
    DEF Typed, AccountsTypeOK, LoginTypeOK, TickLogin, loginvars, Entries
  <2>6. \A u \in Users : limiter[u] # None /\ now - limiter[u].since >= Lockout
                         => now' - limiter'[u].since >= Lockout
    BY <2>5 DEF Entries
  <2>7. LockoutInv'
    BY <1>0, <2>4, <2>5, <2>6 DEF LockoutInv
  <2>8. QED
    BY <1>2, <2>1, <2>2, <2>3, <2>7 DEF LoginInv, loginvars
<1>6. ASSUME UNCHANGED <<now, users, sessions, session_cache, allowed_domains, loginvars>>
      PROVE  LoginInv'
  <2>1. Typed' /\ UsedInv' /\ LockoutInv'
    BY <1>0, <1>6
    DEF Typed, AccountsTypeOK, LoginTypeOK, UsedInv, LockoutInv, Trying, loginvars
  <2>2. QED
    BY <1>2, <1>6, <2>1 DEF LoginInv, loginvars
<1>7. QED
  BY <1>1, <1>3, <1>4, <1>5, <1>6 DEF LoginNext

(* The types of the login's state, what is for one use, the limiter, the   *)
(* second factor and the links, together.                                  *)
THEOREM LoginInvariant == Spec => []LoginInv
<1>1. QED
  BY LoginInvInit, LoginInvStep, PTL DEF Spec

-----------------------------------------------------------------------------
(* However many calls of login_handler run side by side, within one window *)
(* fewer wrong passwords of a user are counted than the limit and the      *)
(* number of calls together.                                               *)
THEOREM LockoutHolds == Spec => []LockoutBound
<1>1. LoginInv => LockoutBound
  <2> SUFFICES ASSUME LoginInv, NEW u \in Users, limiter[u] # None
               PROVE  limiter[u].count < MaxAttempts + Cardinality(Logins)
    BY DEF LockoutBound
  <2>1. limiter[u].count \in Nat
    BY DEF LoginInv, Typed, LoginTypeOK
  <2>2. Trying(u) \subseteq Logins
    BY DEF Trying
  <2>3. Cardinality(Trying(u)) \in Nat /\ Cardinality(Logins) \in Nat /\ MaxAttempts \in Nat
    BY <2>2, FS_Subset, FS_CardinalityType, PasswordLoginAssumption
  <2>4. QED
    BY <2>1, <2>3 DEF LoginInv, LockoutInv
<1>2. QED
  BY <1>1, LoginInvariant, PTL

(* A recovery code lets one login through at most, and the state of a      *)
(* Google login is answered at most once (use_recovery_code and            *)
(* google_auth_callback), for any number of calls.                         *)
THEOREM OneUse == Spec => []UsedOnce
<1>1. LoginInv => UsedOnce
  BY DEF LoginInv, UsedInv, UsedOnce, RecoveryCodeOnce, StateUsedOnce
<1>2. QED
  BY <1>1, LoginInvariant, PTL

(* Outside a set-up that is under way or was dropped, a second factor that *)
(* the login demands is one that its user has shown a code of.             *)
THEOREM SecretVerified == Spec => []TotpSecretVerified
<1>1. LoginInv => TotpSecretVerified
  BY DEF LoginInv, TotpInv, TotpSecretVerified
<1>2. QED
  BY <1>1, LoginInvariant, PTL

(* google_auth_callback opens a password account to Google logins only     *)
(* when its user has linked it, or it was a Google account first.          *)
THEOREM LinkedFirst == Spec => []LinkedByOwner
<1>1. LoginInv => LinkedByOwner
  BY DEF LoginInv, LinkInv, LinkedByOwner
<1>2. QED
  BY <1>1, LoginInvariant, PTL
=============================================================================
