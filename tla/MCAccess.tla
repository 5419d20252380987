------------------------------ MODULE MCAccess ------------------------------
(***************************************************************************)
(* The two ways into the gateway over one users table: the web UI's        *)
(* sessions and the API clients' keys.  They share no state but the table, *)
(* so each behaviour moves one of them; `part` says which.                 *)
(***************************************************************************)
EXTENDS SessionAccess, KeyAccess, TLC

VARIABLE part

MCDomainOf == [u \in Users |-> CHOOSE d \in Domains : TRUE]

Symmetry ==
    Permutations(Calls) \cup Permutations(Pages) \cup Permutations(Sessions)

accessvars == <<access, keyvars, part>>

(* One registered user and nobody in the web UI.                           *)
OneKeyOwner ==
    /\ now = 0
    /\ \E u \in Users, hash \in Passwords :
          users = create_password_user([v \in Users |-> None], u, hash, "user")
    /\ sessions = [s \in Sessions |-> None]
    /\ session_cache = [s \in Sessions |-> None]
    /\ allowed_domains = [d \in Domains |-> None]
    /\ call = [c \in Calls |-> Idle]
    /\ logged_out = {}
    /\ last_admin = [u \in Users |-> 0]
    /\ held = [s \in Sessions |-> None]

(* No two rows of sessions are of one user.                                *)
OneSessionEach ==
    \A s, t \in {x \in Sessions : sessions[x] # None} : sessions[s].user = sessions[t].user => s = t

NoKeys == [k \in Keys |-> None]

(* Keys are generated while no Kiro token is issued, and the reverse: of   *)
(* the two histories the tables share nothing but the user.  In the web UI *)
(* each user has one session at most.                                      *)
AccessInit ==
    \/ /\ part = "sessions" /\ SessionInit /\ OneSessionEach
       /\ KeyInit(NoKeys, 0, 0)
    \/ part = "keys" /\ OneKeyOwner /\ KeyInit(NoKeys, 0, MaxTokens)
    \/ part = "keys" /\ OneKeyOwner
                     /\ \E u \in Users : users[u] # None /\ KeyInit([NoKeys EXCEPT ![1] = u], MaxDrawn, 0)

AccessNext ==
    \/ part = "sessions" /\ SessionNext /\ UNCHANGED <<keyvars, part>>
    \/ part = "keys" /\ KeyNext /\ UNCHANGED <<call, logged_out, last_admin, held, part>>

(* The bound of the run: beside logins that open sessions it follows       *)
(* lookups, changes of roles and deletions; logouts, domains, resets and   *)
(* demotions of oneself it follows among sessions that are open already.   *)
LoginsApart ==
    /\ OneSessionEach
    /\ part = "sessions" /\ (\E s \in Sessions : held[s] # 0) =>
         /\ logged_out = {} /\ \A d \in Domains : allowed_domains[d] = None
         /\ \A c \in Calls : call[c].at \notin {"logout", "reset_2fa", "evict", "demote"}

AccessSpec == AccessInit /\ [][AccessNext]_accessvars

(* What was taken back stays taken back: a session that was logged out and *)
(* an API key that was revoked, each while no request was between reading  *)
(* its row and caching it, and by a page that lived to evict the key.      *)
RevocationHolds == LogoutHolds /\ RevokedKeyRefused
=============================================================================
