----------------------------- MODULE KeyAccess -----------------------------
(***************************************************************************)
(* Requests of API clients: auth_middleware (middleware/mod.rs) with its   *)
(* two caches, the users' API keys (web_ui/api_keys.rs), their Kiro tokens *)
(* with the device flow and the background refresh (web_ui/user_kiro.rs),  *)
(* and the queries on both tables (web_ui/config_db.rs).                   *)
(*                                                                         *)
(* A key stands for its hash.  Keys and access tokens are numbered as they *)
(* are issued; of a refresh token only matters whether there is one.  The  *)
(* last_used column (touch_api_key) is written and never decided upon.     *)
(***************************************************************************)
EXTENDS Accounts

CONSTANTS
    MaxDrawn,      \* bound on the API keys generated
    Clients,       \* concurrent requests to /v1
    Pages,         \* concurrent requests of the web UI
    MaxKeys,       \* MAX_KEYS_PER_USER
    CacheCap,      \* 10,000: bound of each cache
    KiroTtl,       \* 240 seconds
    RefreshAhead,  \* INTERVAL '5 minutes'
    MaxTokens      \* bound on the access tokens issued

ASSUME KeyAccessAssumption ==
    MaxDrawn \in Nat /\ KiroTtl \in Nat /\ RefreshAhead \in Nat /\ MaxTokens \in Nat

VARIABLES
    api_keys,          \* user_id of each row of api_keys
    api_key_cache,     \* user_id of each cached key
    kiro_tokens,       \* rows of user_kiro_tokens
    kiro_token_cache,  \* access token of each user, and when it was cached
    client,            \* where each /v1 request is
    page,              \* where each web request is
    refresher,         \* users the background refresh has still to do
    drawn,             \* API keys generated so far, numbered as they are
    issued,            \* access tokens issued so far
    revoked,           \* history: keys evicted after their row while nobody was caching them
    left               \* history: when each access token left its row

keyvars == <<api_keys, api_key_cache, kiro_tokens, kiro_token_cache, client, page,
             refresher, drawn, issued, revoked, left>>

Keys == 1..MaxDrawn

KiroRow ==
    [refresh : BOOLEAN, access : 1..MaxTokens \cup {None},
     expiry : Nat \cup {None}, oauth_client : BOOLEAN]

AtRest == [at |-> "idle"]

ClientStages ==
    {AtRest}
    \cup [at : {"lookup"}, k : Keys] \cup [at : {"cache"}, k : Keys, u : Users]
    \cup [at : {"token"}, u : Users]
    \cup [at : {"cache_token", "served"}, u : Users, token : 1..MaxTokens]

PageStages ==
    {AtRest}
    \cup [at : {"insert", "register", "poll"}, u : Users]
    \cup [at : {"evict"}, k : Keys]

KeyTypeOK ==
    /\ api_keys \in [Keys -> Users \cup {None}]
    /\ api_key_cache \in [Keys -> Users \cup {None}]
    /\ kiro_tokens \in [Users -> KiroRow \cup {None}]
    /\ kiro_token_cache \in [Users -> [token : 1..MaxTokens, at : Nat] \cup {None}]
    /\ client \in [Clients -> ClientStages]
    /\ page \in [Pages -> PageStages]
    /\ refresher \in SUBSET Users
    /\ drawn \in 0..MaxDrawn
    /\ issued \in 0..MaxTokens
    /\ revoked \subseteq Keys
    /\ left \in [1..MaxTokens -> Nat \cup {None}]

(* An access token that is in a row now, or the time it was last in one.   *)
LastInRow(n) == IF left[n] = None THEN now ELSE left[n]

(* The history follows the rows: every statement on them ends with it.     *)
TrackTokens ==
    left' = [n \in 1..MaxTokens |->
        IF \E u \in Users : kiro_tokens'[u] # None /\ kiro_tokens'[u].access = n THEN None
        ELSE IF left[n] = None THEN now ELSE left[n]]

ClientGoto(c, to) == client' = [client EXCEPT ![c] = to]
PageGoto(p, to) == page' = [page EXCEPT ![p] = to]
Cached(cache) == Cardinality({x \in DOMAIN cache : cache[x] # None})

-----------------------------------------------------------------------------
(* auth_middleware.  A key found in the cache is not looked up.            *)
PresentKey(c, k) ==
    /\ client[c] = AtRest
    /\ ClientGoto(c, IF api_key_cache[k] # None
                     THEN [at |-> "token", u |-> api_key_cache[k]]
                     ELSE [at |-> "lookup", k |-> k])
    /\ UNCHANGED <<api_keys, api_key_cache, kiro_tokens, kiro_token_cache, drawn, page,
                   refresher, issued, revoked, left>>

get_api_key_by_hash(k) == api_keys[k]

LookupKey(c) ==
    /\ client[c].at = "lookup"
    /\ LET k == client[c].k IN
       ClientGoto(c, IF get_api_key_by_hash(k) = None THEN AtRest
                     ELSE [at |-> "cache", k |-> k, u |-> get_api_key_by_hash(k)])
    /\ UNCHANGED <<api_keys, api_key_cache, kiro_tokens, kiro_token_cache, drawn, page,
                   refresher, issued, revoked, left>>

CacheKey(c) ==
    /\ client[c].at = "cache"
    /\ api_key_cache' = IF Cached(api_key_cache) < CacheCap
                        THEN [api_key_cache EXCEPT ![client[c].k] = client[c].u]
                        ELSE api_key_cache
    /\ ClientGoto(c, [at |-> "token", u |-> client[c].u])
    /\ UNCHANGED <<api_keys, kiro_tokens, kiro_token_cache, drawn, page, refresher, issued,
                   revoked, left>>

(* Slip: the boundary counts as live.                                      *)
TokenLiveInclusive(e) == e # None /\ now - e.at <= KiroTtl

(* The user's access token, from the cache for KiroTtl or from the row;    *)
(* its expiry is not looked at.                                            *)
TokenLive(e) == e # None /\ now - e.at < KiroTtl

get_kiro_token(u) == kiro_tokens[u]

FindToken(c) ==
    /\ client[c].at = "token"
    /\ LET u == client[c].u
           e == kiro_token_cache[u]
           row == get_kiro_token(u)
       IN ClientGoto(c,
            IF TokenLive(e) THEN [at |-> "served", u |-> u, token |-> e.token]
            ELSE IF row = None THEN AtRest
            ELSE IF row.access = None THEN AtRest
            ELSE [at |-> "cache_token", u |-> u, token |-> row.access])
    /\ UNCHANGED <<api_keys, api_key_cache, kiro_tokens, kiro_token_cache, drawn, page,
                   refresher, issued, revoked, left>>

CacheToken(c) ==
    /\ client[c].at = "cache_token"
    /\ LET u == client[c].u IN
       /\ kiro_token_cache' = IF Cached(kiro_token_cache) < CacheCap
                              THEN [kiro_token_cache EXCEPT ![u] =
                                      [token |-> client[c].token, at |-> now]]
                              ELSE kiro_token_cache
       /\ ClientGoto(c, [client[c] EXCEPT !.at = "served"])
    /\ UNCHANGED <<api_keys, api_key_cache, kiro_tokens, drawn, page, refresher, issued,
                   revoked, left>>

(* The request goes on to its handler, or is refused or dropped.           *)
ClientDone(c) ==
    /\ client[c] # AtRest
    /\ ClientGoto(c, AtRest)
    /\ UNCHANGED <<api_keys, api_key_cache, kiro_tokens, kiro_token_cache, drawn, page,
                   refresher, issued, revoked, left>>

-----------------------------------------------------------------------------
(* create_api_key: the count, then the INSERT of a key nobody has seen.    *)
count_api_keys(u) == Cardinality({k \in Keys : api_keys[k] = u})

CountKeys(p, u) ==
    /\ page[p] = AtRest /\ users[u] # None
    /\ count_api_keys(u) < MaxKeys
    /\ PageGoto(p, [at |-> "insert", u |-> u])
    /\ UNCHANGED <<api_keys, api_key_cache, kiro_tokens, kiro_token_cache, drawn, client,
                   refresher, issued, revoked, left>>

insert_api_key(p) ==
    /\ page[p].at = "insert" /\ drawn < MaxDrawn
    /\ drawn' = drawn + 1
    /\ api_keys' = IF users[page[p].u] = None THEN api_keys
                   ELSE [api_keys EXCEPT ![drawn'] = page[p].u]
    /\ PageGoto(p, AtRest)
    /\ UNCHANGED <<api_key_cache, kiro_tokens, kiro_token_cache, client, refresher,
                   issued, revoked, left>>

(* delete_api_key: the row, then the entry of the cache.                   *)
RevokeKey(p, k) ==
    /\ page[p] = AtRest /\ api_keys[k] # None
    /\ api_keys' = [api_keys EXCEPT ![k] = None]
    /\ PageGoto(p, [at |-> "evict", k |-> k])
    /\ UNCHANGED <<api_key_cache, kiro_tokens, kiro_token_cache, drawn, client, refresher,
                   issued, revoked, left>>

Caching(c, k) == client[c].at = "cache" /\ client[c].k = k

NotedRevoked(k) ==
    IF \E c \in Clients : Caching(c, k) THEN revoked ELSE revoked \cup {k}

(* Slip: the eviction is forgotten.                                        *)
EvictKeyForgotten(p) ==
    /\ page[p].at = "evict"
    /\ revoked' = NotedRevoked(page[p].k)
    /\ PageGoto(p, AtRest)
    /\ UNCHANGED <<api_keys, api_key_cache, kiro_tokens, kiro_token_cache, drawn, client,
                   refresher, issued, left>>

EvictKey(p) ==
    /\ page[p].at = "evict"
    /\ LET k == page[p].k IN
       /\ api_key_cache' = [api_key_cache EXCEPT ![k] = None]
       /\ revoked' = NotedRevoked(k)
    /\ PageGoto(p, AtRest)
    /\ UNCHANGED <<api_keys, kiro_tokens, kiro_token_cache, drawn, client, refresher, issued, left>>

-----------------------------------------------------------------------------
(* Statements on user_kiro_tokens.  An INSERT needs the user's row.        *)
upsert_kiro_token(u, refresh, access, expiry) ==
    IF users[u] = None THEN kiro_tokens
    ELSE [kiro_tokens EXCEPT ![u] =
            [refresh |-> refresh, access |-> access, expiry |-> expiry,
             oauth_client |-> IF @ = None THEN FALSE ELSE @.oauth_client]]

clear_user_oauth_client(u) ==
    IF kiro_tokens[u] = None THEN kiro_tokens
    ELSE [kiro_tokens EXCEPT ![u].oauth_client = FALSE]

upsert_user_oauth_client(u) ==
    IF users[u] = None THEN kiro_tokens
    ELSE IF kiro_tokens[u] # None THEN [kiro_tokens EXCEPT ![u].oauth_client = TRUE]
    ELSE [kiro_tokens EXCEPT ![u] =
            [refresh |-> FALSE, access |-> None, expiry |-> None, oauth_client |-> TRUE]]

mark_kiro_token_expired(u) ==
    IF kiro_tokens[u] = None THEN kiro_tokens
    ELSE [kiro_tokens EXCEPT ![u].access = None, ![u].expiry = None]

get_expiring_kiro_tokens_with_oauth ==
    {u \in Users : /\ kiro_tokens[u] # None /\ kiro_tokens[u].expiry # None
                   /\ kiro_tokens[u].expiry < now + RefreshAhead}

(* kiro_setup: forget the client, register one, store it; each await may   *)
(* be the last.                                                            *)
KiroSetup(p, u) ==
    /\ page[p] = AtRest /\ users[u] # None
    /\ kiro_tokens' = clear_user_oauth_client(u)
    /\ PageGoto(p, [at |-> "register", u |-> u])
    /\ TrackTokens
    /\ UNCHANGED <<api_keys, api_key_cache, kiro_token_cache, drawn, client, refresher, issued,
                   revoked>>

KiroRegistered(p) ==
    /\ page[p].at = "register"
    /\ kiro_tokens' = upsert_user_oauth_client(page[p].u)
    /\ PageGoto(p, AtRest)
    /\ TrackTokens
    /\ UNCHANGED <<api_keys, api_key_cache, kiro_token_cache, drawn, client, refresher, issued,
                   revoked>>

(* kiro_poll: without a client an error, else the answer of the identity   *)
(* provider: pending, or a token with or without a refresh token.          *)
KiroPoll(p, u) ==
    /\ page[p] = AtRest
    /\ kiro_tokens[u] # None /\ kiro_tokens[u].oauth_client
    /\ PageGoto(p, [at |-> "poll", u |-> u])
    /\ UNCHANGED <<api_keys, api_key_cache, kiro_tokens, kiro_token_cache, drawn, client,
                   refresher, issued, revoked, left>>

KiroGranted(p, refresh) ==
    /\ page[p].at = "poll" /\ issued < MaxTokens
    /\ issued' = issued + 1
    /\ kiro_tokens' = upsert_kiro_token(page[p].u, refresh, issued', now + RefreshAhead)
    /\ PageGoto(p, AtRest)
    /\ TrackTokens
    /\ UNCHANGED <<api_keys, api_key_cache, kiro_token_cache, drawn, client, refresher, revoked>>

(* kiro_delete_token: the row; the cache keeps its entry.                  *)
KiroDelete(p, u) ==
    /\ page[p] = AtRest /\ kiro_tokens[u] # None
    /\ kiro_tokens' = [kiro_tokens EXCEPT ![u] = None]
    /\ TrackTokens
    /\ UNCHANGED <<api_keys, api_key_cache, kiro_token_cache, drawn, client, page, refresher,
                   issued, revoked>>

(* A refusal, an error or a dropped request.  One dropped before it evicts *)
(* a revoked key leaves the key in the cache, which nothing expires.       *)
PageDone(p) ==
    /\ page[p].at \in {"insert", "register", "poll", "evict"}
    /\ PageGoto(p, AtRest)
    /\ UNCHANGED <<api_keys, api_key_cache, kiro_tokens, kiro_token_cache, drawn, client,
                   refresher, issued, revoked, left>>

-----------------------------------------------------------------------------
(* spawn_token_refresh_task: one query, then each row in turn.             *)
RefreshScan ==
    /\ refresher = {}
    /\ refresher' = get_expiring_kiro_tokens_with_oauth
    /\ refresher' # {}
    /\ UNCHANGED <<api_keys, api_key_cache, kiro_tokens, kiro_token_cache, drawn, client, page,
                   issued, revoked, left>>

RefreshGranted(u) ==
    /\ u \in refresher /\ issued < MaxTokens
    /\ issued' = issued + 1
    /\ kiro_tokens' = upsert_kiro_token(u, TRUE, issued', now + RefreshAhead)
    /\ refresher' = refresher \ {u}
    /\ TrackTokens
    /\ UNCHANGED <<api_keys, api_key_cache, kiro_token_cache, drawn, client, page, revoked>>

(* Any error marks the row, also one written since the query.              *)
RefreshRefused(u) ==
    /\ u \in refresher
    /\ kiro_tokens' = mark_kiro_token_expired(u)
    /\ refresher' = refresher \ {u}
    /\ TrackTokens
    /\ UNCHANGED <<api_keys, api_key_cache, kiro_token_cache, drawn, client, page, issued, revoked>>

(* No client credentials, or storing the answer failed.                    *)
RefreshSkipped(u) ==
    /\ u \in refresher
    /\ refresher' = refresher \ {u}
    /\ UNCHANGED <<api_keys, api_key_cache, kiro_tokens, kiro_token_cache, drawn, client, page,
                   issued, revoked, left>>

-----------------------------------------------------------------------------
(* An administrator deletes a user: the rows cascade, the caches stay.     *)
DeleteKeyOwner(u) ==
    /\ users[u] # None
    /\ users' = delete_user(users, u)
    /\ api_keys' = [k \in Keys |-> IF api_keys[k] = u THEN None ELSE api_keys[k]]
    /\ kiro_tokens' = [kiro_tokens EXCEPT ![u] = None]
    /\ TrackTokens
    /\ UNCHANGED <<now, sessions, session_cache, allowed_domains, api_key_cache,
                   kiro_token_cache, drawn, client, page, refresher, issued, revoked>>

(* evict_user_caches, at the end of a password reset.                      *)
EvictKeyOwner(u) ==
    /\ api_key_cache' = [k \in Keys |-> IF api_key_cache[k] = u THEN None ELSE api_key_cache[k]]
    /\ kiro_token_cache' = [kiro_token_cache EXCEPT ![u] = None]
    /\ <<api_key_cache', kiro_token_cache'>> # <<api_key_cache, kiro_token_cache>>
    /\ UNCHANGED <<api_keys, kiro_tokens, drawn, client, page, refresher, issued, revoked, left>>

RestartKeys ==
    /\ api_key_cache' = [k \in Keys |-> None]
    /\ kiro_token_cache' = [u \in Users |-> None]
    /\ client' = [c \in Clients |-> AtRest]
    /\ page' = [p \in Pages |-> AtRest]
    /\ refresher' = {}
    /\ UNCHANGED <<api_keys, kiro_tokens, drawn, issued, revoked, left>>

(* Reading a token and caching it takes less than a tick.                  *)
TickKeys ==
    /\ now < MaxTime
    /\ \A c \in Clients : client[c].at # "cache_token"
    /\ now' = now + 1
    /\ UNCHANGED keyvars
    /\ UNCHANGED <<users, sessions, session_cache, allowed_domains>>

ClientStep(c) ==
    \/ \E k \in Keys : PresentKey(c, k)
    \/ LookupKey(c) \/ CacheKey(c) \/ FindToken(c) \/ CacheToken(c) \/ ClientDone(c)

PageStep(p) ==
    \/ \E u \in Users : CountKeys(p, u) \/ KiroSetup(p, u) \/ KiroPoll(p, u) \/ KiroDelete(p, u)
    \/ \E k \in Keys : RevokeKey(p, k)
    \/ insert_api_key(p) \/ EvictKey(p) \/ KiroRegistered(p) \/ PageDone(p)
    \/ \E refresh \in BOOLEAN : KiroGranted(p, refresh)

KeyStep ==
    \/ \E c \in Clients : ClientStep(c)
    \/ \E p \in Pages : PageStep(p)
    \/ RefreshScan
    \/ \E u \in Users : \/ RefreshGranted(u) \/ RefreshRefused(u) \/ RefreshSkipped(u)
                        \/ EvictKeyOwner(u)
    \/ RestartKeys

KeyNext ==
    \/ KeyStep /\ UNCHANGED <<now, users, sessions, session_cache, allowed_domains>>
    \/ \E u \in Users : DeleteKeyOwner(u)
    \/ TickKeys

(* `keys` is the table of API keys; d keys and n access tokens were issued *)
(* before.                                                                 *)
KeyInit(keys, d, n) ==
    /\ api_keys = keys
    /\ api_key_cache = [k \in Keys |-> None]
    /\ kiro_tokens = [u \in Users |-> None]
    /\ kiro_token_cache = [u \in Users |-> None]
    /\ client = [c \in Clients |-> AtRest]
    /\ page = [p \in Pages |-> AtRest]
    /\ refresher = {}
    /\ drawn = d
    /\ issued = n
    /\ revoked = {}
    /\ left = [i \in 1..MaxTokens |-> 0]

-----------------------------------------------------------------------------
(* A key revoked while no request was between finding its row and caching  *)
(* it, by a page that came to evict it, is never accepted again.           *)
RevokedKeyRefused ==
    \A k \in revoked : api_keys[k] = None /\ api_key_cache[k] = None

(* Deleting a Kiro token, refreshing it or deleting its user leaves        *)
(* kiro_token_cache and api_key_cache alone.  What the cache would still   *)
(* serve left the user's row less than KiroTtl ago, so a deleted user's    *)
(* cached key is worth nothing after that time.                            *)
KiroTokenStalenessBounded ==
    \A u \in Users : LET e == kiro_token_cache[u] IN
        TokenLive(e) => now - LastInRow(e.token) < KiroTtl

=============================================================================
