--------------------------- MODULE ProviderTokens ---------------------------
(***************************************************************************)
(* The OAuth token of one user for one direct provider: how requests       *)
(* refresh it (ProviderRegistry::ensure_fresh_token), how they resolve it  *)
(* through the database row and the 5-minute credential cache              *)
(* (resolve_provider_with_balancing, resolve_provider, load_user_data),    *)
(* and how the user connects and disconnects the provider meanwhile        *)
(* (provider_oauth.rs).                                                    *)
(*                                                                         *)
(* A request is a process; its steps are the stretches between awaits, and *)
(* at every await it may be dropped.  A database operation takes effect in *)
(* one step or fails.  The request's model has no provider prefix, the     *)
(* user has no Copilot token and the admin pool is empty, so that the      *)
(* single-account fallback, the only user of the cache, is reached.        *)
(***************************************************************************)
EXTENDS Integers

CONSTANTS
    Requests,     \* concurrent requests of the user
    Buffer,       \* REFRESH_BUFFER_SECS
    CacheTtl,     \* CACHE_TTL
    Lifetimes,    \* expires_in values the provider may grant
    MaxFill,      \* bound: clock ticks between a load and its cache insert
    MaxTime,      \* bound on the clock
    MaxTokens,    \* bound on the grants of the provider
    None

ASSUME BufferAssumption == Buffer \in Nat
ASSUME CacheTtlAssumption == CacheTtl \in Nat \ {0}
ASSUME LifetimesAssumption == Lifetimes \subseteq Nat \ {0} /\ Lifetimes # {}
ASSUME BoundsAssumption ==
    MaxFill \in Nat /\ MaxTime \in Nat /\ MaxTokens \in Nat \ {0}

VARIABLES
    now,        \* the clock
    row,        \* user_provider_tokens: the user's row, or None
    cache,      \* the user's CacheEntry, or None
    ahead,      \* requests ahead of each request in the refresh mutex's queue
    status,     \* the provider's view of each refresh token
    issued,     \* grants made so far
    gone,       \* history: when each access token left the row
    lost,       \* history: a rotated refresh token was never stored
    pc,         \* where each request is
    seen,       \* refresh token each request read before it took the mutex
    grant,      \* answer each request got from the provider and has to store
    loaded,     \* row each request read and is about to cache
    user,       \* where the user's connect or disconnect is
    user_grant  \* answer of exchange_code, to be stored

vars == <<now, row, cache, ahead, status, issued, gone, lost, pc, seen, grant,
          loaded, user, user_grant>>

Ids == 1..MaxTokens

(* An empty refresh token is None.  A cached or loaded credential is the   *)
(* access token with its expiry.                                           *)
Row == [id : Ids, exp : Nat, refresh : Ids \cup {None}]
Creds == [id : Ids, exp : Nat]
CacheEntry == [creds : Creds \cup {None}, at : Nat]

ASSUME NoneAssumption == None \notin Nat \cup Row \cup Creds \cup CacheEntry

Stages == {"idle", "cache_check", "read_row", "delete_stale", "wait", "recheck",
           "exchange", "upsert", "delete_failed", "invalidate", "forget",
           "resolve", "fallback", "load", "fill"}

(* Stages at which the request holds the (user, provider) refresh mutex.   *)
Holding == {"recheck", "exchange", "upsert", "delete_failed", "invalidate"}

TypeOK ==
    /\ now \in Nat
    /\ row \in Row \cup {None}
    /\ cache \in CacheEntry \cup {None}
    /\ ahead \in [Requests -> SUBSET Requests]
    /\ status \in [Ids -> {"live", "rotated", "revoked"}]
    /\ issued \in 0..MaxTokens
    /\ gone \in [Ids -> Nat]
    /\ lost \in BOOLEAN
    /\ pc \in [Requests -> Stages]
    /\ seen \in [Requests -> Ids \cup {None}]
    /\ grant \in [Requests -> Row \cup {None}]
    /\ loaded \in [Requests -> CacheEntry \cup {None}]
    /\ user \in {"idle", "upsert", "invalidate"}
    /\ user_grant \in Row \cup {None}

(* The user connected the provider some time ago: token 1 is stored.       *)
Init ==
    /\ now = 0
    /\ row \in [id : {1}, exp : Lifetimes, refresh : {1, None}]
    /\ cache = None
    /\ ahead = [r \in Requests |-> {}]
    /\ status = [t \in Ids |-> "live"]
    /\ issued = 1
    /\ gone = [t \in Ids |-> 0]
    /\ lost = FALSE
    /\ pc = [r \in Requests |-> "idle"]
    /\ seen = [r \in Requests |-> None]
    /\ grant = [r \in Requests |-> None]
    /\ loaded = [r \in Requests |-> None]
    /\ user = "idle"
    /\ user_grant = None

Fresh(exp) == exp - now > Buffer

Expired(exp) == exp <= now

(* Slip: an entry as old as CACHE_TTL still counts.                        *)
CacheLiveInclusive == IF cache = None THEN FALSE ELSE now - cache.at <= CacheTtl

(* The user's cache entry is younger than CACHE_TTL.                       *)
CacheLive == IF cache = None THEN FALSE ELSE now - cache.at < CacheTtl

InLine == {r \in Requests : pc[r] \in {"wait"} \cup Holding}

Release(r) == ahead' = [s \in Requests |-> IF s = r THEN {} ELSE ahead[s] \ {r}]

Goto(r, stage) == pc' = [pc EXCEPT ![r] = stage]

invalidate == cache' = None

(* upsert_user_provider_token: an empty refresh token keeps the old one.   *)
upsert_user_provider_token(new) ==
    /\ row' = IF new.refresh = None /\ row # None
              THEN [new EXCEPT !.refresh = row.refresh]
              ELSE new
    /\ gone' = IF row = None THEN gone ELSE [gone EXCEPT ![row.id] = now]

delete_user_provider_token ==
    /\ row' = None
    /\ gone' = IF row = None THEN gone ELSE [gone EXCEPT ![row.id] = now]

store == <<row, gone>>
provider == <<status, issued>>
locals == <<seen, grant, loaded>>
human == <<user, user_grant>>

-----------------------------------------------------------------------------
(* resolve_provider_routing starts with ensure_fresh_token.                *)
Begin(r) ==
    /\ pc[r] = "idle"
    /\ Goto(r, "cache_check")
    /\ UNCHANGED <<now, store, cache, ahead, provider, lost, locals, human>>

(* A live entry answers without the database when its token is fresh or    *)
(* when it holds no token of this provider.                                *)
CacheCheck(r) ==
    /\ pc[r] = "cache_check"
    /\ LET skip == IF ~CacheLive THEN FALSE
                   ELSE IF cache.creds = None THEN TRUE
                   ELSE Fresh(cache.creds.exp)
       IN Goto(r, IF skip THEN "resolve" ELSE "read_row")
    /\ UNCHANGED <<now, store, cache, ahead, provider, lost, locals, human>>

(* The first read of the row: an error or no row is nothing to refresh.    *)
(* The refresh token read here is the one presented later.                 *)
ReadRow(r) ==
    /\ pc[r] = "read_row"
    /\ \/ /\ Goto(r, "resolve")
          /\ UNCHANGED <<seen, ahead>>
       \/ /\ row # None
          /\ ~Fresh(row.exp)
          /\ row.refresh = None
          /\ Goto(r, "delete_stale")
          /\ UNCHANGED <<seen, ahead>>
       \/ /\ row # None
          /\ ~Fresh(row.exp)
          /\ row.refresh # None
          /\ seen' = [seen EXCEPT ![r] = row.refresh]
          /\ ahead' = [ahead EXCEPT ![r] = InLine]
          /\ Goto(r, "wait")
    /\ UNCHANGED <<now, store, cache, provider, lost, grant, loaded, human>>

(* No refresh token: the row is deleted (the result is ignored), then the  *)
(* cache entry.  No mutex is held here.                                    *)
DeleteStale(r) ==
    /\ pc[r] = "delete_stale"
    /\ delete_user_provider_token \/ UNCHANGED store
    /\ Goto(r, "forget")
    /\ UNCHANGED <<now, cache, ahead, provider, lost, locals, human>>

(* Slip: the refresh does not wait for the mutex.                          *)
LockAtOnce(r) ==
    /\ pc[r] = "wait"
    /\ Goto(r, "recheck")
    /\ UNCHANGED <<now, store, cache, ahead, provider, lost, locals, human>>

Lock(r) ==
    /\ pc[r] = "wait"
    /\ ahead[r] = {}
    /\ Goto(r, "recheck")
    /\ UNCHANGED <<now, store, cache, ahead, provider, lost, locals, human>>

(* Slip: the early return of the re-check keeps the mutex.                 *)
RecheckKeepsLock(r) ==
    /\ pc[r] = "recheck"
    /\ \/ /\ IF row = None THEN FALSE ELSE Fresh(row.exp)
          /\ invalidate
          /\ seen' = [seen EXCEPT ![r] = None]
          /\ Goto(r, "resolve")
          /\ UNCHANGED ahead
       \/ /\ Goto(r, "exchange")
          /\ UNCHANGED <<cache, ahead, seen>>
    /\ UNCHANGED <<now, store, provider, lost, grant, loaded, human>>

(* The re-check under the mutex: only a row that is there and fresh stops  *)
(* the refresh; an error or a missing row does not.                        *)
Recheck(r) ==
    /\ pc[r] = "recheck"
    /\ \/ /\ IF row = None THEN FALSE ELSE Fresh(row.exp)
          /\ invalidate
          /\ Release(r)
          /\ seen' = [seen EXCEPT ![r] = None]
          /\ Goto(r, "resolve")
       \/ /\ Goto(r, "exchange")
          /\ UNCHANGED <<cache, ahead, seen>>
    /\ UNCHANGED <<now, store, provider, lost, grant, loaded, human>>

(* The provider grants a token, and may rotate the refresh token.          *)
ExchangeOk(r) ==
    /\ pc[r] = "exchange"
    /\ status[seen[r]] = "live"
    /\ issued < MaxTokens
    /\ \E life \in Lifetimes, rotates \in BOOLEAN :
         /\ grant' = [grant EXCEPT ![r] =
                [id |-> issued + 1, exp |-> now + life,
                 refresh |-> IF rotates THEN issued + 1 ELSE seen[r]]]
         /\ status' = IF rotates THEN [status EXCEPT ![seen[r]] = "rotated"] ELSE status
    /\ issued' = issued + 1
    /\ Goto(r, "upsert")
    /\ UNCHANGED <<now, store, cache, ahead, lost, seen, loaded, human>>

(* refresh_token returns Err: the provider refused, answered 5xx, or could *)
(* not be reached.                                                         *)
ExchangeErr(r) ==
    /\ pc[r] = "exchange"
    /\ Goto(r, "delete_failed")
    /\ UNCHANGED <<now, store, cache, ahead, provider, lost, locals, human>>

(* Slip: the refresh token that was presented is stored again.             *)
UpsertOldRefresh(r) ==
    /\ pc[r] = "upsert"
    /\ upsert_user_provider_token([grant[r] EXCEPT !.refresh = seen[r]])
    /\ grant' = [grant EXCEPT ![r] = None]
    /\ Goto(r, "invalidate")
    /\ UNCHANGED <<now, cache, ahead, provider, lost, seen, loaded, human>>

(* The new row is stored; a database error is only logged.                 *)
Upsert(r) ==
    /\ pc[r] = "upsert"
    /\ \/ /\ upsert_user_provider_token(grant[r])
          /\ UNCHANGED lost
       \/ /\ lost' = (lost \/ grant[r].refresh # seen[r])
          /\ UNCHANGED store
    /\ grant' = [grant EXCEPT ![r] = None]
    /\ Goto(r, "invalidate")
    /\ UNCHANGED <<now, cache, ahead, provider, seen, loaded, human>>

DeleteFailed(r) ==
    /\ pc[r] = "delete_failed"
    /\ delete_user_provider_token \/ UNCHANGED store
    /\ Goto(r, "invalidate")
    /\ UNCHANGED <<now, cache, ahead, provider, lost, locals, human>>

(* self.invalidate(user_id), and the mutex guard, if any, goes out of      *)
(* scope.                                                                  *)
Invalidate(r) ==
    /\ pc[r] \in {"invalidate", "forget"}
    /\ invalidate
    /\ Release(r)
    /\ seen' = [seen EXCEPT ![r] = None]
    /\ Goto(r, "resolve")
    /\ UNCHANGED <<now, store, provider, lost, grant, loaded, human>>

(* resolve_provider_with_balancing: an unexpired row is the candidate that *)
(* is used; no row, an expired one or an error leads to the fallback.      *)
Resolve(r) ==
    /\ pc[r] = "resolve"
    /\ \/ /\ IF row = None THEN FALSE ELSE ~Expired(row.exp)
          /\ Goto(r, "idle")
       \/ Goto(r, "fallback")
    /\ UNCHANGED <<now, store, cache, ahead, provider, lost, locals, human>>

(* resolve_provider: a live entry is used whatever its token's expiry.     *)
Fallback(r) ==
    /\ pc[r] = "fallback"
    /\ Goto(r, IF CacheLive THEN "idle" ELSE "load")
    /\ UNCHANGED <<now, store, cache, ahead, provider, lost, locals, human>>

(* load_user_data: an error, a missing or an expired row loads as nothing. *)
Load(r) ==
    /\ pc[r] = "load"
    /\ \/ loaded' = [loaded EXCEPT ![r] = [creds |-> None, at |-> now]]
       \/ /\ IF row = None THEN FALSE ELSE ~Expired(row.exp)
          /\ loaded' = [loaded EXCEPT ![r] =
                 [creds |-> [id |-> row.id, exp |-> row.exp], at |-> now]]
    /\ Goto(r, "fill")
    /\ UNCHANGED <<now, store, cache, ahead, provider, lost, seen, grant, human>>

(* cache.insert with cached_at = now, whatever happened since the load.    *)
Fill(r) ==
    /\ pc[r] = "fill"
    /\ cache' = [creds |-> loaded[r].creds, at |-> now]
    /\ loaded' = [loaded EXCEPT ![r] = None]
    /\ Goto(r, "idle")
    /\ UNCHANGED <<now, store, ahead, provider, lost, seen, grant, human>>

(* The client hangs up and the request's future is dropped at an await.    *)
Cancel(r) ==
    /\ pc[r] # "idle"
    /\ Release(r)
    /\ lost' = (lost \/ IF grant[r] = None THEN FALSE ELSE grant[r].refresh # seen[r])
    /\ seen' = [seen EXCEPT ![r] = None]
    /\ grant' = [grant EXCEPT ![r] = None]
    /\ loaded' = [loaded EXCEPT ![r] = None]
    /\ Goto(r, "idle")
    /\ UNCHANGED <<now, store, cache, provider, human>>

-----------------------------------------------------------------------------
(* relay_callback: exchange_code succeeds; the refresh token may be empty. *)
ConnectExchange ==
    /\ user = "idle"
    /\ issued < MaxTokens
    /\ \E life \in Lifetimes, refresh \in {issued + 1, None} :
         user_grant' = [id |-> issued + 1, exp |-> now + life, refresh |-> refresh]
    /\ issued' = issued + 1
    /\ user' = "upsert"
    /\ UNCHANGED <<now, store, cache, ahead, status, lost, pc, locals>>

(* relay_callback: the token is stored, or both writes fail.               *)
ConnectUpsert ==
    /\ user = "upsert"
    /\ \/ upsert_user_provider_token(user_grant) /\ user' = "invalidate"
       \/ UNCHANGED store /\ user' = "idle"
    /\ user_grant' = None
    /\ UNCHANGED <<now, cache, ahead, provider, lost, pc, locals>>

(* disconnect_provider: the row is deleted; if there was none, 404.        *)
Disconnect ==
    /\ user = "idle"
    /\ row # None
    /\ delete_user_provider_token
    /\ user' = "invalidate"
    /\ UNCHANGED <<now, cache, ahead, provider, lost, pc, locals, user_grant>>

(* Both handlers end by dropping the user's cache entry.                   *)
UserInvalidate ==
    /\ user = "invalidate"
    /\ invalidate
    /\ user' = "idle"
    /\ UNCHANGED <<now, store, ahead, provider, lost, pc, locals, user_grant>>

(* The user revokes the gateway's access at the provider.                  *)
Revoke ==
    /\ IF row = None THEN FALSE ELSE row.refresh # None
    /\ status[row.refresh] = "live"
    /\ status' = [status EXCEPT ![row.refresh] = "revoked"]
    /\ UNCHANGED <<now, store, cache, ahead, issued, lost, pc, locals, human>>

Tick ==
    /\ now < MaxTime
    /\ \A r \in Requests : pc[r] = "fill" => now - loaded[r].at < MaxFill
    /\ now' = now + 1
    /\ UNCHANGED <<store, cache, ahead, provider, lost, pc, locals, human>>

Answer(r) == ExchangeOk(r) \/ ExchangeErr(r)

Step(r) ==
    \/ CacheCheck(r) \/ ReadRow(r) \/ DeleteStale(r) \/ Lock(r) \/ Recheck(r)
    \/ Upsert(r) \/ DeleteFailed(r) \/ Invalidate(r)
    \/ Resolve(r) \/ Fallback(r) \/ Load(r) \/ Fill(r)

Next ==
    \/ \E r \in Requests : Begin(r) \/ Step(r) \/ Answer(r) \/ Cancel(r)
    \/ ConnectExchange \/ ConnectUpsert \/ Disconnect \/ UserInvalidate
    \/ Revoke \/ Tick

(* A started request runs on between its calls to the provider.  Whether   *)
(* the provider answers is not assumed: HttpTokenExchanger's client has no *)
(* timeout.                                                                *)
Spec == Init /\ [][Next]_vars /\ \A r \in Requests : WF_vars(Step(r))

-----------------------------------------------------------------------------
(* The per-(user, provider) mutex: no two requests exchange refresh tokens *)
(* or write the outcome of a refresh at the same time.                     *)
OneRefreshAtATime ==
    \A r, s \in Requests :
        /\ pc[r] \in {"exchange", "upsert", "delete_failed"}
        /\ pc[s] \in {"exchange", "upsert", "delete_failed"}
        => r = s

(* A refresh token the provider has rotated away does not stay in the row: *)
(* its successor is stored, unless that store failed or the request was    *)
(* dropped before it.                                                      *)
RotationStored ==
    row # None => \/ row.refresh = None
                  \/ status[row.refresh] # "rotated"
                  \/ lost
                  \/ \E r \in Requests : pc[r] = "upsert" /\ seen[r] = row.refresh

(* "cached in the ProviderRegistry with a 5-minute TTL": a credential the  *)
(* cache can still hand out left the database, if it did, less than        *)
(* CACHE_TTL ago (plus the time a load takes to reach the cache), whatever *)
(* refreshes, connects and disconnects raced with the fill.                *)
CacheStalenessBounded ==
    CacheLive => \/ cache.creds = None
                 \/ IF row = None THEN FALSE ELSE row.id = cache.creds.id
                 \/ now - gone[cache.creds.id] < CacheTtl + MaxFill

(* A request is held up only by a provider that never answers.             *)
OnlyProviderBlocks ==
    (\A s \in Requests : []<>(pc[s] # "exchange"))
        => \A r \in Requests : pc[r] = "cache_check" ~> pc[r] = "idle"
=============================================================================
