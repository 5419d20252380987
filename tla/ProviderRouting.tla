-------------------------- MODULE ProviderRouting --------------------------
(***************************************************************************)
(* Routing a request to a provider while administrators enable and disable *)
(* providers: validate_provider_enabled (routes/pipeline.rs),              *)
(* resolve_provider_with_balancing, resolve_provider, pick_best_provider,  *)
(* load_user_data and set_provider_enabled (providers/registry.rs), and    *)
(* toggle_provider_enabled (web_ui/provider_oauth.rs).                     *)
(*                                                                         *)
(* All of them share disabled_providers, a tokio RwLock: first come, first *)
(* served, and a reader that comes after a waiting writer waits behind it. *)
(* A request may hold or want two read guards at once, so what stands in   *)
(* line is a ticket; ahead[t] are the tickets t has to wait for.           *)
(*                                                                         *)
(* One user's requests are modelled.  Credentials come and go and reads    *)
(* may fail, so a read of the database finds any set of them, and any      *)
(* order of priorities.                                                    *)
(***************************************************************************)
EXTENDS Integers, Optional

CONSTANTS
    Incoming,     \* concurrent requests of the user
    Admins,       \* concurrent toggles by administrators
    Providers,    \* direct providers (Kiro is the fallback and no member)
    Native,       \* the direct provider of unprefixed model names
    Copilot,      \* the provider that serves any model
    Seeded        \* providers with a row in provider_settings

ASSUME ProvidersAssumption == Native \in Providers /\ Copilot \in Providers
                              /\ Native # Copilot /\ Seeded \subseteq Providers
                              /\ None \notin Providers /\ "kiro" \notin Providers

VARIABLES
    disabled,     \* the set behind the RwLock
    db_disabled,  \* providers with enabled = false in provider_settings
    cache,        \* providers with credentials in the user's entry, or None
    ahead,        \* tickets ahead of each ticket in line for the lock
    line,         \* tickets that hold the lock or wait for it
    at,           \* where each request is
    target,       \* the request's provider, and whether its prefix names it
    choice,       \* the provider chosen for the request
    enabled_once, \* history: providers enabled at some moment of the request
    admin         \* each administrator's toggle in progress

routingVars == <<disabled, db_disabled, cache, ahead, line, at, target,
                 choice, enabled_once, admin>>

(* Tickets: the guard a request takes, the second guard load_user_data     *)
(* takes, and an administrator's write guard.                              *)
Ticket == (Incoming \X {"outer", "inner"}) \cup (Admins \X {"write"})

Stages == {"idle", "validate", "balance_wait", "balance", "fallback_wait",
           "fallback", "load_wait", "load", "done"}

Toggle == [stage : {"set_db", "stored", "wait"}, provider : Providers, enabled : BOOLEAN]

ASSUME NoneAssumption == None \notin Toggle

RoutingTypeOK ==
    /\ disabled \subseteq Providers
    /\ db_disabled \subseteq Providers
    /\ cache \in (SUBSET Providers) \cup {None}
    /\ ahead \in [Ticket -> SUBSET Ticket]
    /\ line \subseteq Ticket
    /\ at \in [Incoming -> Stages]
    /\ target \in [Incoming -> [native : Providers, explicit : BOOLEAN]]
    /\ choice \in [Incoming -> Providers \cup {"kiro", None}]
    /\ enabled_once \in [Incoming -> SUBSET Providers]
    /\ admin \in [Admins -> Toggle \cup {None}]

RoutingInit ==
    /\ db_disabled \in SUBSET Seeded
    /\ disabled = db_disabled
    /\ cache = None
    /\ ahead = [t \in Ticket |-> {}]
    /\ line = {}
    /\ at = [r \in Incoming |-> "idle"]
    /\ target = [r \in Incoming |-> [native |-> Native, explicit |-> FALSE]]
    /\ choice = [r \in Incoming |-> None]
    /\ enabled_once = [r \in Incoming |-> {}]
    /\ admin = [a \in Admins |-> None]

-----------------------------------------------------------------------------
(* The lock.                                                               *)
Writers(tickets) == {t \in tickets : t[2] = "write"}

(* read().await: behind the writers in line; write().await: behind all.    *)
AskRead(t) ==
    /\ line' = line \cup {t}
    /\ ahead' = [ahead EXCEPT ![t] = Writers(line)]

AskWrite(t) ==
    /\ line' = line \cup {t}
    /\ ahead' = [ahead EXCEPT ![t] = line]

Granted(t) == t \in line /\ ahead[t] = {}

Drop(tickets) ==
    /\ line' = line \ tickets
    /\ ahead' = [t \in Ticket |-> IF t \in tickets THEN {} ELSE ahead[t] \ tickets]

lock == <<line, ahead>>
settings == <<disabled, db_disabled, admin>>

Outer(r) == <<r, "outer">>
Inner(r) == <<r, "inner">>
Write(a) == <<a, "write">>

Goto(r, stage) == at' = [at EXCEPT ![r] = stage]

Choose(r, p) == Goto(r, "done") /\ choice' = [choice EXCEPT ![r] = p]

-----------------------------------------------------------------------------
(* A request arrives, for an unprefixed model or for a prefixed one, and   *)
(* asks for the first guard it needs.                                      *)
Arrive(r) ==
    /\ at[r] \in {"idle", "done"}
    /\ \E p \in Providers, explicit \in BOOLEAN :
         /\ explicit \/ p = Native
         /\ target' = [target EXCEPT ![r] = [native |-> p, explicit |-> explicit]]
         /\ Goto(r, IF explicit THEN "validate" ELSE "balance_wait")
    /\ AskRead(Outer(r))
    /\ choice' = [choice EXCEPT ![r] = None]
    /\ enabled_once' = [enabled_once EXCEPT ![r] = Providers \ disabled]
    /\ UNCHANGED <<settings, cache>>

(* validate_provider_enabled: a prefix naming a disabled provider is       *)
(* refused.                                                                *)
ValidateRefuses(r) ==
    /\ at[r] = "validate"
    /\ Granted(Outer(r))
    /\ target[r].native \in disabled
    /\ Drop({Outer(r)})
    /\ Goto(r, "done")
    /\ UNCHANGED <<settings, cache, target, choice, enabled_once>>

(* Its guard is dropped before resolve_provider_with_balancing asks again. *)
ValidateAccepts(r) ==
    /\ at[r] = "validate"
    /\ Granted(Outer(r))
    /\ target[r].native \notin disabled
    /\ line' = line
    /\ ahead' = [t \in Ticket |-> IF t = Outer(r) THEN Writers(line)
                                                  ELSE ahead[t] \ {Outer(r)}]
    /\ Goto(r, "balance_wait")
    /\ UNCHANGED <<settings, cache, target, choice, enabled_once>>

BalanceStarts(r) ==
    /\ at[r] = "balance_wait"
    /\ Granted(Outer(r))
    /\ Goto(r, "balance")
    /\ UNCHANGED <<settings, cache, lock, target, choice, enabled_once>>

(* copilot_pri compared with native_pri.                                   *)
Priorities == {"lower", "equal", "higher"}

(* The candidates, when the database has the user's own accounts and the   *)
(* admin pool's: native accounts, Copilot when its priority is no worse or *)
(* nothing else was found, and the pool.                                   *)
Candidates(r, accounts, pool, priority) ==
    LET native == target[r].native
        own == ({native} \cap accounts) \ disabled
        copilot == IF \/ target[r].explicit
                      \/ native = Copilot
                      \/ own # {} /\ priority = "higher"
                   THEN {}
                   ELSE ({Copilot} \cap accounts) \ disabled
    IN own \cup copilot \cup (({native} \cap pool) \ disabled)

(* resolve_provider_with_balancing finds candidates: the rate limits       *)
(* decide among them.  The guard is held over all the database reads.      *)
BalancePicks(r) ==
    /\ at[r] = "balance"
    /\ \E accounts, pool \in SUBSET Providers, priority \in Priorities :
         \E p \in Candidates(r, accounts, pool, priority) : Choose(r, p)
    /\ Drop({Outer(r)})
    /\ UNCHANGED <<settings, cache, target, enabled_once>>

(* The reads find no candidate, as they always may: a prefix is binding,   *)
(* and the request ends without credentials.                               *)
BalanceExplicit(r) ==
    /\ at[r] = "balance"
    /\ target[r].explicit
    /\ Drop({Outer(r)})
    /\ Goto(r, "done")
    /\ UNCHANGED <<settings, cache, target, choice, enabled_once>>

(* The same without a prefix: the guard is dropped "before potential       *)
(* recursive call" and resolve_provider asks for it again.                 *)
BalanceFallsBack(r) ==
    /\ at[r] = "balance"
    /\ ~target[r].explicit
    /\ line' = line
    /\ ahead' = [t \in Ticket |-> IF t = Outer(r) THEN Writers(line)
                                                  ELSE ahead[t] \ {Outer(r)}]
    /\ Goto(r, "fallback_wait")
    /\ UNCHANGED <<settings, cache, target, choice, enabled_once>>

FallbackStarts(r) ==
    /\ at[r] = "fallback_wait"
    /\ Granted(Outer(r))
    /\ Goto(r, "fallback")
    /\ UNCHANGED <<settings, cache, lock, target, choice, enabled_once>>

(* pick_best_provider: Copilot needs a strictly better priority.           *)
pick_best_provider(creds, priority) ==
    IF Native \notin creds /\ Copilot \notin creds THEN "kiro"
    ELSE IF Native \notin creds THEN Copilot
    ELSE IF Copilot \in creds /\ priority = "lower" THEN Copilot
    ELSE Native

(* Slip: the cached credentials are not filtered.                          *)
FallbackHitUnfiltered(r) ==
    /\ at[r] = "fallback"
    /\ cache # None
    /\ \E priority \in Priorities : Choose(r, pick_best_provider(cache, priority))
    /\ Drop({Outer(r)})
    /\ UNCHANGED <<settings, cache, target, enabled_once>>

(* resolve_provider, cache hit: what has been disabled since is left out.  *)
FallbackHit(r) ==
    /\ at[r] = "fallback"
    /\ cache # None
    /\ \E priority \in Priorities : Choose(r, pick_best_provider(cache \ disabled, priority))
    /\ Drop({Outer(r)})
    /\ UNCHANGED <<settings, cache, target, enabled_once>>

(* Cache miss: load_user_data asks for a second guard under the first.     *)
FallbackMiss(r) ==
    /\ at[r] = "fallback"
    /\ cache = None
    /\ AskRead(Inner(r))
    /\ Goto(r, "load_wait")
    /\ UNCHANGED <<settings, cache, target, choice, enabled_once>>

LoadStarts(r) ==
    /\ at[r] = "load_wait"
    /\ Granted(Inner(r))
    /\ Goto(r, "load")
    /\ UNCHANGED <<settings, cache, lock, target, choice, enabled_once>>

(* load_user_data returns, both guards are dropped, the entry is inserted. *)
LoadEnds(r) ==
    /\ at[r] = "load"
    /\ \E creds \in SUBSET ({Native, Copilot} \ disabled), priority \in Priorities :
         /\ cache' = creds
         /\ Choose(r, pick_best_provider(creds, priority))
    /\ Drop({Outer(r), Inner(r)})
    /\ UNCHANGED <<settings, target, enabled_once>>

(* The entry outlives CACHE_TTL, or a connect or refresh invalidates it.   *)
CacheExpires ==
    /\ cache # None
    /\ cache' = None
    /\ UNCHANGED <<settings, lock, at, target, choice, enabled_once>>

-----------------------------------------------------------------------------
AtStage(a, stage) == IF admin[a] = None THEN FALSE ELSE admin[a].stage = stage

(* toggle_provider_enabled: an administrator asks for a change.            *)
ToggleBegins(a) ==
    /\ admin[a] = None
    /\ \E p \in Providers, enabled \in BOOLEAN :
         admin' = [admin EXCEPT ![a] =
                     [stage |-> "set_db", provider |-> p, enabled |-> enabled]]
    /\ UNCHANGED <<disabled, db_disabled, cache, lock, at,
                   target, choice, enabled_once>>

(* ConfigDb::set_provider_enabled: an UPDATE, which changes no row when    *)
(* the provider has none; the handler ignores that.                        *)
ToggleDb(a) ==
    /\ AtStage(a, "set_db")
    /\ LET p == {admin[a].provider} \cap Seeded IN
       db_disabled' = IF admin[a].enabled THEN db_disabled \ p ELSE db_disabled \cup p
    /\ admin' = [admin EXCEPT ![a].stage = "stored"]
    /\ UNCHANGED <<disabled, cache, lock, at, target, choice, enabled_once>>

(* The answer of the database is in: the write guard is asked for.         *)
ToggleAsks(a) ==
    /\ AtStage(a, "stored")
    /\ admin' = [admin EXCEPT ![a].stage = "wait"]
    /\ AskWrite(Write(a))
    /\ UNCHANGED <<disabled, db_disabled, cache, at, target, choice,
                   enabled_once>>

(* The UPDATE fails: the handler returns the error.                        *)
ToggleFails(a) ==
    /\ AtStage(a, "set_db")
    /\ admin' = [admin EXCEPT ![a] = None]
    /\ UNCHANGED <<disabled, db_disabled, cache, lock, at,
                   target, choice, enabled_once>>

(* ProviderRegistry::set_provider_enabled, once the write guard is there.  *)
ToggleMemory(a) ==
    /\ AtStage(a, "wait")
    /\ Granted(Write(a))
    /\ disabled' = IF admin[a].enabled THEN disabled \ {admin[a].provider}
                                       ELSE disabled \cup {admin[a].provider}
    /\ enabled_once' = [r \in Incoming |-> enabled_once[r] \cup (Providers \ disabled')]
    /\ Drop({Write(a)})
    /\ admin' = [admin EXCEPT ![a] = None]
    /\ UNCHANGED <<db_disabled, cache, at, target, choice>>

(* The gateway restarts: load_disabled_providers_from_db reads the         *)
(* settings, or warns that all providers are enabled.                      *)
Restart ==
    /\ disabled' \in {db_disabled, {}}
    /\ cache' = None
    /\ line' = {}
    /\ ahead' = [t \in Ticket |-> {}]
    /\ at' = [r \in Incoming |-> "idle"]
    /\ choice' = [r \in Incoming |-> None]
    /\ enabled_once' = [r \in Incoming |-> {}]
    /\ admin' = [a \in Admins |-> None]
    /\ UNCHANGED <<db_disabled, target>>

RoutingStep(r) ==
    \/ ValidateRefuses(r) \/ ValidateAccepts(r)
    \/ BalanceStarts(r) \/ BalancePicks(r) \/ BalanceExplicit(r) \/ BalanceFallsBack(r)
    \/ FallbackStarts(r) \/ FallbackHit(r) \/ FallbackMiss(r)
    \/ LoadStarts(r) \/ LoadEnds(r)

ToggleStep(a) == ToggleDb(a) \/ ToggleAsks(a) \/ ToggleFails(a) \/ ToggleMemory(a)

RoutingNext ==
    \/ \E r \in Incoming : Arrive(r) \/ RoutingStep(r)
    \/ \E a \in Admins : ToggleBegins(a) \/ ToggleStep(a)
    \/ CacheExpires
    \/ Restart

(* Requests and toggles that have begun run on: the runtime polls ready    *)
(* tasks and every database call returns.                                  *)
RoutingSpec ==
    /\ RoutingInit
    /\ [][RoutingNext]_routingVars
    /\ \A r \in Incoming : WF_routingVars(RoutingStep(r))
    /\ \A a \in Admins : WF_routingVars(ToggleStep(a))

-----------------------------------------------------------------------------
(* A provider a request is sent to was enabled at some moment between its  *)
(* arrival and its choice, whichever of balancing, cache hit and load made *)
(* the choice and whatever toggles and restarts happened meanwhile.        *)
ChosenWasEnabled ==
    \A r \in Incoming :
        choice[r] \in Providers => choice[r] \in enabled_once[r]

(* No request is stuck: the guard is released "before potential recursive  *)
(* call" (resolve_provider_with_balancing).                                *)
EveryRequestResolves ==
    \A r \in Incoming : at[r] # "idle" ~> at[r] \in {"idle", "done"}
=============================================================================
