---------------------------- MODULE ModelCatalog ----------------------------
(***************************************************************************)
(* The model registry: its table and visibility defaults (config_db.rs),   *)
(* the population of the table from the providers (model_registry.rs,      *)
(* main.rs), the administrator's changes (model_registry_handlers.rs,      *)
(* model_visibility_handlers.rs) and the copy in memory that requests and  *)
(* the model list are served from (cache.rs), which is emptied and filled  *)
(* again after every change.                                               *)
(*                                                                         *)
(* Of a row only matters whether the model is enabled.  Names, limits and  *)
(* other columns are left out.                                             *)
(***************************************************************************)
EXTENDS Naturals, FiniteSets, Functions

CONSTANTS
    Models,
    ProviderOf,      \* the provider of each model
    StaticModels,    \* models of the static definitions
    Actors           \* handlers, and the periodic task

ASSUME ModelCatalogAssumption ==
    ProviderOf \in [Models -> STRING] /\ StaticModels \subseteq Models

CatalogProviders == {ProviderOf[m] : m \in Models}
Of(p) == {m \in Models : ProviderOf[m] = p}

VARIABLES
    registry,    \* model_registry: a row by model
    defaults,    \* model_visibility_defaults, as a set of models
    cached,      \* registry_cache
    actor,       \* where each handler is
    hidden,      \* history: models an administrator hid last
    missed       \* history: what went wrong with reloads since the last one alone

catalog == <<registry, defaults, cached, actor, hidden, missed>>

(* wrote: the handler has changed the table and not reloaded it yet.       *)
AtRest == [pc |-> "idle", providers |-> {}, rows |-> <<>>, shown |-> {}, wrote |-> FALSE]

Put(f, m, r) == [x \in DOMAIN f \cup {m} |-> IF x = m THEN r ELSE f[x]]
Less(f, S) == Restrict(f, DOMAIN f \ S)

Goto(a, pc) == actor' = [actor EXCEPT ![a].pc = pc]
Writes(a, pc) == actor' = [actor EXCEPT ![a].pc = pc, ![a].wrote = TRUE]

(* A handler ends without the reload that would show what it changed.      *)
GivesUp(a, why) ==
    /\ actor' = [actor EXCEPT ![a] = AtRest]
    /\ missed' = IF actor[a].wrote THEN missed \cup {why} ELSE missed
    /\ UNCHANGED <<registry, defaults, cached, hidden>>

-----------------------------------------------------------------------------
(* ON CONFLICT: the administrator's flag stays.                            *)
Upserted(old, new) == [new EXCEPT !.enabled = old.enabled]

(* bulk_upsert_registry_models, in one transaction.                        *)
bulk_upsert_registry_models(rows) ==
    registry' = [m \in DOMAIN registry \cup DOMAIN rows |->
        IF m \notin DOMAIN rows THEN registry[m]
        ELSE IF m \in DOMAIN registry THEN Upserted(registry[m], rows[m])
        ELSE rows[m]]

(* What populate_provider may get: the models a provider lists, through    *)
(* the pool's credential or a user's, or the static ones when it lists     *)
(* none.  Without those the registry stays.                                *)
Fetchable(p) ==
    {[m \in S |-> [enabled |-> TRUE]] :
        S \in (SUBSET Of(p) \ {{}}) \cup {StaticModels \cap Of(p)}}

(* populate_models, and populate_all_providers of the periodic task: one   *)
(* provider after the other, then the reload, whatever failed.             *)
PopulateBegins(a, P) ==
    /\ actor[a].pc = "idle"
    /\ actor' = [actor EXCEPT ![a] = [AtRest EXCEPT !.pc = "populate", !.providers = P]]
    /\ UNCHANGED <<registry, defaults, cached, hidden, missed>>

populate_provider(a, p) ==
    /\ actor[a].pc = "populate" /\ p \in actor[a].providers
    /\ \E rows \in Fetchable(p) : bulk_upsert_registry_models(rows)
    /\ actor' = [actor EXCEPT ![a].providers = @ \ {p}, ![a].wrote = TRUE]
    /\ UNCHANGED <<defaults, cached, hidden, missed>>

PopulateFails(a, p) ==
    /\ actor[a].pc = "populate" /\ p \in actor[a].providers
    /\ actor' = [actor EXCEPT ![a].providers = @ \ {p}]
    /\ UNCHANGED <<registry, defaults, cached, hidden, missed>>

Populated(a) ==
    /\ actor[a].pc = "populate" /\ actor[a].providers = {}
    /\ Goto(a, "fetch")
    /\ UNCHANGED <<registry, defaults, cached, hidden, missed>>

-----------------------------------------------------------------------------
(* update_model: the flag is written first, then the name, if there is     *)
(* one.  A missing row or an error ends the request at either, after the   *)
(* flag without a reload.                                                  *)
update_model(a, m, on) ==
    /\ actor[a].pc = "idle" /\ m \in DOMAIN registry
    /\ registry' = [registry EXCEPT ![m].enabled = on]
    /\ hidden' = IF on THEN hidden \ {m} ELSE hidden \cup {m}
    /\ \E pc \in {"rename", "fetch"} : Writes(a, pc)
    /\ UNCHANGED <<defaults, cached, missed>>

update_model_display_name(a) ==
    /\ actor[a].pc = "rename"
    /\ \/ Goto(a, "fetch") /\ UNCHANGED <<registry, defaults, cached, hidden, missed>>
       \/ GivesUp(a, "error")

(* delete_model                                                            *)
delete_model(a, m) ==
    /\ actor[a].pc = "idle" /\ m \in DOMAIN registry
    /\ registry' = Less(registry, {m})
    /\ hidden' = hidden \ {m}
    /\ Writes(a, "fetch")
    /\ UNCHANGED <<defaults, cached, missed>>

(* set_defaults and, with no models, delete_defaults: no reload.           *)
set_visibility_defaults(p, S) ==
    /\ defaults' = (defaults \ Of(p)) \cup S
    /\ UNCHANGED <<registry, cached, actor, hidden, missed>>

(* apply_defaults of a provider, and apply_all_defaults of those that have *)
(* defaults.  For each provider: defaults are looked for ...               *)
ApplyBegins(a) ==
    /\ actor[a].pc = "idle"
    /\ \E P \in {{p} : p \in CatalogProviders} \cup {{ProviderOf[m] : m \in defaults}} :
          actor' = [actor EXCEPT ![a] = [AtRest EXCEPT !.pc = "apply", !.providers = P]]
    /\ UNCHANGED <<registry, defaults, cached, hidden, missed>>

HasDefaults(a, p) ==
    /\ actor[a].pc = "apply" /\ p \in actor[a].providers
    /\ actor' = IF defaults \cap Of(p) = {} THEN [actor EXCEPT ![a].providers = @ \ {p}]
                ELSE [actor EXCEPT ![a].pc = "applying", ![a].shown = Of(p)]
    /\ UNCHANGED <<registry, defaults, cached, hidden, missed>>

(* The allowlist: what is listed is enabled, what is not is disabled.      *)
Visible(m) == m \in defaults

(* ... and then applied in one transaction, which reads them again.        *)
apply_visibility_defaults(a) ==
    /\ actor[a].pc = "applying"
    /\ LET S == actor[a].shown
       IN /\ registry' = [m \in DOMAIN registry |->
                 IF m \in S THEN [registry[m] EXCEPT !.enabled = Visible(m)] ELSE registry[m]]
          /\ hidden' = (hidden \ S) \cup {m \in S \cap DOMAIN registry : m \notin defaults}
          /\ actor' = [actor EXCEPT ![a].pc = "apply", ![a].shown = {}, ![a].wrote = TRUE,
                                    ![a].providers = {p \in @ : Of(p) # S}]
    /\ UNCHANGED <<defaults, cached, missed>>

Applied(a) ==
    /\ actor[a].pc = "apply" /\ actor[a].providers = {}
    /\ Goto(a, "fetch")
    /\ UNCHANGED <<registry, defaults, cached, hidden, missed>>

(* An error at one provider ends the request, with those before applied.   *)
ApplyFails(a) == actor[a].pc \in {"apply", "applying"} /\ GivesUp(a, "error")

-----------------------------------------------------------------------------
(* load_from_registry: the rows are read, the cache is emptied, and filled *)
(* row by row.  An error is ignored.                                       *)
LoadFetch(a) ==
    /\ actor[a].pc = "fetch"
    /\ actor' = [actor EXCEPT ![a].pc = "clear", ![a].rows = registry, ![a].wrote = FALSE]
    /\ missed' = IF \E b \in Actors \ {a} : actor[b].pc \in {"clear", "insert"}
                 THEN missed \cup {"reload"} ELSE {}
    /\ UNCHANGED <<registry, defaults, cached, hidden>>

LoadFails(a) ==
    /\ actor[a].pc = "fetch"
    /\ actor' = [actor EXCEPT ![a] = AtRest]
    /\ missed' = missed \cup {"reload"}
    /\ UNCHANGED <<registry, defaults, cached, hidden>>

LoadClear(a) ==
    /\ actor[a].pc = "clear"
    /\ cached' = <<>>
    /\ Goto(a, "insert")
    /\ UNCHANGED <<registry, defaults, hidden, missed>>

(* Slip: only enabled models are kept, as the doc of the start-up says.    *)
LoadInsertEnabled(a, m) ==
    /\ actor[a].pc = "insert" /\ m \in DOMAIN actor[a].rows
    /\ cached' = IF actor[a].rows[m].enabled THEN Put(cached, m, actor[a].rows[m]) ELSE cached
    /\ actor' = [actor EXCEPT ![a].rows = Less(@, {m})]
    /\ UNCHANGED <<registry, defaults, hidden, missed>>

LoadInsert(a, m) ==
    /\ actor[a].pc = "insert" /\ m \in DOMAIN actor[a].rows
    /\ cached' = Put(cached, m, actor[a].rows[m])
    /\ actor' = [actor EXCEPT ![a].rows = Less(@, {m})]
    /\ UNCHANGED <<registry, defaults, hidden, missed>>

LoadEnds(a) ==
    /\ actor[a].pc = "insert" /\ DOMAIN actor[a].rows = {}
    /\ actor' = [actor EXCEPT ![a] = AtRest]
    /\ UNCHANGED <<registry, defaults, cached, hidden, missed>>

(* The client gives up on a handler, at any await: from the first query to *)
(* the rows of the reload on their way.                                    *)
Dropped(a) ==
    \/ /\ actor[a].pc \in {"populate", "apply", "applying", "rename", "fetch"}
       /\ GivesUp(a, "dropped")
    \/ /\ actor[a].pc = "clear"
       /\ actor' = [actor EXCEPT ![a] = AtRest]
       /\ missed' = missed \cup {"reload"}
       /\ UNCHANGED <<registry, defaults, cached, hidden>>

CatalogNext ==
    \/ \E a \in Actors, P \in {CatalogProviders} \cup {{p} : p \in CatalogProviders} :
          PopulateBegins(a, P)
    \/ \E a \in Actors, p \in CatalogProviders :
          populate_provider(a, p) \/ PopulateFails(a, p) \/ HasDefaults(a, p)
    \/ \E a \in Actors, m \in Models :
          \/ delete_model(a, m) \/ LoadInsert(a, m)
          \/ \E on \in BOOLEAN : update_model(a, m, on)
    \/ \E a \in Actors :
          \/ Populated(a) \/ update_model_display_name(a)
          \/ ApplyBegins(a) \/ apply_visibility_defaults(a) \/ Applied(a) \/ ApplyFails(a)
          \/ Dropped(a)
          \/ LoadFetch(a) \/ LoadFails(a) \/ LoadClear(a) \/ LoadEnds(a)
    \/ \E p \in CatalogProviders : \E S \in SUBSET Of(p) : set_visibility_defaults(p, S)

(* A start: the table of the last run, loaded before requests are served.  *)
CatalogInit ==
    /\ registry = <<>> /\ defaults = {} /\ cached = <<>>
    /\ actor = [a \in Actors |-> AtRest]
    /\ hidden = {}
    /\ missed = {}

CatalogSpec == CatalogInit /\ [][CatalogNext]_catalog

-----------------------------------------------------------------------------
(* get_models_handler and validate_model_visibility, with the providers in *)
(* off switched off.  A model that is not in the cache passes.             *)
Listed(off) == {m \in DOMAIN cached : cached[m].enabled /\ ProviderOf[m] \notin off}
is_model_disabled(m) == IF m \in DOMAIN cached THEN ~cached[m].enabled ELSE FALSE

(* The list and the check of a request agree with the table.               *)
Mirrored ==
    /\ \A off \in SUBSET CatalogProviders :
          Listed(off) = {m \in DOMAIN registry : registry[m].enabled /\ ProviderOf[m] \notin off}
    /\ \A m \in DOMAIN registry : is_model_disabled(m) <=> ~registry[m].enabled
    /\ \A m \in Models \ DOMAIN registry : ~is_model_disabled(m)

AllDone == \A a \in Actors : actor[a].pc = "idle"

(* Once every handler is done, requests are checked against the table as   *)
(* it is.  What is excepted, until the next reload alone: reloads that     *)
(* overlapped, one that failed or was given up, and a handler that changed *)
(* the table and ended before its reload, by an error or by its client.    *)
RequestsSeeTable == missed = {} /\ AllDone => Mirrored

(* A model an administrator hid stays hidden through every population, by  *)
(* the task or by hand, for as long as its row is there.                   *)
HiddenStaysHidden == \A m \in hidden \cap DOMAIN registry : ~registry[m].enabled

(* Requests are checked against what administrators decided: the copy in   *)
(* memory says what the table says, and the table keeps what was hidden.   *)
CatalogMirrored == RequestsSeeTable /\ HiddenStaysHidden
=============================================================================
