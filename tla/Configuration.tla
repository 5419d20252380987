--------------------------- MODULE Configuration ---------------------------
(***************************************************************************)
(* The gateway's configuration: the rows of table config                   *)
(* (web_ui/config_db.rs), the Config in memory (config.rs) laid over them  *)
(* when the gateway starts (main.rs), and PUT /config, which writes the    *)
(* rows one by one and then the fields in memory one by one                *)
(* (web_ui/routes.rs, web_ui/config_api.rs).                               *)
(*                                                                         *)
(* A value is one of the classes its field tells apart.                    *)
(***************************************************************************)
EXTENDS Naturals, FiniteSets, Functions

CONSTANTS
    Admins,     \* administrators with a PUT at a time each
    Keys,       \* the fields of interest
    MaxBoots    \* bound on the restarts

Toggles == {"auth_google_enabled", "auth_password_enabled", "guardrails_enabled",
            "fake_reasoning_enabled", "truncation_recovery"}
Numbers == {"fake_reasoning_max_tokens", "tool_description_max_length",
            "first_token_timeout", "streaming_timeout", "token_refresh_threshold",
            "http_max_connections", "http_connect_timeout", "http_request_timeout",
            "http_max_retries"}
GoogleKeys == {"google_client_id", "google_client_secret", "google_callback_url"}
ClientIds == {"anthropic_oauth_client_id", "openai_oauth_client_id"}
AllKeys == Toggles \cup Numbers \cup GoogleKeys \cup ClientIds
               \cup {"kiro_region", "log_level", "debug_mode"}

ASSUME ConfigurationAssumption ==
    /\ Keys \subseteq AllKeys /\ MaxBoots \in Nat
    /\ {"auth_google_enabled", "auth_password_enabled"} \subseteq Keys

VARIABLES
    stored,      \* table config: the value of a key, "none" without a row
    memory,      \* AppState.config
    setup,       \* AppState.setup_complete
    hasKey,      \* CONFIG_ENCRYPTION_KEY is set
    update,      \* the PUT of each administrator
    overlaid,    \* history: this run laid the rows over its defaults
    torn,        \* history: a PUT of this run overlapped another or stopped half-way
    spoiled,     \* history: "torn" after the same, or a start without the key, in any
                 \* run; "misread" after a check that read password login on when off
    boots        \* restarts so far

config == <<stored, memory, setup, hasKey, update, overlaid, torn, spoiled, boots>>

NoRow == "none"

(* with_defaults, then the environment.                                    *)
with_defaults ==
    [k \in Keys |->
        IF k \in Toggles
        THEN IF k \in {"auth_google_enabled", "guardrails_enabled"} THEN "false" ELSE "true"
        ELSE IF k \in Numbers THEN "default"
        ELSE IF k \in GoogleKeys \cup ClientIds THEN "" ELSE "default"]

(* Values of a request's field: the classes validate_config_field and the  *)
(* two readers of a value distinguish.                                     *)
Values(k) ==
    IF k \in Toggles THEN {"true", "false", "junk"}
    ELSE IF k \in Numbers THEN {"0", "in", "over", "junk"}
    ELSE IF k = "google_client_secret" THEN {"", "masked", "text", "long"}
    ELSE IF k \in {"log_level", "debug_mode"} THEN {"listed", "junk"}
    ELSE {"", "text", "long"}

AllowsZero(k) == k = "http_max_retries"

validate_config_field(k, v) ==
    IF k \in Numbers THEN v = "in" \/ (v = "0" /\ AllowsZero(k)) ELSE v \notin {"junk", "long"}

classify_config_change(k) ==
    IF k \in {"kiro_region"} \cup (Numbers \ {"fake_reasoning_max_tokens",
                 "tool_description_max_length", "first_token_timeout"})
    THEN "RequiresRestart" ELSE "HotReload"

(* What load_into_config makes of a row: an encrypted one is skipped       *)
(* without the key, a number out of range or a boolean that does not parse *)
(* keeps the default.                                                      *)
LoadedField(k, v, ek) ==
    IF \/ v = NoRow
       \/ k = "google_client_secret" /\ ~ek
       \/ k \in Numbers /\ ~(v = "in" \/ (v = "0" /\ AllowsZero(k)))
    THEN with_defaults[k] ELSE v

load_into_config(rows, ek) == [k \in Keys |-> LoadedField(k, rows[k], ek)]

Idle == [pc |-> "idle", fields |-> <<>>, todo |-> {}, google |-> FALSE, wrote |-> FALSE]

Spoils(tears) == IF tears THEN spoiled \cup {"torn"} ELSE spoiled

-----------------------------------------------------------------------------
(* main: the rows count only once an administrator exists.  A crash may    *)
(* come at any time, and the key may be there or not at the next start.    *)
Boot(ek) ==
    /\ boots < MaxBoots
    /\ boots' = boots + 1
    /\ memory' = IF setup THEN load_into_config(stored, ek) ELSE with_defaults
    /\ overlaid' = setup
    /\ hasKey' = ek
    /\ update' = [a \in Admins |-> Idle]
    /\ torn' = FALSE
    /\ spoiled' = Spoils(~ek \/ \E a \in Admins : update[a].wrote)
    /\ UNCHANGED <<stored, setup>>

(* The first account makes the set-up complete, without a new load.        *)
CompleteSetup ==
    /\ ~setup
    /\ setup' = TRUE
    /\ UNCHANGED <<stored, memory, hasKey, update, overlaid, torn, spoiled, boots>>

(* PUT /config: every field is validated before anything else.             *)
Submit(a, fields) ==
    /\ setup
    /\ update[a].pc = "idle"
    /\ \A k \in DOMAIN fields : validate_config_field(k, fields[k])
    /\ update' = [update EXCEPT ![a] =
                     [Idle EXCEPT !.pc = "google", !.fields = fields, !.todo = DOMAIN fields]]
    /\ LET overlap == \E b \in Admins \ {a} : update[b].pc # "idle"
       IN torn' = (torn \/ overlap) /\ spoiled' = Spoils(overlap)
    /\ UNCHANGED <<stored, memory, setup, hasKey, overlaid, boots>>

(* The toggles are read from the table, in two queries.  A query that      *)
(* fails reads as no row: Google off, passwords on.                        *)
StoredToggle(k, default) == IF stored[k] = NoRow THEN default ELSE stored[k] = "true"

ReadGoogle(a) ==
    /\ update[a].pc = "google"
    /\ \E google \in {StoredToggle("auth_google_enabled", FALSE), FALSE} :
          update' = [update EXCEPT ![a].pc = "password", ![a].google = google]
    /\ UNCHANGED <<stored, memory, setup, hasKey, overlaid, torn, spoiled, boots>>

Configured(m) == \A k \in GoogleKeys \cap Keys : m[k] # ""

(* Slip: a toggle of the request is not laid over the stored one.          *)
CrossFieldStoredOnly(fields, google, password, configured) ==
    LET cleared == \E k \in GoogleKeys \cap DOMAIN fields : fields[k] = ""
    IN password \/ (google /\ configured /\ ~cleared)

(* The cross-field check: the request's fields over the current ones.      *)
CrossField(fields, google, password, configured) ==
    LET Proposed(k, current) == IF k \in DOMAIN fields THEN fields[k] = "true" ELSE current
        cleared == \E k \in GoogleKeys \cap DOMAIN fields : fields[k] = ""
    IN \/ Proposed("auth_password_enabled", password)
       \/ Proposed("auth_google_enabled", google) /\ configured /\ ~cleared

ReadPassword(a) ==
    /\ update[a].pc = "password"
    /\ \E password \in {StoredToggle("auth_password_enabled", TRUE), TRUE} :
          LET passes == CrossField(update[a].fields, update[a].google, password,
                                   Configured(memory))
          IN /\ update' = [update EXCEPT ![a] = IF passes THEN [@ EXCEPT !.pc = "persist"] ELSE Idle]
             /\ spoiled' = IF password = StoredToggle("auth_password_enabled", TRUE) THEN spoiled
                           ELSE spoiled \cup {"misread"}
    /\ UNCHANGED <<stored, memory, setup, hasKey, overlaid, torn, boots>>

Refuses(k, v) == k = "google_client_secret" /\ v \notin {"masked", ""} /\ ~hasKey

(* One row, in a transaction with its entry of the history.  The rows are  *)
(* written in the order of a hash map; a masked secret is skipped.         *)
Persist(a, k) ==
    /\ update[a].pc = "persist" /\ k \in update[a].todo
    /\ ~Refuses(k, update[a].fields[k])
    /\ stored' = IF update[a].fields[k] = "masked" THEN stored
                 ELSE [stored EXCEPT ![k] = update[a].fields[k]]
    /\ LET rest == update[a].todo \ {k}
       IN update' = [update EXCEPT ![a] =
              [@ EXCEPT !.wrote = TRUE,
                        !.pc = IF rest = {} THEN "apply" ELSE "persist",
                        !.todo = IF rest = {} THEN DOMAIN update[a].fields ELSE rest]]
    /\ UNCHANGED <<memory, setup, hasKey, overlaid, torn, spoiled, boots>>

(* An error of the database, or a secret without the key, ends the request *)
(* with the rows written so far in place and nothing applied.              *)
PersistFails(a) ==
    /\ update[a].pc = "persist"
    /\ update' = [update EXCEPT ![a] = Idle]
    /\ torn' = (torn \/ update[a].wrote)
    /\ spoiled' = Spoils(update[a].wrote)
    /\ UNCHANGED <<stored, memory, setup, hasKey, overlaid, boots>>

(* Slip: a masked secret is taken as a new one.                            *)
AppliedMask(m, k, v) ==
    IF classify_config_change(k) = "HotReload" THEN [m EXCEPT ![k] = v] ELSE m

apply_config_field(m, k, v) ==
    IF classify_config_change(k) = "HotReload" /\ v # "masked" THEN [m EXCEPT ![k] = v] ELSE m

(* One field under the write lock of the configuration.                    *)
Apply(a, k) ==
    /\ update[a].pc = "apply" /\ k \in update[a].todo
    /\ memory' = apply_config_field(memory, k, update[a].fields[k])
    /\ LET rest == update[a].todo \ {k}
       IN update' = [update EXCEPT ![a] = IF rest = {} THEN Idle ELSE [@ EXCEPT !.todo = rest]]
    /\ UNCHANGED <<stored, setup, hasKey, overlaid, torn, spoiled, boots>>

ConfigNext(RequestsOf(_)) ==
    \/ \E ek \in BOOLEAN : Boot(ek)
    \/ CompleteSetup
    \/ \E a \in Admins :
          \/ \E fields \in RequestsOf(a) : Submit(a, fields)
          \/ ReadGoogle(a) \/ ReadPassword(a) \/ PersistFails(a)
          \/ \E k \in Keys : Persist(a, k) \/ Apply(a, k)

(* A migrated database: the client ids are seeded.                         *)
ConfigInit ==
    /\ stored = [k \in Keys |-> IF k \in ClientIds THEN "text" ELSE NoRow]
    /\ setup \in BOOLEAN
    /\ hasKey \in BOOLEAN
    /\ memory = IF setup THEN load_into_config(stored, hasKey) ELSE with_defaults
    /\ overlaid = setup
    /\ update = [a \in Admins |-> Idle]
    /\ torn = FALSE
    /\ spoiled = IF hasKey THEN {} ELSE {"torn"}
    /\ boots = 0

-----------------------------------------------------------------------------
(* The requests with at most n fields.                                     *)
Requests(n) ==
    UNION {{f \in [ks -> UNION {Values(k) : k \in ks}] : \A k \in ks : f[k] \in Values(k)} :
              ks \in {s \in SUBSET Keys : s # {} /\ Cardinality(s) <= n}}

(* Administrators send any request.                                        *)
AnyRequest(a) == Requests(Cardinality(Keys))

ConfigSpec == ConfigInit /\ [][ConfigNext(AnyRequest)]_config

Resting == \A a \in Admins : update[a].pc = "idle"

(* What a restart would load is what runs already, for every field that    *)
(* update_config applies at once: validate, persist, apply and load agree  *)
(* on every value, the masked secret included.  A PUT that overlapped      *)
(* another or stopped half-way breaks it until the next start.             *)
MemoryMirrorsRows ==
    Resting /\ overlaid /\ ~torn =>
        \A k \in Keys : classify_config_change(k) = "HotReload" =>
            memory[k] = LoadedField(k, stored[k], hasKey)

(* Somebody can log in: the password login is on, or Google's is on and    *)
(* has its credentials.                                                    *)
LoginOpen(m) ==
    \/ m["auth_password_enabled"] = "true"
    \/ m["auth_google_enabled"] = "true" /\ Configured(m)

(* Somebody can log in, through every sequence of PUTs and restarts none   *)
(* of which was torn, or checked against a toggle it could not read.       *)
LoginMethodRemains == Resting /\ spoiled = {} => LoginOpen(memory)
=============================================================================
