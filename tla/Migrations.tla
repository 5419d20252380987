----------------------------- MODULE Migrations -----------------------------
(***************************************************************************)
(* ConfigDb::connect and run_migrations (web_ui/config_db.rs): the schema  *)
(* of the database, brought to the newest version when the gateway starts, *)
(* on top of what older releases of it left there.                         *)
(*                                                                         *)
(* A release is named by the version it migrates to; an older one ran the  *)
(* same migrations up to its own.  Of the rows only the provider a row     *)
(* names is kept, which is what the CHECK constraints and the clean-ups    *)
(* are about; of the columns those that later versions add.                *)
(***************************************************************************)
EXTENDS Naturals, FiniteSets, Sequences

CONSTANTS
    Releases,    \* versions that were released and ran
    MaxRows,     \* bound on the rows with a provider
    MaxCrashes   \* bound on the crashes

Current == 25
Versions == {0, 1} \cup 3..Current

ASSUME MigrationsAssumption ==
    /\ Releases \subseteq Versions \ {0, 1} /\ Current \in Releases
    /\ MaxRows \in Nat /\ MaxCrashes \in Nat

VARIABLES
    db,          \* the database
    boot,        \* "down", "migrating", "up", or "without_db"
    release,     \* the release that runs or ran last
    refused,     \* history: a CHECK refused rows that were there
    crashes      \* crashes so far

schema == <<db, boot, release, refused, crashes>>

Providers == {"kiro", "anthropic", "openai", "openai_codex", "gemini", "copilot",
              "qwen", "huawei_maas"}

ProviderTables ==
    {"user_provider_keys", "model_routes", "user_provider_tokens",
     "user_provider_priority", "model_registry", "admin_provider_pool",
     "model_visibility_defaults", "provider_settings"}

V3Tables == <<"users", "sessions", "user_kiro_tokens", "api_keys", "allowed_domains">>
BaseTables == {"schema_version", "config", "config_history"}

(* ProviderId::from_str of the current release, and what the migrations    *)
(* say of the ones before.                                                 *)
Known(v) ==
    {"kiro", "anthropic"}
    \cup (IF v < 11 THEN {"openai"} ELSE {"openai_codex"})
    \cup (IF v < 13 THEN {"gemini"} ELSE {})
    \cup (IF v >= 9 THEN {"copilot"} ELSE {})
    \cup (IF v >= 10 /\ v < 22 THEN {"qwen"} ELSE {})
    \cup (IF v >= Current THEN {"huawei_maas"} ELSE {})

(* Statements, as functions from the database to the database.             *)
CreateTable(d, names) == [d EXCEPT !.tables = @ \cup names]
DropTable(d, name) == [d EXCEPT !.tables = @ \ {name}]
AddColumns(d, cols) == [d EXCEPT !.columns = @ \cup cols]
AddCheck(d, t, ps) == [d EXCEPT !.checks[t] = ps]
Rename(d, ts, old, new) ==
    [d EXCEPT !.rows = [t \in ProviderTables |->
        IF t \in ts /\ old \in @[t] THEN (@[t] \ {old}) \cup {new} ELSE @[t]]]
Purge(d, ts, p) ==
    [d EXCEPT !.rows = [t \in ProviderTables |-> IF t \in ts THEN @[t] \ {p} ELSE @[t]]]
Seed(d, keys) == [d EXCEPT !.config = @ \cup keys]
Unset(d, keys) == [d EXCEPT !.config = @ \ keys]
Record(d, v) == [d EXCEPT !.version = v]

-----------------------------------------------------------------------------
(* The migrations of one transaction each.                                 *)
migrate_to_v4(d) ==
    CreateTable(d, {"guardrail_profiles", "guardrail_rules", "guardrail_rule_profiles"})

migrate_to_v5(d) == CreateTable(d, {"mcp_clients"})

migrate_to_v6(d) ==
    AddColumns(d, {"oauth_client_id", "oauth_client_secret", "oauth_sso_region"})

migrate_to_v7(d) ==
    AddCheck(AddCheck(CreateTable(d, {"user_provider_keys", "model_routes"}),
        "user_provider_keys", {"anthropic", "openai", "gemini"}),
        "model_routes", {"kiro", "anthropic", "openai", "gemini"})

migrate_to_v8(d) ==
    AddCheck(CreateTable(d, {"user_provider_tokens"}),
        "user_provider_tokens", {"anthropic", "gemini", "openai"})

migrate_to_v9(d) ==
    AddCheck(CreateTable(d, {"user_copilot_tokens", "user_provider_priority"}),
        "model_routes", {"kiro", "anthropic", "openai", "gemini", "copilot"})

migrate_to_v10(d) ==
    AddCheck(AddCheck(AddColumns(d, {"base_url"}),
        "user_provider_tokens", {"anthropic", "gemini", "openai", "qwen"}),
        "model_routes", {"kiro", "anthropic", "openai", "gemini", "copilot", "qwen"})

(* openai becomes openai_codex.                                            *)
migrate_to_v11(d) ==
    LET renamed == Rename(d, {"user_provider_keys", "user_provider_tokens",
                              "user_provider_priority", "model_routes"},
                          "openai", "openai_codex")
    IN AddCheck(AddCheck(AddCheck(renamed,
        "user_provider_keys", {"anthropic", "openai_codex", "gemini"}),
        "user_provider_tokens", {"anthropic", "gemini", "openai_codex", "qwen"}),
        "model_routes", {"kiro", "anthropic", "openai_codex", "gemini", "copilot", "qwen"})

migrate_to_v12(d) == CreateTable(d, {"model_registry"})

(* Slip: the rows of one table are forgotten.                              *)
migrate_to_v13_forgets(d) ==
    LET purged == Purge(d, {"user_provider_keys", "model_routes",
                            "user_provider_priority", "model_registry"}, "gemini")
    IN AddCheck(AddCheck(AddCheck(purged,
        "user_provider_keys", {"anthropic", "openai_codex"}),
        "user_provider_tokens", {"anthropic", "openai_codex", "qwen"}),
        "model_routes", {"kiro", "anthropic", "openai_codex", "copilot", "qwen"})

(* Gemini goes.                                                            *)
migrate_to_v13(d) ==
    LET purged == Purge(d, {"user_provider_keys", "user_provider_tokens", "model_routes",
                            "user_provider_priority", "model_registry"}, "gemini")
    IN AddCheck(AddCheck(AddCheck(purged,
        "user_provider_keys", {"anthropic", "openai_codex"}),
        "user_provider_tokens", {"anthropic", "openai_codex", "qwen"}),
        "model_routes", {"kiro", "anthropic", "openai_codex", "copilot", "qwen"})

(* The backfill of the new column is left out.                             *)
migrate_to_v14(d) == AddColumns(d, {"oauth_start_url"})

migrate_to_v15(d) ==
    CreateTable(AddColumns(d, {"password_hash", "totp_secret", "totp_enabled",
                               "auth_method", "must_change_password"}),
        {"totp_recovery_codes", "pending_2fa_logins"})

migrate_to_v16(d) == Unset(DropTable(d, "mcp_clients"), {"mcp_enabled"})

migrate_to_v17(d) == AddColumns(d, {"google_linked"})

migrate_to_v18(d) ==
    Seed(d, {"qwen_oauth_client_id", "anthropic_oauth_client_id", "openai_oauth_client_id"})

migrate_to_v19(d) == CreateTable(d, {"usage_records"})

migrate_to_v20(d) ==
    AddCheck(CreateTable(AddColumns(d, {"account_label"}), {"admin_provider_pool"}),
        "admin_provider_pool", {"kiro", "anthropic", "openai_codex", "copilot", "qwen"})

(* The CHECKs go, but for the one on user_provider_keys.                   *)
migrate_to_v21(d) ==
    AddCheck(AddCheck(AddCheck(d,
        "user_provider_tokens", Providers), "model_routes", Providers),
        "admin_provider_pool", Providers)

(* Qwen goes.                                                              *)
migrate_to_v22(d) ==
    Unset(Purge(d, {"user_provider_tokens", "model_routes", "model_registry",
                    "user_provider_priority", "admin_provider_pool"}, "qwen"),
        {"qwen_oauth_client_id"})

(* CHECKs on the numbers of usage_records, after raising negative ones.    *)
migrate_to_v23(d) == d

migrate_to_v24(d) == CreateTable(d, {"model_visibility_defaults"})

migrate_to_v25(d) ==
    [CreateTable(d, {"provider_settings"}) EXCEPT
        !.rows["provider_settings"] = @ \cup {"kiro", "anthropic", "openai_codex", "copilot"}]

Migrated(d, v) ==
    CASE v = 4 -> migrate_to_v4(d)   [] v = 5 -> migrate_to_v5(d)
      [] v = 6 -> migrate_to_v6(d)   [] v = 7 -> migrate_to_v7(d)
      [] v = 8 -> migrate_to_v8(d)   [] v = 9 -> migrate_to_v9(d)
      [] v = 10 -> migrate_to_v10(d) [] v = 11 -> migrate_to_v11(d)
      [] v = 12 -> migrate_to_v12(d) [] v = 13 -> migrate_to_v13(d)
      [] v = 14 -> migrate_to_v14(d) [] v = 15 -> migrate_to_v15(d)
      [] v = 16 -> migrate_to_v16(d) [] v = 17 -> migrate_to_v17(d)
      [] v = 18 -> migrate_to_v18(d) [] v = 19 -> migrate_to_v19(d)
      [] v = 20 -> migrate_to_v20(d) [] v = 21 -> migrate_to_v21(d)
      [] v = 22 -> migrate_to_v22(d) [] v = 23 -> migrate_to_v23(d)
      [] v = 24 -> migrate_to_v24(d) [] v = 25 -> migrate_to_v25(d)

(* ADD CONSTRAINT is an error when a row breaks it, and undoes everything. *)
RowsPassChecks(d) == \A t \in ProviderTables : d.rows[t] \subseteq d.checks[t]

-----------------------------------------------------------------------------
(* Starting a release; the database does not answer, or it does.           *)
Start(r) ==
    /\ boot = "down"
    /\ r >= release
    /\ release' = r
    /\ boot' = "migrating"
    /\ UNCHANGED <<db, refused, crashes>>

ConnectFails ==
    /\ boot = "migrating"
    /\ boot' = "without_db"
    /\ UNCHANGED <<db, release, refused, crashes>>

(* The first three tables, each its own statement, and version 1.          *)
CreateBase ==
    /\ boot = "migrating"
    /\ \E t \in BaseTables \ db.tables : db' = CreateTable(db, {t})
    /\ UNCHANGED <<boot, release, refused, crashes>>

RecordFirst ==
    /\ boot = "migrating"
    /\ BaseTables \subseteq db.tables /\ db.version = 0
    /\ db' = Record(db, 1)
    /\ UNCHANGED <<boot, release, refused, crashes>>

Missing(d) == {i \in DOMAIN V3Tables : V3Tables[i] \notin d.tables}
FirstMissing(d) == CHOOSE i \in Missing(d) : \A j \in Missing(d) : i <= j

(* migrate_to_v3 has no transaction: each statement is on its own and does *)
(* nothing to a table that is there already.                               *)
migrate_to_v3 ==
    /\ boot = "migrating" /\ db.version = 1
    /\ db' = IF Missing(db) # {} THEN CreateTable(db, {V3Tables[FirstMissing(db)]})
             ELSE Record(db, 3)
    /\ UNCHANGED <<boot, release, refused, crashes>>

(* The next migration, when MAX(version) is below it.  An error of it ends *)
(* connect, and the gateway goes on without a database.                    *)
Migrate ==
    /\ boot = "migrating"
    /\ db.version >= 3 /\ db.version < release
    /\ LET v == db.version + 1
           d == Migrated(db, v)
       IN IF RowsPassChecks(d)
          THEN db' = Record(d, v) /\ UNCHANGED <<boot, refused>>
          ELSE boot' = "without_db" /\ refused' = TRUE /\ UNCHANGED db
    /\ UNCHANGED <<release, crashes>>

Ready ==
    /\ boot = "migrating" /\ db.version = release
    /\ boot' = "up"
    /\ UNCHANGED <<db, release, refused, crashes>>

(* The release at work stores a row with a provider it knows, or a key of  *)
(* the configuration.                                                      *)
WriteRow(t, p) ==
    /\ boot = "up" /\ t \in db.tables
    /\ p \in (Known(release) \cap db.checks[t]) \ db.rows[t]
    /\ Cardinality({x \in ProviderTables \X Providers :
                       x[1] # "provider_settings" /\ x[2] \in db.rows[x[1]]}) < MaxRows
    /\ db' = [db EXCEPT !.rows[t] = @ \cup {p}]
    /\ UNCHANGED <<boot, release, refused, crashes>>

WriteConfig ==
    /\ boot = "up" /\ release < 16
    /\ db' = Seed(db, {"mcp_enabled"})
    /\ UNCHANGED <<boot, release, refused, crashes>>

Stop ==
    /\ boot \in {"up", "without_db"}
    /\ boot' = "down"
    /\ UNCHANGED <<db, release, refused, crashes>>

(* A crash loses the transaction under way and nothing that is committed.  *)
CrashBoot ==
    /\ boot = "migrating" /\ crashes < MaxCrashes
    /\ boot' = "down" /\ crashes' = crashes + 1
    /\ UNCHANGED <<db, release, refused>>

SchemaNext ==
    \/ \E r \in Releases : Start(r)
    \/ ConnectFails \/ CreateBase \/ RecordFirst \/ migrate_to_v3 \/ Migrate \/ Ready
    \/ \E t \in ProviderTables, p \in Providers : WriteRow(t, p)
    \/ WriteConfig \/ Stop \/ CrashBoot

SchemaInit ==
    /\ db = [version |-> 0, tables |-> {}, columns |-> {}, config |-> {},
             checks |-> [t \in ProviderTables |-> Providers],
             rows |-> [t \in ProviderTables |-> {}]]
    /\ boot = "down"
    /\ release = 0
    /\ refused = FALSE
    /\ crashes = 0

SchemaSpec == SchemaInit /\ [][SchemaNext]_schema

-----------------------------------------------------------------------------
(* What rows older releases can have left never breaks a CHECK that a      *)
(* later migration adds, so that no upgrade path ends with a gateway that  *)
(* cannot open its database.                                               *)
UpgradeNeverRefused == ~refused

QueriedTables ==
    {"config", "config_history", "users", "sessions", "user_kiro_tokens", "api_keys",
     "allowed_domains", "guardrail_profiles", "guardrail_rules", "guardrail_rule_profiles",
     "user_provider_tokens", "user_copilot_tokens", "user_provider_priority",
     "model_registry", "totp_recovery_codes", "pending_2fa_logins", "usage_records",
     "admin_provider_pool", "model_visibility_defaults", "provider_settings"}
QueriedColumns ==
    {"oauth_client_id", "oauth_client_secret", "oauth_sso_region", "oauth_start_url",
     "base_url", "account_label", "password_hash", "totp_secret", "totp_enabled",
     "auth_method", "must_change_password", "google_linked"}

(* When the current release is up, every table and column its queries name *)
(* exists, wherever earlier starts were cut off: a recorded version stands *)
(* for a finished migration.                                               *)
SchemaServesQueries ==
    boot = "up" /\ release = Current =>
        QueriedTables \subseteq db.tables /\ QueriedColumns \subseteq db.columns

(* When the current release is up, no row names a provider that            *)
(* ProviderId::from_str refuses or knows by another name, and no key of a  *)
(* removed feature is left.                                                *)
NoRetiredProvider ==
    boot = "up" /\ release = Current =>
        /\ \A t \in ProviderTables : db.rows[t] \subseteq Known(Current)
        /\ db.config \cap {"mcp_enabled", "qwen_oauth_client_id"} = {}

(* An upgrade from any older release, over crashes at any point, goes      *)
(* through and ends with a database that the current release can work on.  *)
UpgradeSound == UpgradeNeverRefused /\ SchemaServesQueries /\ NoRetiredProvider
=============================================================================
