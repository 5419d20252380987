---------------------------- MODULE StorageProofs ---------------------------
(***************************************************************************)
(* Proofs about what the gateway stores and loads: Migrations,             *)
(* Configuration, Guardrails and the Kiro token manager (AuthManager),     *)
(* each for its own specification: any releases, rows and crashes, any     *)
(* administrators and requests, any profiles and rules, any callers.       *)
(***************************************************************************)
EXTENDS Migrations, Guardrails, AuthManager, TLAPS

-----------------------------------------------------------------------------
(* The database at each version.                                           *)
Created(t) ==
    IF t \in {"user_provider_keys", "model_routes"} THEN 7
    ELSE IF t = "user_provider_tokens" THEN 8
    ELSE IF t = "user_provider_priority" THEN 9
    ELSE IF t = "model_registry" THEN 12
    ELSE IF t = "admin_provider_pool" THEN 20
    ELSE IF t = "model_visibility_defaults" THEN 24
    ELSE 25

(* Providers that the CHECK of a table has kept out of it.                 *)
Barred(v, t) ==
    IF t = "user_provider_keys" THEN {"kiro", "copilot", "qwen", "huawei_maas"}
    ELSE IF t = "user_provider_tokens" /\ v < 21 THEN {"kiro", "copilot"} ELSE {}

(* What a row of a table can name at a version, whichever releases wrote   *)
(* the rows and whichever migrations they have been through.               *)
Allowed(v, t) == IF v < Created(t) THEN {} ELSE Known(v) \ Barred(v, t)

CheckAt(v, t) ==
    IF /\ v >= Created(t)
       /\ \/ t = "user_provider_keys"
          \/ t \in {"model_routes", "user_provider_tokens", "admin_provider_pool"} /\ v < 21
    THEN Allowed(v, t) ELSE Providers

V3Names == {"users", "sessions", "user_kiro_tokens", "api_keys", "allowed_domains"}

Names ==
    BaseTables \cup V3Names \cup ProviderTables
    \cup {"guardrail_profiles", "guardrail_rules", "guardrail_rule_profiles", "mcp_clients",
          "user_copilot_tokens", "totp_recovery_codes", "pending_2fa_logins", "usage_records",
          "oauth_client_id", "oauth_client_secret", "oauth_sso_region", "oauth_start_url",
          "base_url", "account_label", "password_hash", "totp_secret", "totp_enabled",
          "auth_method", "must_change_password", "google_linked", "mcp_enabled",
          "qwen_oauth_client_id", "anthropic_oauth_client_id", "openai_oauth_client_id"}

Tables(v) ==
    (IF v >= 1 THEN BaseTables ELSE {})
    \cup (IF v >= 3 THEN V3Names ELSE {})
    \cup (IF v >= 4 THEN {"guardrail_profiles", "guardrail_rules", "guardrail_rule_profiles"} ELSE {})
    \cup (IF v >= 9 THEN {"user_copilot_tokens"} ELSE {})
    \cup (IF v >= 15 THEN {"totp_recovery_codes", "pending_2fa_logins"} ELSE {})
    \cup (IF v >= 19 THEN {"usage_records"} ELSE {})
    \cup {t \in ProviderTables : v >= Created(t)}

Columns(v) ==
    (IF v >= 6 THEN {"oauth_client_id", "oauth_client_secret", "oauth_sso_region"} ELSE {})
    \cup (IF v >= 10 THEN {"base_url"} ELSE {})
    \cup (IF v >= 14 THEN {"oauth_start_url"} ELSE {})
    \cup (IF v >= 15 THEN {"password_hash", "totp_secret", "totp_enabled", "auth_method",
                           "must_change_password"} ELSE {})
    \cup (IF v >= 17 THEN {"google_linked"} ELSE {})
    \cup (IF v >= 20 THEN {"account_label"} ELSE {})

Removed(v) == (IF v >= 16 THEN {"mcp_enabled"} ELSE {})
              \cup (IF v >= 22 THEN {"qwen_oauth_client_id"} ELSE {})

Database ==
    [version : Versions, tables : SUBSET Names, columns : SUBSET Names, config : SUBSET Names,
     checks : [ProviderTables -> SUBSET Providers], rows : [ProviderTables -> SUBSET Providers]]

(* The database has what version v needs, and nothing version v refuses.   *)
At(d, v) ==
    /\ Tables(v) \subseteq d.tables
    /\ Columns(v) \subseteq d.columns
    /\ d.config \cap Removed(v) = {}
    /\ \A t \in ProviderTables :
          /\ t \in d.tables => v >= Created(t)
          /\ d.checks[t] = CheckAt(v, t)
          /\ d.rows[t] \subseteq Allowed(v, t)

LEMMA Version4 ==
    ASSUME NEW d \in Database, At(d, 3)
    PROVE  migrate_to_v4(d) \in Database /\ At(migrate_to_v4(d), 4)
<1>1. PICK e :
          e = CreateTable(d, {"guardrail_profiles", "guardrail_rules", "guardrail_rule_profiles"})
  OBVIOUS
<1>2. /\ e \in Database
      /\ e.tables = d.tables \cup {"guardrail_profiles", "guardrail_rules", "guardrail_rule_profiles"}
      /\ e.columns = d.columns /\ e.config = d.config /\ e.checks = d.checks /\ e.rows = d.rows
  BY <1>1 DEF CreateTable, Database, Names, ProviderTables
<1>3. e = migrate_to_v4(d)
  BY <1>1 DEF migrate_to_v4
<1>4. Tables(4) \subseteq e.tables /\ Columns(4) \subseteq e.columns
  BY <1>2 DEF At, Tables, Columns, Created, ProviderTables
<1>5. e.config \cap Removed(4) = {}
  BY <1>2 DEF At, Removed
<1>6. ASSUME NEW t \in ProviderTables PROVE t \in e.tables => 4 >= Created(t)
  BY <1>2 DEF At, Created, ProviderTables
<1>7. ASSUME NEW t \in ProviderTables PROVE e.checks[t] = CheckAt(4, t)
  <2>1. d.checks[t] = CheckAt(3, t)
    BY DEF At
  <2>2. QED
    BY <2>1, <1>2 DEF Created, CheckAt, Allowed, Known, Barred, Current
<1>8. ASSUME NEW t \in ProviderTables PROVE e.rows[t] \subseteq Allowed(4, t)
  <2>1. d.rows[t] \subseteq Allowed(3, t)
    BY DEF At
  <2>2. QED
    BY <2>1, <1>2 DEF ProviderTables, Created, Allowed, Known, Barred, Current
<1>9. QED
  BY <1>2, <1>3, <1>4, <1>5, <1>6, <1>7, <1>8 DEF At

LEMMA Version5 ==
    ASSUME NEW d \in Database, At(d, 4)
    PROVE  migrate_to_v5(d) \in Database /\ At(migrate_to_v5(d), 5)
<1>1. PICK e : e = CreateTable(d, {"mcp_clients"})
  OBVIOUS
<1>2. /\ e \in Database
      /\ e.tables = d.tables \cup {"mcp_clients"}
      /\ e.columns = d.columns /\ e.config = d.config /\ e.checks = d.checks /\ e.rows = d.rows
  BY <1>1 DEF CreateTable, Database, Names, ProviderTables
<1>3. e = migrate_to_v5(d)
  BY <1>1 DEF migrate_to_v5
<1>4. Tables(5) \subseteq e.tables /\ Columns(5) \subseteq e.columns
  BY <1>2 DEF At, Tables, Columns, Created, ProviderTables
<1>5. e.config \cap Removed(5) = {}
  BY <1>2 DEF At, Removed
<1>6. ASSUME NEW t \in ProviderTables PROVE t \in e.tables => 5 >= Created(t)
  BY <1>2 DEF At, Created, ProviderTables
<1>7. ASSUME NEW t \in ProviderTables PROVE e.checks[t] = CheckAt(5, t)
  <2>1. d.checks[t] = CheckAt(4, t)
    BY DEF At
  <2>2. QED
    BY <2>1, <1>2 DEF Created, CheckAt, Allowed, Known, Barred, Current
<1>8. ASSUME NEW t \in ProviderTables PROVE e.rows[t] \subseteq Allowed(5, t)
  <2>1. d.rows[t] \subseteq Allowed(4, t)
    BY DEF At
  <2>2. QED
    BY <2>1, <1>2 DEF ProviderTables, Created, Allowed, Known, Barred, Current
<1>9. QED
  BY <1>2, <1>3, <1>4, <1>5, <1>6, <1>7, <1>8 DEF At

LEMMA Version6 ==
    ASSUME NEW d \in Database, At(d, 5)
    PROVE  migrate_to_v6(d) \in Database /\ At(migrate_to_v6(d), 6)
<1>1. PICK e : e = AddColumns(d, {"oauth_client_id", "oauth_client_secret", "oauth_sso_region"})
  OBVIOUS
<1>2. /\ e \in Database
      /\ e.columns = d.columns \cup {"oauth_client_id", "oauth_client_secret", "oauth_sso_region"}
      /\ e.tables = d.tables /\ e.config = d.config /\ e.checks = d.checks /\ e.rows = d.rows
  BY <1>1 DEF AddColumns, Database, Names, ProviderTables
<1>3. e = migrate_to_v6(d)
  BY <1>1 DEF migrate_to_v6
<1>4. Tables(6) \subseteq e.tables /\ Columns(6) \subseteq e.columns
  BY <1>2 DEF At, Tables, Columns, Created, ProviderTables
<1>5. e.config \cap Removed(6) = {}
  BY <1>2 DEF At, Removed
<1>6. ASSUME NEW t \in ProviderTables PROVE t \in e.tables => 6 >= Created(t)
  BY <1>2 DEF At, Created, ProviderTables
<1>7. ASSUME NEW t \in ProviderTables PROVE e.checks[t] = CheckAt(6, t)
  <2>1. d.checks[t] = CheckAt(5, t)
    BY DEF At
  <2>2. QED
    BY <2>1, <1>2 DEF Created, CheckAt, Allowed, Known, Barred, Current
<1>8. ASSUME NEW t \in ProviderTables PROVE e.rows[t] \subseteq Allowed(6, t)
  <2>1. d.rows[t] \subseteq Allowed(5, t)
    BY DEF At
  <2>2. QED
    BY <2>1, <1>2 DEF ProviderTables, Created, Allowed, Known, Barred, Current
<1>9. QED
  BY <1>2, <1>3, <1>4, <1>5, <1>6, <1>7, <1>8 DEF At

LEMMA Version7 ==
    ASSUME NEW d \in Database, At(d, 6)
    PROVE  migrate_to_v7(d) \in Database /\ At(migrate_to_v7(d), 7)
<1>1. PICK e1 : e1 = CreateTable(d, {"user_provider_keys", "model_routes"})
  OBVIOUS
<1>2. /\ e1 \in Database
      /\ e1.tables = d.tables \cup {"user_provider_keys", "model_routes"}
      /\ e1.columns = d.columns /\ e1.config = d.config /\ e1.checks = d.checks /\ e1.rows = d.rows
  BY <1>1 DEF CreateTable, Database, Names, ProviderTables
<1>3. PICK e2 : e2 = AddCheck(e1, "user_provider_keys", {"anthropic", "openai", "gemini"})
  OBVIOUS
<1>4. /\ e2 \in Database
      /\ e2.checks = [e1.checks EXCEPT !["user_provider_keys"] = {"anthropic", "openai", "gemini"}]
      /\ e2.tables = e1.tables /\ e2.columns = e1.columns /\ e2.config = e1.config /\ e2.rows = e1.rows
  BY <1>3, <1>2 DEF AddCheck, Database, ProviderTables, Providers
<1>5. PICK e : e = AddCheck(e2, "model_routes", {"kiro", "anthropic", "openai", "gemini"})
  OBVIOUS
<1>6. /\ e \in Database
      /\ e.checks = [e2.checks EXCEPT !["model_routes"] = {"kiro", "anthropic", "openai", "gemini"}]
      /\ e.tables = e2.tables /\ e.columns = e2.columns /\ e.config = e2.config /\ e.rows = e2.rows
  BY <1>5, <1>4 DEF AddCheck, Database, ProviderTables, Providers
<1>7. e = migrate_to_v7(d)
  BY <1>1, <1>3, <1>5 DEF migrate_to_v7
<1>8. Tables(7) \subseteq e.tables /\ Columns(7) \subseteq e.columns
  BY <1>2, <1>4, <1>6 DEF At, Tables, Columns, Created, ProviderTables
<1>9. e.config \cap Removed(7) = {}
  BY <1>2, <1>4, <1>6 DEF At, Removed
<1>10. ASSUME NEW t \in ProviderTables PROVE t \in e.tables => 7 >= Created(t)
  BY <1>2, <1>4, <1>6 DEF At, Created, ProviderTables
<1>11. ASSUME NEW t \in ProviderTables PROVE e.checks[t] = CheckAt(7, t)
  <2>1. d.checks[t] = CheckAt(6, t)
    BY DEF At
  <2>2. CASE t \notin {"user_provider_keys", "model_routes"}
    <3>1. e.checks[t] = d.checks[t]
      BY <2>2, <1>2, <1>4, <1>6 DEF Database
    <3>2. CheckAt(7, t) = CheckAt(6, t)
      BY <2>2 DEF ProviderTables, Created, CheckAt, Allowed, Known, Barred, Current
    <3>3. QED
      BY <2>1, <3>1, <3>2
  <2>3. CASE t = "user_provider_keys"
    <3>1. e.checks[t] = {"anthropic", "openai", "gemini"}
      BY <2>3, <1>2, <1>4, <1>6 DEF Database, ProviderTables
    <3>2. QED
      BY <2>3, <3>1 DEF Created, CheckAt, Allowed, Known, Barred, Current
  <2>4. CASE t = "model_routes"
    <3>1. e.checks[t] = {"kiro", "anthropic", "openai", "gemini"}
      BY <2>4, <1>2, <1>4, <1>6 DEF Database, ProviderTables
    <3>2. QED
      BY <2>4, <3>1 DEF Created, CheckAt, Allowed, Known, Barred, Current
  <2>5. QED
    BY <2>2, <2>3, <2>4
<1>12. ASSUME NEW t \in ProviderTables PROVE e.rows[t] \subseteq Allowed(7, t)
  <2>1. d.rows[t] \subseteq Allowed(6, t)
    BY DEF At
  <2>2. QED
    BY <2>1, <1>2, <1>4, <1>6 DEF ProviderTables, Created, Allowed, Known, Barred, Current
<1>13. QED
  BY <1>6, <1>7, <1>8, <1>9, <1>10, <1>11, <1>12 DEF At

LEMMA Version8 ==
    ASSUME NEW d \in Database, At(d, 7)
    PROVE  migrate_to_v8(d) \in Database /\ At(migrate_to_v8(d), 8)
<1>1. PICK e1 : e1 = CreateTable(d, {"user_provider_tokens"})
  OBVIOUS
<1>2. /\ e1 \in Database
      /\ e1.tables = d.tables \cup {"user_provider_tokens"}
      /\ e1.columns = d.columns /\ e1.config = d.config /\ e1.checks = d.checks /\ e1.rows = d.rows
  BY <1>1 DEF CreateTable, Database, Names, ProviderTables
<1>3. PICK e : e = AddCheck(e1, "user_provider_tokens", {"anthropic", "gemini", "openai"})
  OBVIOUS
<1>4. /\ e \in Database
      /\ e.checks = [e1.checks EXCEPT !["user_provider_tokens"] = {"anthropic", "gemini", "openai"}]
      /\ e.tables = e1.tables /\ e.columns = e1.columns /\ e.config = e1.config /\ e.rows = e1.rows
  BY <1>3, <1>2 DEF AddCheck, Database, ProviderTables, Providers
<1>5. e = migrate_to_v8(d)
  BY <1>1, <1>3 DEF migrate_to_v8
<1>6. Tables(8) \subseteq e.tables /\ Columns(8) \subseteq e.columns
  BY <1>2, <1>4 DEF At, Tables, Columns, Created, ProviderTables
<1>7. e.config \cap Removed(8) = {}
  BY <1>2, <1>4 DEF At, Removed
<1>8. ASSUME NEW t \in ProviderTables PROVE t \in e.tables => 8 >= Created(t)
  BY <1>2, <1>4 DEF At, Created, ProviderTables
<1>9. ASSUME NEW t \in ProviderTables PROVE e.checks[t] = CheckAt(8, t)
  <2>1. d.checks[t] = CheckAt(7, t)
    BY DEF At
  <2>2. CASE t \notin {"user_provider_tokens"}
    <3>1. e.checks[t] = d.checks[t]
      BY <2>2, <1>2, <1>4 DEF Database
    <3>2. CheckAt(8, t) = CheckAt(7, t)
      BY <2>2 DEF ProviderTables, Created, CheckAt, Allowed, Known, Barred, Current
    <3>3. QED
      BY <2>1, <3>1, <3>2
  <2>3. CASE t = "user_provider_tokens"
    <3>1. e.checks[t] = {"anthropic", "gemini", "openai"}
      BY <2>3, <1>2, <1>4 DEF Database, ProviderTables
    <3>2. QED
      BY <2>3, <3>1 DEF Created, CheckAt, Allowed, Known, Barred, Current
  <2>4. QED
    BY <2>2, <2>3
<1>10. ASSUME NEW t \in ProviderTables PROVE e.rows[t] \subseteq Allowed(8, t)
  <2>1. d.rows[t] \subseteq Allowed(7, t)
    BY DEF At
  <2>2. QED
    BY <2>1, <1>2, <1>4 DEF ProviderTables, Created, Allowed, Known, Barred, Current
<1>11. QED
  BY <1>4, <1>5, <1>6, <1>7, <1>8, <1>9, <1>10 DEF At

LEMMA Version9 ==
    ASSUME NEW d \in Database, At(d, 8)
    PROVE  migrate_to_v9(d) \in Database /\ At(migrate_to_v9(d), 9)
<1>1. PICK e1 : e1 = CreateTable(d, {"user_copilot_tokens", "user_provider_priority"})
  OBVIOUS
<1>2. /\ e1 \in Database
      /\ e1.tables = d.tables \cup {"user_copilot_tokens", "user_provider_priority"}
      /\ e1.columns = d.columns /\ e1.config = d.config /\ e1.checks = d.checks /\ e1.rows = d.rows
  BY <1>1 DEF CreateTable, Database, Names, ProviderTables
<1>3. PICK e :
          e = AddCheck(e1, "model_routes", {"kiro", "anthropic", "openai", "gemini", "copilot"})
  OBVIOUS
<1>4. /\ e \in Database
      /\ e.checks = [e1.checks EXCEPT !["model_routes"] = {"kiro", "anthropic", "openai", "gemini", "copilot"}]
      /\ e.tables = e1.tables /\ e.columns = e1.columns /\ e.config = e1.config /\ e.rows = e1.rows
  BY <1>3, <1>2 DEF AddCheck, Database, ProviderTables, Providers
<1>5. e = migrate_to_v9(d)
  BY <1>1, <1>3 DEF migrate_to_v9
<1>6. Tables(9) \subseteq e.tables /\ Columns(9) \subseteq e.columns
  BY <1>2, <1>4 DEF At, Tables, Columns, Created, ProviderTables
<1>7. e.config \cap Removed(9) = {}
  BY <1>2, <1>4 DEF At, Removed
<1>8. ASSUME NEW t \in ProviderTables PROVE t \in e.tables => 9 >= Created(t)
  BY <1>2, <1>4 DEF At, Created, ProviderTables
<1>9. ASSUME NEW t \in ProviderTables PROVE e.checks[t] = CheckAt(9, t)
  <2>1. d.checks[t] = CheckAt(8, t)
    BY DEF At
  <2>2. CASE t \notin {"model_routes"}
    <3>1. e.checks[t] = d.checks[t]
      BY <2>2, <1>2, <1>4 DEF Database
    <3>2. CheckAt(9, t) = CheckAt(8, t)
      BY <2>2 DEF ProviderTables, Created, CheckAt, Allowed, Known, Barred, Current
    <3>3. QED
      BY <2>1, <3>1, <3>2
  <2>3. CASE t = "model_routes"
    <3>1. e.checks[t] = {"kiro", "anthropic", "openai", "gemini", "copilot"}
      BY <2>3, <1>2, <1>4 DEF Database, ProviderTables
    <3>2. QED
      BY <2>3, <3>1 DEF Created, CheckAt, Allowed, Known, Barred, Current
  <2>4. QED
    BY <2>2, <2>3
<1>10. ASSUME NEW t \in ProviderTables PROVE e.rows[t] \subseteq Allowed(9, t)
  <2>1. d.rows[t] \subseteq Allowed(8, t)
    BY DEF At
  <2>2. QED
    BY <2>1, <1>2, <1>4 DEF ProviderTables, Created, Allowed, Known, Barred, Current
<1>11. QED
  BY <1>4, <1>5, <1>6, <1>7, <1>8, <1>9, <1>10 DEF At

LEMMA Version10 ==
    ASSUME NEW d \in Database, At(d, 9)
    PROVE  migrate_to_v10(d) \in Database /\ At(migrate_to_v10(d), 10)
<1>1. PICK e1 : e1 = AddColumns(d, {"base_url"})
  OBVIOUS
<1>2. /\ e1 \in Database
      /\ e1.columns = d.columns \cup {"base_url"}
      /\ e1.tables = d.tables /\ e1.config = d.config /\ e1.checks = d.checks /\ e1.rows = d.rows
  BY <1>1 DEF AddColumns, Database, Names, ProviderTables
<1>3. PICK e2 : e2 = AddCheck(e1, "user_provider_tokens", {"anthropic", "gemini", "openai", "qwen"})
  OBVIOUS
<1>4. /\ e2 \in Database
      /\ e2.checks = [e1.checks EXCEPT !["user_provider_tokens"] = {"anthropic", "gemini", "openai", "qwen"}]
      /\ e2.tables = e1.tables /\ e2.columns = e1.columns /\ e2.config = e1.config /\ e2.rows = e1.rows
  BY <1>3, <1>2 DEF AddCheck, Database, ProviderTables, Providers
<1>5. PICK e :
          e = AddCheck(e2, "model_routes", {"kiro", "anthropic", "openai", "gemini", "copilot", "qwen"})
  OBVIOUS
<1>6. /\ e \in Database
      /\ e.checks = [e2.checks EXCEPT !["model_routes"] = {"kiro", "anthropic", "openai", "gemini", "copilot", "qwen"}]
      /\ e.tables = e2.tables /\ e.columns = e2.columns /\ e.config = e2.config /\ e.rows = e2.rows
  BY <1>5, <1>4 DEF AddCheck, Database, ProviderTables, Providers
<1>7. e = migrate_to_v10(d)
  BY <1>1, <1>3, <1>5 DEF migrate_to_v10
<1>8. Tables(10) \subseteq e.tables /\ Columns(10) \subseteq e.columns
  BY <1>2, <1>4, <1>6 DEF At, Tables, Columns, Created, ProviderTables
<1>9. e.config \cap Removed(10) = {}
  BY <1>2, <1>4, <1>6 DEF At, Removed
<1>10. ASSUME NEW t \in ProviderTables PROVE t \in e.tables => 10 >= Created(t)
  BY <1>2, <1>4, <1>6 DEF At, Created, ProviderTables
<1>11. ASSUME NEW t \in ProviderTables PROVE e.checks[t] = CheckAt(10, t)
  <2>1. d.checks[t] = CheckAt(9, t)
    BY DEF At
  <2>2. CASE t \notin {"user_provider_tokens", "model_routes"}
    <3>1. e.checks[t] = d.checks[t]
      BY <2>2, <1>2, <1>4, <1>6 DEF Database
    <3>2. CheckAt(10, t) = CheckAt(9, t)
      BY <2>2 DEF ProviderTables, Created, CheckAt, Allowed, Known, Barred, Current
    <3>3. QED
      BY <2>1, <3>1, <3>2
  <2>3. CASE t = "user_provider_tokens"
    <3>1. e.checks[t] = {"anthropic", "gemini", "openai", "qwen"}
      BY <2>3, <1>2, <1>4, <1>6 DEF Database, ProviderTables
    <3>2. QED
      BY <2>3, <3>1 DEF Created, CheckAt, Allowed, Known, Barred, Current
  <2>4. CASE t = "model_routes"
    <3>1. e.checks[t] = {"kiro", "anthropic", "openai", "gemini", "copilot", "qwen"}
      BY <2>4, <1>2, <1>4, <1>6 DEF Database, ProviderTables
    <3>2. QED
      BY <2>4, <3>1 DEF Created, CheckAt, Allowed, Known, Barred, Current
  <2>5. QED
    BY <2>2, <2>3, <2>4
<1>12. ASSUME NEW t \in ProviderTables PROVE e.rows[t] \subseteq Allowed(10, t)
  <2>1. d.rows[t] \subseteq Allowed(9, t)
    BY DEF At
  <2>2. QED
    BY <2>1, <1>2, <1>4, <1>6 DEF ProviderTables, Created, Allowed, Known, Barred, Current
<1>13. QED
  BY <1>6, <1>7, <1>8, <1>9, <1>10, <1>11, <1>12 DEF At

LEMMA Version11 ==
    ASSUME NEW d \in Database, At(d, 10)
    PROVE  migrate_to_v11(d) \in Database /\ At(migrate_to_v11(d), 11)
<1>1. PICK e1 :
          e1 = Rename(d, {"user_provider_keys", "user_provider_tokens", "user_provider_priority", "model_routes"}, "openai", "openai_codex")
  OBVIOUS
<1>2. /\ e1 \in Database
      /\ e1.rows = [t \in ProviderTables |->
             IF t \in {"user_provider_keys", "user_provider_tokens", "user_provider_priority", "model_routes"} /\ "openai" \in d.rows[t]
             THEN (d.rows[t] \ {"openai"}) \cup {"openai_codex"} ELSE d.rows[t]]
      /\ e1.tables = d.tables /\ e1.columns = d.columns /\ e1.config = d.config /\ e1.checks = d.checks
  BY <1>1 DEF Rename, Database, Providers
<1>3. PICK e2 : e2 = AddCheck(e1, "user_provider_keys", {"anthropic", "openai_codex", "gemini"})
  OBVIOUS
<1>4. /\ e2 \in Database
      /\ e2.checks = [e1.checks EXCEPT !["user_provider_keys"] = {"anthropic", "openai_codex", "gemini"}]
      /\ e2.tables = e1.tables /\ e2.columns = e1.columns /\ e2.config = e1.config /\ e2.rows = e1.rows
  BY <1>3, <1>2 DEF AddCheck, Database, ProviderTables, Providers
<1>5. PICK e3 :
          e3 = AddCheck(e2, "user_provider_tokens", {"anthropic", "gemini", "openai_codex", "qwen"})
  OBVIOUS
<1>6. /\ e3 \in Database
      /\ e3.checks = [e2.checks EXCEPT !["user_provider_tokens"] = {"anthropic", "gemini", "openai_codex", "qwen"}]
      /\ e3.tables = e2.tables /\ e3.columns = e2.columns /\ e3.config = e2.config /\ e3.rows = e2.rows
  BY <1>5, <1>4 DEF AddCheck, Database, ProviderTables, Providers
<1>7. PICK e :
          e = AddCheck(e3, "model_routes", {"kiro", "anthropic", "openai_codex", "gemini", "copilot", "qwen"})
  OBVIOUS
<1>8. /\ e \in Database
      /\ e.checks = [e3.checks EXCEPT !["model_routes"] = {"kiro", "anthropic", "openai_codex", "gemini", "copilot", "qwen"}]
      /\ e.tables = e3.tables /\ e.columns = e3.columns /\ e.config = e3.config /\ e.rows = e3.rows
  BY <1>7, <1>6 DEF AddCheck, Database, ProviderTables, Providers
<1>9. e = migrate_to_v11(d)
  BY <1>1, <1>3, <1>5, <1>7 DEF migrate_to_v11
<1>10. Tables(11) \subseteq e.tables /\ Columns(11) \subseteq e.columns
  BY <1>2, <1>4, <1>6, <1>8 DEF At, Tables, Columns, Created, ProviderTables
<1>11. e.config \cap Removed(11) = {}
  BY <1>2, <1>4, <1>6, <1>8 DEF At, Removed
<1>12. ASSUME NEW t \in ProviderTables PROVE t \in e.tables => 11 >= Created(t)
  BY <1>2, <1>4, <1>6, <1>8 DEF At, Created, ProviderTables
<1>13. ASSUME NEW t \in ProviderTables PROVE e.checks[t] = CheckAt(11, t)
  <2>1. d.checks[t] = CheckAt(10, t)
    BY DEF At
  <2>2. CASE t \notin {"user_provider_keys", "user_provider_tokens", "model_routes"}
    <3>1. e.checks[t] = d.checks[t]
      BY <2>2, <1>2, <1>4, <1>6, <1>8 DEF Database
    <3>2. CheckAt(11, t) = CheckAt(10, t)
      BY <2>2 DEF ProviderTables, Created, CheckAt, Allowed, Known, Barred, Current
    <3>3. QED
      BY <2>1, <3>1, <3>2
  <2>3. CASE t = "user_provider_keys"
    <3>1. e.checks[t] = {"anthropic", "openai_codex", "gemini"}
      BY <2>3, <1>2, <1>4, <1>6, <1>8 DEF Database, ProviderTables
    <3>2. QED
      BY <2>3, <3>1 DEF Created, CheckAt, Allowed, Known, Barred, Current
  <2>4. CASE t = "user_provider_tokens"
    <3>1. e.checks[t] = {"anthropic", "gemini", "openai_codex", "qwen"}
      BY <2>4, <1>2, <1>4, <1>6, <1>8 DEF Database, ProviderTables
    <3>2. QED
      BY <2>4, <3>1 DEF Created, CheckAt, Allowed, Known, Barred, Current
  <2>5. CASE t = "model_routes"
    <3>1. e.checks[t] = {"kiro", "anthropic", "openai_codex", "gemini", "copilot", "qwen"}
      BY <2>5, <1>2, <1>4, <1>6, <1>8 DEF Database, ProviderTables
    <3>2. QED
      BY <2>5, <3>1 DEF Created, CheckAt, Allowed, Known, Barred, Current
  <2>6. QED
    BY <2>2, <2>3, <2>4, <2>5
<1>14. ASSUME NEW t \in ProviderTables PROVE e.rows[t] \subseteq Allowed(11, t)
  <2>1. d.rows[t] \subseteq Allowed(10, t)
    BY DEF At
  <2>2. QED
    BY <2>1, <1>2, <1>4, <1>6, <1>8 DEF ProviderTables, Created, Allowed, Known, Barred, Current
<1>15. QED
  BY <1>8, <1>9, <1>10, <1>11, <1>12, <1>13, <1>14 DEF At

LEMMA Version12 ==
    ASSUME NEW d \in Database, At(d, 11)
    PROVE  migrate_to_v12(d) \in Database /\ At(migrate_to_v12(d), 12)
<1>1. PICK e : e = CreateTable(d, {"model_registry"})
  OBVIOUS
<1>2. /\ e \in Database
      /\ e.tables = d.tables \cup {"model_registry"}
      /\ e.columns = d.columns /\ e.config = d.config /\ e.checks = d.checks /\ e.rows = d.rows
  BY <1>1 DEF CreateTable, Database, Names, ProviderTables
<1>3. e = migrate_to_v12(d)
  BY <1>1 DEF migrate_to_v12
<1>4. Tables(12) \subseteq e.tables /\ Columns(12) \subseteq e.columns
  BY <1>2 DEF At, Tables, Columns, Created, ProviderTables
<1>5. e.config \cap Removed(12) = {}
  BY <1>2 DEF At, Removed
<1>6. ASSUME NEW t \in ProviderTables PROVE t \in e.tables => 12 >= Created(t)
  BY <1>2 DEF At, Created, ProviderTables
<1>7. ASSUME NEW t \in ProviderTables PROVE e.checks[t] = CheckAt(12, t)
  <2>1. d.checks[t] = CheckAt(11, t)
    BY DEF At
  <2>2. QED
    BY <2>1, <1>2 DEF Created, CheckAt, Allowed, Known, Barred, Current
<1>8. ASSUME NEW t \in ProviderTables PROVE e.rows[t] \subseteq Allowed(12, t)
  <2>1. d.rows[t] \subseteq Allowed(11, t)
    BY DEF At
  <2>2. QED
    BY <2>1, <1>2 DEF ProviderTables, Created, Allowed, Known, Barred, Current
<1>9. QED
  BY <1>2, <1>3, <1>4, <1>5, <1>6, <1>7, <1>8 DEF At

LEMMA Version13 ==
    ASSUME NEW d \in Database, At(d, 12)
    PROVE  migrate_to_v13(d) \in Database /\ At(migrate_to_v13(d), 13)
<1>1. PICK e1 :
          e1 = Purge(d, {"user_provider_keys", "user_provider_tokens", "model_routes", "user_provider_priority", "model_registry"}, "gemini")
  OBVIOUS
<1>2. /\ e1 \in Database
      /\ e1.rows = [t \in ProviderTables |->
             IF t \in {"user_provider_keys", "user_provider_tokens", "model_routes", "user_provider_priority", "model_registry"}
             THEN d.rows[t] \ {"gemini"} ELSE d.rows[t]]
      /\ e1.tables = d.tables /\ e1.columns = d.columns /\ e1.config = d.config /\ e1.checks = d.checks
  BY <1>1 DEF Purge, Database
<1>3. PICK e2 : e2 = AddCheck(e1, "user_provider_keys", {"anthropic", "openai_codex"})
  OBVIOUS
<1>4. /\ e2 \in Database
      /\ e2.checks = [e1.checks EXCEPT !["user_provider_keys"] = {"anthropic", "openai_codex"}]
      /\ e2.tables = e1.tables /\ e2.columns = e1.columns /\ e2.config = e1.config /\ e2.rows = e1.rows
  BY <1>3, <1>2 DEF AddCheck, Database, ProviderTables, Providers
<1>5. PICK e3 : e3 = AddCheck(e2, "user_provider_tokens", {"anthropic", "openai_codex", "qwen"})
  OBVIOUS
<1>6. /\ e3 \in Database
      /\ e3.checks = [e2.checks EXCEPT !["user_provider_tokens"] = {"anthropic", "openai_codex", "qwen"}]
      /\ e3.tables = e2.tables /\ e3.columns = e2.columns /\ e3.config = e2.config /\ e3.rows = e2.rows
  BY <1>5, <1>4 DEF AddCheck, Database, ProviderTables, Providers
<1>7. PICK e :
          e = AddCheck(e3, "model_routes", {"kiro", "anthropic", "openai_codex", "copilot", "qwen"})
  OBVIOUS
<1>8. /\ e \in Database
      /\ e.checks = [e3.checks EXCEPT !["model_routes"] = {"kiro", "anthropic", "openai_codex", "copilot", "qwen"}]
      /\ e.tables = e3.tables /\ e.columns = e3.columns /\ e.config = e3.config /\ e.rows = e3.rows
  BY <1>7, <1>6 DEF AddCheck, Database, ProviderTables, Providers
<1>9. e = migrate_to_v13(d)
  BY <1>1, <1>3, <1>5, <1>7 DEF migrate_to_v13
<1>10. Tables(13) \subseteq e.tables /\ Columns(13) \subseteq e.columns
  BY <1>2, <1>4, <1>6, <1>8 DEF At, Tables, Columns, Created, ProviderTables
<1>11. e.config \cap Removed(13) = {}
  BY <1>2, <1>4, <1>6, <1>8 DEF At, Removed
<1>12. ASSUME NEW t \in ProviderTables PROVE t \in e.tables => 13 >= Created(t)
  BY <1>2, <1>4, <1>6, <1>8 DEF At, Created, ProviderTables
<1>13. ASSUME NEW t \in ProviderTables PROVE e.checks[t] = CheckAt(13, t)
  <2>1. d.checks[t] = CheckAt(12, t)
    BY DEF At
  <2>2. CASE t \notin {"user_provider_keys", "user_provider_tokens", "model_routes"}
    <3>1. e.checks[t] = d.checks[t]
      BY <2>2, <1>2, <1>4, <1>6, <1>8 DEF Database
    <3>2. CheckAt(13, t) = CheckAt(12, t)
      BY <2>2 DEF ProviderTables, Created, CheckAt, Allowed, Known, Barred, Current
    <3>3. QED
      BY <2>1, <3>1, <3>2
  <2>3. CASE t = "user_provider_keys"
    <3>1. e.checks[t] = {"anthropic", "openai_codex"}
      BY <2>3, <1>2, <1>4, <1>6, <1>8 DEF Database, ProviderTables
    <3>2. QED
      BY <2>3, <3>1 DEF Created, CheckAt, Allowed, Known, Barred, Current
  <2>4. CASE t = "user_provider_tokens"
    <3>1. e.checks[t] = {"anthropic", "openai_codex", "qwen"}
      BY <2>4, <1>2, <1>4, <1>6, <1>8 DEF Database, ProviderTables
    <3>2. QED
      BY <2>4, <3>1 DEF Created, CheckAt, Allowed, Known, Barred, Current
  <2>5. CASE t = "model_routes"
    <3>1. e.checks[t] = {"kiro", "anthropic", "openai_codex", "copilot", "qwen"}
      BY <2>5, <1>2, <1>4, <1>6, <1>8 DEF Database, ProviderTables
    <3>2. QED
      BY <2>5, <3>1 DEF Created, CheckAt, Allowed, Known, Barred, Current
  <2>6. QED
    BY <2>2, <2>3, <2>4, <2>5
<1>14. ASSUME NEW t \in ProviderTables PROVE e.rows[t] \subseteq Allowed(13, t)
  <2>1. d.rows[t] \subseteq Allowed(12, t)
    BY DEF At
  <2>2. QED
    BY <2>1, <1>2, <1>4, <1>6, <1>8 DEF ProviderTables, Created, Allowed, Known, Barred, Current
<1>15. QED
  BY <1>8, <1>9, <1>10, <1>11, <1>12, <1>13, <1>14 DEF At

LEMMA Version14 ==
    ASSUME NEW d \in Database, At(d, 13)
    PROVE  migrate_to_v14(d) \in Database /\ At(migrate_to_v14(d), 14)
<1>1. PICK e : e = AddColumns(d, {"oauth_start_url"})
  OBVIOUS
<1>2. /\ e \in Database
      /\ e.columns = d.columns \cup {"oauth_start_url"}
      /\ e.tables = d.tables /\ e.config = d.config /\ e.checks = d.checks /\ e.rows = d.rows
  BY <1>1 DEF AddColumns, Database, Names, ProviderTables
<1>3. e = migrate_to_v14(d)
  BY <1>1 DEF migrate_to_v14
<1>4. Tables(14) \subseteq e.tables /\ Columns(14) \subseteq e.columns
  BY <1>2 DEF At, Tables, Columns, Created, ProviderTables
<1>5. e.config \cap Removed(14) = {}
  BY <1>2 DEF At, Removed
<1>6. ASSUME NEW t \in ProviderTables PROVE t \in e.tables => 14 >= Created(t)
  BY <1>2 DEF At, Created, ProviderTables
<1>7. ASSUME NEW t \in ProviderTables PROVE e.checks[t] = CheckAt(14, t)
  <2>1. d.checks[t] = CheckAt(13, t)
    BY DEF At
  <2>2. QED
    BY <2>1, <1>2 DEF Created, CheckAt, Allowed, Known, Barred, Current
<1>8. ASSUME NEW t \in ProviderTables PROVE e.rows[t] \subseteq Allowed(14, t)
  <2>1. d.rows[t] \subseteq Allowed(13, t)
    BY DEF At
  <2>2. QED
    BY <2>1, <1>2 DEF ProviderTables, Created, Allowed, Known, Barred, Current
<1>9. QED
  BY <1>2, <1>3, <1>4, <1>5, <1>6, <1>7, <1>8 DEF At

LEMMA Version15 ==
    ASSUME NEW d \in Database, At(d, 14)
    PROVE  migrate_to_v15(d) \in Database /\ At(migrate_to_v15(d), 15)
<1>1. PICK e1 :
          e1 = AddColumns(d, {"password_hash", "totp_secret", "totp_enabled", "auth_method", "must_change_password"})
  OBVIOUS
<1>2. /\ e1 \in Database
      /\ e1.columns = d.columns \cup {"password_hash", "totp_secret", "totp_enabled", "auth_method", "must_change_password"}
      /\ e1.tables = d.tables /\ e1.config = d.config /\ e1.checks = d.checks /\ e1.rows = d.rows
  BY <1>1 DEF AddColumns, Database, Names, ProviderTables
<1>3. PICK e : e = CreateTable(e1, {"totp_recovery_codes", "pending_2fa_logins"})
  OBVIOUS
<1>4. /\ e \in Database
      /\ e.tables = e1.tables \cup {"totp_recovery_codes", "pending_2fa_logins"}
      /\ e.columns = e1.columns /\ e.config = e1.config /\ e.checks = e1.checks /\ e.rows = e1.rows
  BY <1>3, <1>2 DEF CreateTable, Database, Names, ProviderTables
<1>5. e = migrate_to_v15(d)
  BY <1>1, <1>3 DEF migrate_to_v15
<1>6. Tables(15) \subseteq e.tables /\ Columns(15) \subseteq e.columns
  BY <1>2, <1>4 DEF At, Tables, Columns, Created, ProviderTables
<1>7. e.config \cap Removed(15) = {}
  BY <1>2, <1>4 DEF At, Removed
<1>8. ASSUME NEW t \in ProviderTables PROVE t \in e.tables => 15 >= Created(t)
  BY <1>2, <1>4 DEF At, Created, ProviderTables
<1>9. ASSUME NEW t \in ProviderTables PROVE e.checks[t] = CheckAt(15, t)
  <2>1. d.checks[t] = CheckAt(14, t)
    BY DEF At
  <2>2. QED
    BY <2>1, <1>2, <1>4 DEF Created, CheckAt, Allowed, Known, Barred, Current
<1>10. ASSUME NEW t \in ProviderTables PROVE e.rows[t] \subseteq Allowed(15, t)
  <2>1. d.rows[t] \subseteq Allowed(14, t)
    BY DEF At
  <2>2. QED
    BY <2>1, <1>2, <1>4 DEF ProviderTables, Created, Allowed, Known, Barred, Current
<1>11. QED
  BY <1>4, <1>5, <1>6, <1>7, <1>8, <1>9, <1>10 DEF At

LEMMA Version16 ==
    ASSUME NEW d \in Database, At(d, 15)
    PROVE  migrate_to_v16(d) \in Database /\ At(migrate_to_v16(d), 16)
<1>1. PICK e1 : e1 = DropTable(d, "mcp_clients")
  OBVIOUS
<1>2. /\ e1 \in Database
      /\ e1.tables = d.tables \ {"mcp_clients"}
      /\ e1.columns = d.columns /\ e1.config = d.config /\ e1.checks = d.checks /\ e1.rows = d.rows
  BY <1>1 DEF DropTable, Database
<1>3. PICK e : e = Unset(e1, {"mcp_enabled"})
  OBVIOUS
<1>4. /\ e \in Database
      /\ e.config = e1.config \ {"mcp_enabled"}
      /\ e.tables = e1.tables /\ e.columns = e1.columns /\ e.checks = e1.checks /\ e.rows = e1.rows
  BY <1>3, <1>2 DEF Unset, Database
<1>5. e = migrate_to_v16(d)
  BY <1>1, <1>3 DEF migrate_to_v16
<1>6. Tables(16) \subseteq e.tables /\ Columns(16) \subseteq e.columns
  <2>1. "mcp_clients" \notin Tables(16)
    BY DEF Tables, BaseTables, V3Names, ProviderTables
  <2>2. Tables(16) \subseteq Tables(15)
    BY DEF Tables, Created, ProviderTables
  <2>3. Tables(16) \subseteq e.tables
    BY <2>1, <2>2, <1>2, <1>4 DEF At
  <2>4. Columns(16) \subseteq e.columns
    BY <1>2, <1>4 DEF At, Columns
  <2>5. QED
    BY <2>3, <2>4
<1>7. e.config \cap Removed(16) = {}
  BY <1>2, <1>4 DEF At, Removed
<1>8. ASSUME NEW t \in ProviderTables PROVE t \in e.tables => 16 >= Created(t)
  BY <1>2, <1>4 DEF At, Created, ProviderTables
<1>9. ASSUME NEW t \in ProviderTables PROVE e.checks[t] = CheckAt(16, t)
  <2>1. d.checks[t] = CheckAt(15, t)
    BY DEF At
  <2>2. QED
    BY <2>1, <1>2, <1>4 DEF Created, CheckAt, Allowed, Known, Barred, Current
<1>10. ASSUME NEW t \in ProviderTables PROVE e.rows[t] \subseteq Allowed(16, t)
  <2>1. d.rows[t] \subseteq Allowed(15, t)
    BY DEF At
  <2>2. QED
    BY <2>1, <1>2, <1>4 DEF ProviderTables, Created, Allowed, Known, Barred, Current
<1>11. QED
  BY <1>4, <1>5, <1>6, <1>7, <1>8, <1>9, <1>10 DEF At

LEMMA Version17 ==
    ASSUME NEW d \in Database, At(d, 16)
    PROVE  migrate_to_v17(d) \in Database /\ At(migrate_to_v17(d), 17)
<1>1. PICK e : e = AddColumns(d, {"google_linked"})
  OBVIOUS
<1>2. /\ e \in Database
      /\ e.columns = d.columns \cup {"google_linked"}
      /\ e.tables = d.tables /\ e.config = d.config /\ e.checks = d.checks /\ e.rows = d.rows
  BY <1>1 DEF AddColumns, Database, Names, ProviderTables
<1>3. e = migrate_to_v17(d)
  BY <1>1 DEF migrate_to_v17
<1>4. Tables(17) \subseteq e.tables /\ Columns(17) \subseteq e.columns
  BY <1>2 DEF At, Tables, Columns, Created, ProviderTables
<1>5. e.config \cap Removed(17) = {}
  BY <1>2 DEF At, Removed
<1>6. ASSUME NEW t \in ProviderTables PROVE t \in e.tables => 17 >= Created(t)
  BY <1>2 DEF At, Created, ProviderTables
<1>7. ASSUME NEW t \in ProviderTables PROVE e.checks[t] = CheckAt(17, t)
  <2>1. d.checks[t] = CheckAt(16, t)
    BY DEF At
  <2>2. QED
    BY <2>1, <1>2 DEF Created, CheckAt, Allowed, Known, Barred, Current
<1>8. ASSUME NEW t \in ProviderTables PROVE e.rows[t] \subseteq Allowed(17, t)
  <2>1. d.rows[t] \subseteq Allowed(16, t)
    BY DEF At
  <2>2. QED
    BY <2>1, <1>2 DEF ProviderTables, Created, Allowed, Known, Barred, Current
<1>9. QED
  BY <1>2, <1>3, <1>4, <1>5, <1>6, <1>7, <1>8 DEF At

LEMMA Version18 ==
    ASSUME NEW d \in Database, At(d, 17)
    PROVE  migrate_to_v18(d) \in Database /\ At(migrate_to_v18(d), 18)
<1>1. PICK e :
          e = Seed(d, {"qwen_oauth_client_id", "anthropic_oauth_client_id", "openai_oauth_client_id"})
  OBVIOUS
<1>2. /\ e \in Database
      /\ e.config = d.config \cup {"qwen_oauth_client_id", "anthropic_oauth_client_id", "openai_oauth_client_id"}
      /\ e.tables = d.tables /\ e.columns = d.columns /\ e.checks = d.checks /\ e.rows = d.rows
  BY <1>1 DEF Seed, Database, Names, ProviderTables
<1>3. e = migrate_to_v18(d)
  BY <1>1 DEF migrate_to_v18
<1>4. Tables(18) \subseteq e.tables /\ Columns(18) \subseteq e.columns
  BY <1>2 DEF At, Tables, Columns, Created, ProviderTables
<1>5. e.config \cap Removed(18) = {}
  BY <1>2 DEF At, Removed
<1>6. ASSUME NEW t \in ProviderTables PROVE t \in e.tables => 18 >= Created(t)
  BY <1>2 DEF At, Created, ProviderTables
<1>7. ASSUME NEW t \in ProviderTables PROVE e.checks[t] = CheckAt(18, t)
  <2>1. d.checks[t] = CheckAt(17, t)
    BY DEF At
  <2>2. QED
    BY <2>1, <1>2 DEF Created, CheckAt, Allowed, Known, Barred, Current
<1>8. ASSUME NEW t \in ProviderTables PROVE e.rows[t] \subseteq Allowed(18, t)
  <2>1. d.rows[t] \subseteq Allowed(17, t)
    BY DEF At
  <2>2. QED
    BY <2>1, <1>2 DEF ProviderTables, Created, Allowed, Known, Barred, Current
<1>9. QED
  BY <1>2, <1>3, <1>4, <1>5, <1>6, <1>7, <1>8 DEF At

LEMMA Version19 ==
    ASSUME NEW d \in Database, At(d, 18)
    PROVE  migrate_to_v19(d) \in Database /\ At(migrate_to_v19(d), 19)
<1>1. PICK e : e = CreateTable(d, {"usage_records"})
  OBVIOUS
<1>2. /\ e \in Database
      /\ e.tables = d.tables \cup {"usage_records"}
      /\ e.columns = d.columns /\ e.config = d.config /\ e.checks = d.checks /\ e.rows = d.rows
  BY <1>1 DEF CreateTable, Database, Names, ProviderTables
<1>3. e = migrate_to_v19(d)
  BY <1>1 DEF migrate_to_v19
<1>4. Tables(19) \subseteq e.tables /\ Columns(19) \subseteq e.columns
  BY <1>2 DEF At, Tables, Columns, Created, ProviderTables
<1>5. e.config \cap Removed(19) = {}
  BY <1>2 DEF At, Removed
<1>6. ASSUME NEW t \in ProviderTables PROVE t \in e.tables => 19 >= Created(t)
  BY <1>2 DEF At, Created, ProviderTables
<1>7. ASSUME NEW t \in ProviderTables PROVE e.checks[t] = CheckAt(19, t)
  <2>1. d.checks[t] = CheckAt(18, t)
    BY DEF At
  <2>2. QED
    BY <2>1, <1>2 DEF Created, CheckAt, Allowed, Known, Barred, Current
<1>8. ASSUME NEW t \in ProviderTables PROVE e.rows[t] \subseteq Allowed(19, t)
  <2>1. d.rows[t] \subseteq Allowed(18, t)
    BY DEF At
  <2>2. QED
    BY <2>1, <1>2 DEF ProviderTables, Created, Allowed, Known, Barred, Current
<1>9. QED
  BY <1>2, <1>3, <1>4, <1>5, <1>6, <1>7, <1>8 DEF At

LEMMA Version20 ==
    ASSUME NEW d \in Database, At(d, 19)
    PROVE  migrate_to_v20(d) \in Database /\ At(migrate_to_v20(d), 20)
<1>1. PICK e1 : e1 = AddColumns(d, {"account_label"})
  OBVIOUS
<1>2. /\ e1 \in Database
      /\ e1.columns = d.columns \cup {"account_label"}
      /\ e1.tables = d.tables /\ e1.config = d.config /\ e1.checks = d.checks /\ e1.rows = d.rows
  BY <1>1 DEF AddColumns, Database, Names, ProviderTables
<1>3. PICK e2 : e2 = CreateTable(e1, {"admin_provider_pool"})
  OBVIOUS
<1>4. /\ e2 \in Database
      /\ e2.tables = e1.tables \cup {"admin_provider_pool"}
      /\ e2.columns = e1.columns /\ e2.config = e1.config /\ e2.checks = e1.checks /\ e2.rows = e1.rows
  BY <1>3, <1>2 DEF CreateTable, Database, Names, ProviderTables
<1>5. PICK e :
          e = AddCheck(e2, "admin_provider_pool", {"kiro", "anthropic", "openai_codex", "copilot", "qwen"})
  OBVIOUS
<1>6. /\ e \in Database
      /\ e.checks = [e2.checks EXCEPT !["admin_provider_pool"] = {"kiro", "anthropic", "openai_codex", "copilot", "qwen"}]
      /\ e.tables = e2.tables /\ e.columns = e2.columns /\ e.config = e2.config /\ e.rows = e2.rows
  BY <1>5, <1>4 DEF AddCheck, Database, ProviderTables, Providers
<1>7. e = migrate_to_v20(d)
  BY <1>1, <1>3, <1>5 DEF migrate_to_v20
<1>8. Tables(20) \subseteq e.tables /\ Columns(20) \subseteq e.columns
  BY <1>2, <1>4, <1>6 DEF At, Tables, Columns, Created, ProviderTables
<1>9. e.config \cap Removed(20) = {}
  BY <1>2, <1>4, <1>6 DEF At, Removed
<1>10. ASSUME NEW t \in ProviderTables PROVE t \in e.tables => 20 >= Created(t)
  BY <1>2, <1>4, <1>6 DEF At, Created, ProviderTables
<1>11. ASSUME NEW t \in ProviderTables PROVE e.checks[t] = CheckAt(20, t)
  <2>1. d.checks[t] = CheckAt(19, t)
    BY DEF At
  <2>2. CASE t \notin {"admin_provider_pool"}
    <3>1. e.checks[t] = d.checks[t]
      BY <2>2, <1>2, <1>4, <1>6 DEF Database
    <3>2. CheckAt(20, t) = CheckAt(19, t)
      BY <2>2 DEF ProviderTables, Created, CheckAt, Allowed, Known, Barred, Current
    <3>3. QED
      BY <2>1, <3>1, <3>2
  <2>3. CASE t = "admin_provider_pool"
    <3>1. e.checks[t] = {"kiro", "anthropic", "openai_codex", "copilot", "qwen"}
      BY <2>3, <1>2, <1>4, <1>6 DEF Database, ProviderTables
    <3>2. QED
      BY <2>3, <3>1 DEF Created, CheckAt, Allowed, Known, Barred, Current
  <2>4. QED
    BY <2>2, <2>3
<1>12. ASSUME NEW t \in ProviderTables PROVE e.rows[t] \subseteq Allowed(20, t)
  <2>1. d.rows[t] \subseteq Allowed(19, t)
    BY DEF At
  <2>2. QED
    BY <2>1, <1>2, <1>4, <1>6 DEF ProviderTables, Created, Allowed, Known, Barred, Current
<1>13. QED
  BY <1>6, <1>7, <1>8, <1>9, <1>10, <1>11, <1>12 DEF At

LEMMA Version21 ==
    ASSUME NEW d \in Database, At(d, 20)
    PROVE  migrate_to_v21(d) \in Database /\ At(migrate_to_v21(d), 21)
<1>1. PICK e1 : e1 = AddCheck(d, "user_provider_tokens", Providers)
  OBVIOUS
<1>2. /\ e1 \in Database
      /\ e1.checks = [d.checks EXCEPT !["user_provider_tokens"] = Providers]
      /\ e1.tables = d.tables /\ e1.columns = d.columns /\ e1.config = d.config /\ e1.rows = d.rows
  BY <1>1 DEF AddCheck, Database, ProviderTables
<1>3. PICK e2 : e2 = AddCheck(e1, "model_routes", Providers)
  OBVIOUS
<1>4. /\ e2 \in Database
      /\ e2.checks = [e1.checks EXCEPT !["model_routes"] = Providers]
      /\ e2.tables = e1.tables /\ e2.columns = e1.columns /\ e2.config = e1.config /\ e2.rows = e1.rows
  BY <1>3, <1>2 DEF AddCheck, Database, ProviderTables
<1>5. PICK e : e = AddCheck(e2, "admin_provider_pool", Providers)
  OBVIOUS
<1>6. /\ e \in Database
      /\ e.checks = [e2.checks EXCEPT !["admin_provider_pool"] = Providers]
      /\ e.tables = e2.tables /\ e.columns = e2.columns /\ e.config = e2.config /\ e.rows = e2.rows
  BY <1>5, <1>4 DEF AddCheck, Database, ProviderTables
<1>7. e = migrate_to_v21(d)
  BY <1>1, <1>3, <1>5 DEF migrate_to_v21
<1>8. Tables(21) \subseteq e.tables /\ Columns(21) \subseteq e.columns
  BY <1>2, <1>4, <1>6 DEF At, Tables, Columns, Created, ProviderTables
<1>9. e.config \cap Removed(21) = {}
  BY <1>2, <1>4, <1>6 DEF At, Removed
<1>10. ASSUME NEW t \in ProviderTables PROVE t \in e.tables => 21 >= Created(t)
  BY <1>2, <1>4, <1>6 DEF At, Created, ProviderTables
<1>11. ASSUME NEW t \in ProviderTables PROVE e.checks[t] = CheckAt(21, t)
  <2>1. d.checks[t] = CheckAt(20, t)
    BY DEF At
  <2>2. CASE t \notin {"user_provider_tokens", "model_routes", "admin_provider_pool"}
    <3>1. e.checks[t] = d.checks[t]
      BY <2>2, <1>2, <1>4, <1>6 DEF Database
    <3>2. CheckAt(21, t) = CheckAt(20, t)
      BY <2>2 DEF ProviderTables, Created, CheckAt, Allowed, Known, Barred, Current
    <3>3. QED
      BY <2>1, <3>1, <3>2
  <2>3. CASE t = "user_provider_tokens"
    <3>1. e.checks[t] = Providers
      BY <2>3, <1>2, <1>4, <1>6 DEF Database, ProviderTables
    <3>2. QED
      BY <2>3, <3>1 DEF Created, CheckAt, Allowed, Known, Barred, Current
  <2>4. CASE t = "model_routes"
    <3>1. e.checks[t] = Providers
      BY <2>4, <1>2, <1>4, <1>6 DEF Database, ProviderTables
    <3>2. QED
      BY <2>4, <3>1 DEF Created, CheckAt, Allowed, Known, Barred, Current
  <2>5. CASE t = "admin_provider_pool"
    <3>1. e.checks[t] = Providers
      BY <2>5, <1>2, <1>4, <1>6 DEF Database, ProviderTables
    <3>2. QED
      BY <2>5, <3>1 DEF Created, CheckAt, Allowed, Known, Barred, Current
  <2>6. QED
    BY <2>2, <2>3, <2>4, <2>5
<1>12. ASSUME NEW t \in ProviderTables PROVE e.rows[t] \subseteq Allowed(21, t)
  <2>1. d.rows[t] \subseteq Allowed(20, t)
    BY DEF At
  <2>2. QED
    BY <2>1, <1>2, <1>4, <1>6 DEF ProviderTables, Created, Allowed, Known, Barred, Current
<1>13. QED
  BY <1>6, <1>7, <1>8, <1>9, <1>10, <1>11, <1>12 DEF At

LEMMA Version22 ==
    ASSUME NEW d \in Database, At(d, 21)
    PROVE  migrate_to_v22(d) \in Database /\ At(migrate_to_v22(d), 22)
<1>1. PICK e1 :
          e1 = Purge(d, {"user_provider_tokens", "model_routes", "model_registry", "user_provider_priority", "admin_provider_pool"}, "qwen")
  OBVIOUS
<1>2. /\ e1 \in Database
      /\ e1.rows = [t \in ProviderTables |->
             IF t \in {"user_provider_tokens", "model_routes", "model_registry", "user_provider_priority", "admin_provider_pool"}
             THEN d.rows[t] \ {"qwen"} ELSE d.rows[t]]
      /\ e1.tables = d.tables /\ e1.columns = d.columns /\ e1.config = d.config /\ e1.checks = d.checks
  BY <1>1 DEF Purge, Database
<1>3. PICK e : e = Unset(e1, {"qwen_oauth_client_id"})
  OBVIOUS
<1>4. /\ e \in Database
      /\ e.config = e1.config \ {"qwen_oauth_client_id"}
      /\ e.tables = e1.tables /\ e.columns = e1.columns /\ e.checks = e1.checks /\ e.rows = e1.rows
  BY <1>3, <1>2 DEF Unset, Database
<1>5. e = migrate_to_v22(d)
  BY <1>1, <1>3 DEF migrate_to_v22
<1>6. Tables(22) \subseteq e.tables /\ Columns(22) \subseteq e.columns
  BY <1>2, <1>4 DEF At, Tables, Columns, Created, ProviderTables
<1>7. e.config \cap Removed(22) = {}
  BY <1>2, <1>4 DEF At, Removed
<1>8. ASSUME NEW t \in ProviderTables PROVE t \in e.tables => 22 >= Created(t)
  BY <1>2, <1>4 DEF At, Created, ProviderTables
<1>9. ASSUME NEW t \in ProviderTables PROVE e.checks[t] = CheckAt(22, t)
  <2>1. d.checks[t] = CheckAt(21, t)
    BY DEF At
  <2>2. QED
    BY <2>1, <1>2, <1>4 DEF Created, CheckAt, Allowed, Known, Barred, Current
<1>10. ASSUME NEW t \in ProviderTables PROVE e.rows[t] \subseteq Allowed(22, t)
  <2>1. d.rows[t] \subseteq Allowed(21, t)
    BY DEF At
  <2>2. QED
    BY <2>1, <1>2, <1>4 DEF ProviderTables, Created, Allowed, Known, Barred, Current
<1>11. QED
  BY <1>4, <1>5, <1>6, <1>7, <1>8, <1>9, <1>10 DEF At

LEMMA Version24 ==
    ASSUME NEW d \in Database, At(d, 23)
    PROVE  migrate_to_v24(d) \in Database /\ At(migrate_to_v24(d), 24)
<1>1. PICK e : e = CreateTable(d, {"model_visibility_defaults"})
  OBVIOUS
<1>2. /\ e \in Database
      /\ e.tables = d.tables \cup {"model_visibility_defaults"}
      /\ e.columns = d.columns /\ e.config = d.config /\ e.checks = d.checks /\ e.rows = d.rows
  BY <1>1 DEF CreateTable, Database, Names, ProviderTables
<1>3. e = migrate_to_v24(d)
  BY <1>1 DEF migrate_to_v24
<1>4. Tables(24) \subseteq e.tables /\ Columns(24) \subseteq e.columns
  BY <1>2 DEF At, Tables, Columns, Created, ProviderTables
<1>5. e.config \cap Removed(24) = {}
  BY <1>2 DEF At, Removed
<1>6. ASSUME NEW t \in ProviderTables PROVE t \in e.tables => 24 >= Created(t)
  BY <1>2 DEF At, Created, ProviderTables
<1>7. ASSUME NEW t \in ProviderTables PROVE e.checks[t] = CheckAt(24, t)
  <2>1. d.checks[t] = CheckAt(23, t)
    BY DEF At
  <2>2. QED
    BY <2>1, <1>2 DEF Created, CheckAt, Allowed, Known, Barred, Current
<1>8. ASSUME NEW t \in ProviderTables PROVE e.rows[t] \subseteq Allowed(24, t)
  <2>1. d.rows[t] \subseteq Allowed(23, t)
    BY DEF At
  <2>2. QED
    BY <2>1, <1>2 DEF ProviderTables, Created, Allowed, Known, Barred, Current
<1>9. QED
  BY <1>2, <1>3, <1>4, <1>5, <1>6, <1>7, <1>8 DEF At

LEMMA Version23 ==
    ASSUME NEW d \in Database, At(d, 22)
    PROVE  migrate_to_v23(d) \in Database /\ At(migrate_to_v23(d), 23)
<1>1. Tables(23) \subseteq d.tables /\ Columns(23) \subseteq d.columns
  BY DEF At, Tables, Columns, Created, ProviderTables
<1>2. d.config \cap Removed(23) = {}
  BY DEF At, Removed
<1>3. ASSUME NEW t \in ProviderTables
      PROVE  /\ t \in d.tables => 23 >= Created(t)
             /\ d.checks[t] = CheckAt(23, t)
             /\ d.rows[t] \subseteq Allowed(23, t)
  <2>1. CheckAt(23, t) = CheckAt(22, t) /\ Allowed(23, t) = Allowed(22, t)
    BY DEF ProviderTables, Created, CheckAt, Allowed, Known, Barred, Current
  <2>2. QED
    BY <2>1 DEF At, Created, ProviderTables
<1>4. QED
  BY <1>1, <1>2, <1>3 DEF At, migrate_to_v23

LEMMA Version25 ==
    ASSUME NEW d \in Database, At(d, 24)
    PROVE  migrate_to_v25(d) \in Database /\ At(migrate_to_v25(d), 25)
<1>1. PICK e1 : e1 = CreateTable(d, {"provider_settings"})
  OBVIOUS
<1>2. /\ e1 \in Database
      /\ e1.tables = d.tables \cup {"provider_settings"}
      /\ e1.columns = d.columns /\ e1.config = d.config /\ e1.checks = d.checks /\ e1.rows = d.rows
  BY <1>1 DEF CreateTable, Database, Names, ProviderTables
<1>3. PICK e : e = [e1 EXCEPT !.rows["provider_settings"]
                         = @ \cup {"kiro", "anthropic", "openai_codex", "copilot"}]
  OBVIOUS
<1>4. /\ e \in Database
      /\ e.rows = [d.rows EXCEPT !["provider_settings"]
                     = @ \cup {"kiro", "anthropic", "openai_codex", "copilot"}]
      /\ e.tables = e1.tables /\ e.columns = d.columns /\ e.config = d.config /\ e.checks = d.checks
  BY <1>2, <1>3 DEF Database, Providers, ProviderTables
<1>5. e = migrate_to_v25(d)
  BY <1>1, <1>3 DEF migrate_to_v25
<1>6. Tables(25) \subseteq e.tables /\ Columns(25) \subseteq e.columns
  BY <1>2, <1>4 DEF At, Tables, Columns, Created, ProviderTables
<1>7. e.config \cap Removed(25) = {}
  BY <1>2, <1>4 DEF At, Removed
<1>8. ASSUME NEW t \in ProviderTables PROVE t \in e.tables => 25 >= Created(t)
  BY DEF Created
<1>9. ASSUME NEW t \in ProviderTables PROVE e.checks[t] = CheckAt(25, t)
  <2>1. d.checks[t] = CheckAt(24, t)
    BY DEF At
  <2>2. CASE t = "user_provider_keys"
    BY <1>4, <2>1, <2>2 DEF Created, CheckAt, Allowed, Known, Barred, Current
  <2>3. CASE t # "user_provider_keys"
    BY <1>4, <2>1, <2>3 DEF Created, CheckAt
  <2>4. QED
    BY <2>2, <2>3
<1>10. ASSUME NEW t \in ProviderTables PROVE e.rows[t] \subseteq Allowed(25, t)
  <2>1. d.rows[t] \subseteq Allowed(24, t)
    BY DEF At
  <2>2. QED
    BY <2>1, <1>4 DEF Database, ProviderTables, Created, Allowed, Known, Barred, Current
<1>11. QED
  BY <1>4, <1>5, <1>6, <1>7, <1>8, <1>9, <1>10 DEF At

LEMMA MigratedAt ==
    ASSUME NEW d \in Database, NEW v \in 4..Current, At(d, v - 1)
    PROVE  Migrated(d, v) \in Database /\ At(Migrated(d, v), v)
<1>1. CASE v = 4
  BY <1>1, Version4 DEF Migrated
<1>2. CASE v = 5
  BY <1>2, Version5 DEF Migrated
<1>3. CASE v = 6
  BY <1>3, Version6 DEF Migrated
<1>4. CASE v = 7
  BY <1>4, Version7 DEF Migrated
<1>5. CASE v = 8
  BY <1>5, Version8 DEF Migrated
<1>6. CASE v = 9
  BY <1>6, Version9 DEF Migrated
<1>7. CASE v = 10
  BY <1>7, Version10 DEF Migrated
<1>8. CASE v = 11
  BY <1>8, Version11 DEF Migrated
<1>9. CASE v = 12
  BY <1>9, Version12 DEF Migrated
<1>10. CASE v = 13
  BY <1>10, Version13 DEF Migrated
<1>11. CASE v = 14
  BY <1>11, Version14 DEF Migrated
<1>12. CASE v = 15
  BY <1>12, Version15 DEF Migrated
<1>13. CASE v = 16
  BY <1>13, Version16 DEF Migrated
<1>14. CASE v = 17
  BY <1>14, Version17 DEF Migrated
<1>15. CASE v = 18
  BY <1>15, Version18 DEF Migrated
<1>16. CASE v = 19
  BY <1>16, Version19 DEF Migrated
<1>17. CASE v = 20
  BY <1>17, Version20 DEF Migrated
<1>18. CASE v = 21
  BY <1>18, Version21 DEF Migrated
<1>19. CASE v = 22
  BY <1>19, Version22 DEF Migrated
<1>20. CASE v = 23
  BY <1>20, Version23 DEF Migrated
<1>21. CASE v = 24
  BY <1>21, Version24 DEF Migrated
<1>22. CASE v = 25
  BY <1>22, Version25 DEF Migrated
<1>23. QED
  BY <1>1, <1>2, <1>3, <1>4, <1>5, <1>6, <1>7, <1>8, <1>9, <1>10, <1>11,
     <1>12, <1>13, <1>14, <1>15, <1>16, <1>17, <1>18, <1>19, <1>20, <1>21, <1>22 DEF Current

(* The rows a version can have keep the CHECKs that it has.                *)
LEMMA AtPasses ==
    ASSUME NEW d \in Database, NEW v \in Versions, At(d, v)
    PROVE  RowsPassChecks(d)
<1>1. ASSUME NEW t \in ProviderTables PROVE Allowed(v, t) \subseteq CheckAt(v, t)
  <2>1. Allowed(v, t) \subseteq Providers
    BY DEF Allowed, Known, Providers
  <2>2. QED
    BY <2>1 DEF CheckAt
<1>2. QED
  BY <1>1 DEF At, RowsPassChecks

-----------------------------------------------------------------------------
(* The invariant of the schema.                                            *)
SchemaInv ==
    /\ db \in Database /\ At(db, db.version)
    /\ release \in Releases \cup {0} /\ db.version <= release
    /\ boot \in {"down", "migrating", "up", "without_db"}
    /\ boot # "down" => release \in Releases
    /\ boot = "up" => db.version = release
    /\ ~refused

LEMMA SchemaInvInit == SchemaInit => SchemaInv
<1> SUFFICES ASSUME SchemaInit PROVE SchemaInv
  OBVIOUS
<1> USE DEF SchemaInit
<1>1. db \in Database
  BY DEF Database, Versions, Current
<1>2. Tables(0) \subseteq db.tables /\ Columns(0) \subseteq db.columns /\ Removed(0) = {}
  BY DEF Tables, Columns, Removed, Created, ProviderTables
<1>3. \A t \in ProviderTables : CheckAt(0, t) = Providers
  BY DEF CheckAt, Created
<1>4. At(db, 0)
  BY <1>2, <1>3 DEF At
<1>5. QED
  BY <1>1, <1>4 DEF SchemaInv

(* A row that a release may write is one that its version allows.          *)
LEMMA WrittenRow ==
    ASSUME NEW v \in Versions, NEW t \in ProviderTables, v >= Created(t),
           NEW p \in Known(v) \cap CheckAt(v, t)
    PROVE  p \in Allowed(v, t)
<1>1. CASE CheckAt(v, t) = Allowed(v, t)
  BY <1>1
<1>2. CASE /\ t # "user_provider_keys"
           /\ t = "user_provider_tokens" => v >= 21
  <2>1. Barred(v, t) = {} /\ ~(v < Created(t))
    BY <1>2 DEF Barred, Versions, Current, Created
  <2>2. QED
    BY <2>1 DEF Allowed
<1>3. QED
  BY <1>1, <1>2 DEF CheckAt, Versions, Current

LEMMA SchemaInvStep == SchemaInv /\ [SchemaNext]_schema => SchemaInv'
<1> SUFFICES ASSUME SchemaInv, [SchemaNext]_schema PROVE SchemaInv'
  OBVIOUS
<1> USE DEF SchemaInv
<1>0. /\ db.version \in Versions
      /\ \A r \in Releases : r \in Versions /\ r \in Nat /\ r >= 3 /\ r <= Current
  BY MigrationsAssumption DEF Database, Versions, Current
<1>1. ASSUME NEW r \in Releases, Start(r) PROVE SchemaInv'
  BY <1>0, <1>1 DEF Start, Versions, Current
<1>2. ASSUME ConnectFails PROVE SchemaInv'
  BY <1>2 DEF ConnectFails
<1>3. ASSUME CreateBase PROVE SchemaInv'
  <2>1. PICK t \in BaseTables : db' = CreateTable(db, {t})
    BY <1>3 DEF CreateBase
  <2>2. /\ db' \in Database /\ db'.version = db.version /\ db'.tables = db.tables \cup {t}
        /\ db'.columns = db.columns /\ db'.config = db.config
        /\ db'.checks = db.checks /\ db'.rows = db.rows
    BY <2>1 DEF CreateTable, Database, Names
  <2>3. t \notin ProviderTables
    BY DEF BaseTables, ProviderTables
  <2>4. At(db', db.version)
    BY <2>2, <2>3 DEF At
  <2>5. QED
    BY <1>3, <2>2, <2>4 DEF CreateBase
<1>4. ASSUME RecordFirst PROVE SchemaInv'
  <2>1. db.version = 0 /\ BaseTables \subseteq db.tables /\ db' = Record(db, 1)
    BY <1>4 DEF RecordFirst
  <2>2. /\ db' \in Database /\ db'.version = 1 /\ db'.tables = db.tables
        /\ db'.columns = db.columns /\ db'.config = db.config
        /\ db'.checks = db.checks /\ db'.rows = db.rows
    BY <2>1 DEF Record, Database, Versions
  <2>3. Tables(1) \subseteq db.tables /\ Columns(1) = {} /\ Removed(1) = {}
    BY <2>1 DEF Tables, Columns, Removed, Created
  <2>4. \A t \in ProviderTables : CheckAt(1, t) = CheckAt(0, t) /\ Allowed(1, t) = Allowed(0, t)
    BY DEF CheckAt, Allowed, Created
  <2>5. \A t \in ProviderTables : t \notin db.tables
    BY <2>1 DEF At, Created
  <2>6. At(db', 1)
    BY <2>1, <2>2, <2>3, <2>4, <2>5 DEF At
  <2>7. QED
    BY <1>0, <1>4, <2>2, <2>6 DEF RecordFirst
<1>5. ASSUME migrate_to_v3 PROVE SchemaInv'
  <2>0. db.version = 1 /\ release \in Releases
    BY <1>5 DEF migrate_to_v3
  <2>1. CASE Missing(db) # {}
    <3>1. FirstMissing(db) \in 1..5
      <4>1. Missing(db) \subseteq 1..5
        BY DEF Missing, V3Tables
      <4>2. \E i \in Missing(db) : \A j \in Missing(db) : i <= j
        <5>1. CASE 1 \in Missing(db)
          BY <4>1, <5>1
        <5>2. CASE 1 \notin Missing(db) /\ 2 \in Missing(db)
          BY <4>1, <5>2
        <5>3. CASE {1, 2} \cap Missing(db) = {} /\ 3 \in Missing(db)
          BY <4>1, <5>3
        <5>4. CASE {1, 2, 3} \cap Missing(db) = {} /\ 4 \in Missing(db)
          BY <4>1, <5>4
        <5>5. CASE {1, 2, 3, 4} \cap Missing(db) = {}
          BY <2>1, <4>1, <5>5
        <5>6. QED
          BY <5>1, <5>2, <5>3, <5>4, <5>5
      <4>3. QED
        BY <4>1, <4>2 DEF FirstMissing
    <3>2. PICK name \in V3Names : db' = CreateTable(db, {name})
      <4>1. V3Tables[FirstMissing(db)] \in V3Names
        BY <3>1 DEF V3Tables, V3Names
      <4>2. QED
        BY <1>5, <2>1, <4>1 DEF migrate_to_v3
    <3>3. /\ db' \in Database /\ db'.version = db.version /\ db'.tables = db.tables \cup {name}
          /\ db'.columns = db.columns /\ db'.config = db.config
          /\ db'.checks = db.checks /\ db'.rows = db.rows
      BY <3>2 DEF CreateTable, Database, Names
    <3>4. name \notin ProviderTables
      BY DEF V3Names, ProviderTables
    <3>5. At(db', db.version)
      BY <3>3, <3>4 DEF At
    <3>6. QED
      BY <1>5, <3>3, <3>5 DEF migrate_to_v3
  <2>2. CASE Missing(db) = {}
    <3>1. db' = Record(db, 3)
      BY <1>5, <2>2 DEF migrate_to_v3
    <3>2. /\ db' \in Database /\ db'.version = 3 /\ db'.tables = db.tables
          /\ db'.columns = db.columns /\ db'.config = db.config
          /\ db'.checks = db.checks /\ db'.rows = db.rows
      BY <3>1 DEF Record, Database, Versions, Current
    <3>3. \A i \in 1..5 : V3Tables[i] \in db.tables
      BY <2>2 DEF Missing, V3Tables
    <3>4. V3Names \subseteq db.tables
      BY <3>3 DEF V3Names, V3Tables
    <3>5. Tables(3) \subseteq db.tables /\ Columns(3) = {} /\ Removed(3) = {}
      BY <2>0, <3>4 DEF At, Tables, Columns, Removed, Created
    <3>6. \A t \in ProviderTables : CheckAt(3, t) = CheckAt(1, t) /\ Allowed(3, t) = Allowed(1, t)
      BY DEF CheckAt, Allowed, Created
    <3>7. \A t \in ProviderTables : t \notin db.tables
      BY <2>0 DEF At, Created
    <3>8. At(db', 3)
      BY <2>0, <3>2, <3>5, <3>6, <3>7 DEF At
    <3>9. QED
      BY <1>0, <1>5, <3>2, <3>8 DEF migrate_to_v3
  <2>3. QED
    BY <2>1, <2>2
<1>6. ASSUME Migrate PROVE SchemaInv'
  <2>1. PICK v : v = db.version + 1
    OBVIOUS
  <2>2. v \in 4..Current /\ v \in Versions /\ v - 1 = db.version /\ v <= release
    BY <1>0, <1>6, <2>1 DEF Migrate, Versions, Current
  <2>3. PICK d : d = Migrated(db, v)
    OBVIOUS
  <2>4. d \in Database /\ At(d, v) /\ RowsPassChecks(d)
    BY <2>2, <2>3, MigratedAt, AtPasses
  <2>5. db' = Record(d, v) /\ UNCHANGED <<boot, refused, release>>
    BY <1>6, <2>1, <2>3, <2>4 DEF Migrate
  <2>6. db' \in Database /\ db'.version = v /\ At(db', v)
    <3>1. /\ db' \in Database /\ db'.version = v /\ db'.tables = d.tables
          /\ db'.columns = d.columns /\ db'.config = d.config
          /\ db'.checks = d.checks /\ db'.rows = d.rows
      BY <2>2, <2>4, <2>5 DEF Record, Database
    <3>2. QED
      BY <2>4, <3>1 DEF At
  <2>7. boot = "migrating"
    BY <1>6 DEF Migrate
  <2>8. QED
    BY <2>2, <2>5, <2>6, <2>7
<1>7. ASSUME Ready PROVE SchemaInv'
  BY <1>7 DEF Ready
<1>8. ASSUME NEW t \in ProviderTables, NEW p \in Providers, WriteRow(t, p) PROVE SchemaInv'
  <2>1. /\ db.version = release /\ t \in db.tables /\ p \in Known(release) \cap db.checks[t]
        /\ db' = [db EXCEPT !.rows[t] = @ \cup {p}]
        /\ UNCHANGED <<boot, release, refused>>
    BY <1>8 DEF WriteRow
  <2>2. /\ db' \in Database /\ db'.version = db.version /\ db'.tables = db.tables
        /\ db'.columns = db.columns /\ db'.config = db.config /\ db'.checks = db.checks
        /\ db'.rows = [db.rows EXCEPT ![t] = @ \cup {p}]
    BY <2>1 DEF Database
  <2>3. p \in Allowed(db.version, t)
    BY <1>0, <2>1, WrittenRow DEF At
  <2>4. At(db', db.version)
    BY <2>2, <2>3 DEF At, Database
  <2>5. QED
    BY <2>1, <2>2, <2>4
<1>9. ASSUME WriteConfig PROVE SchemaInv'
  <2>1. db.version < 16 /\ db' = Seed(db, {"mcp_enabled"}) /\ UNCHANGED <<boot, release, refused>>
    BY <1>9 DEF WriteConfig
  <2>2. /\ db' \in Database /\ db'.version = db.version /\ db'.tables = db.tables
        /\ db'.columns = db.columns /\ db'.checks = db.checks /\ db'.rows = db.rows
    BY <2>1 DEF Seed, Database, Names
  <2>3. Removed(db.version) = {}
    BY <1>0, <2>1 DEF Removed, Versions, Current
  <2>4. At(db', db.version)
    BY <2>2, <2>3 DEF At
  <2>5. QED
    BY <2>1, <2>2, <2>4
<1>10. ASSUME Stop PROVE SchemaInv'
  BY <1>10 DEF Stop
<1>11. ASSUME CrashBoot PROVE SchemaInv'
  BY <1>11 DEF CrashBoot
<1>12. CASE UNCHANGED schema
  BY <1>12 DEF schema
<1>13. QED
  BY <1>1, <1>2, <1>3, <1>4, <1>5, <1>6, <1>7, <1>8, <1>9, <1>10, <1>11, <1>12 DEF SchemaNext

(* From any older release, over crashes at any point and with any rows the *)
(* releases before can have left, run_migrations goes through, and ends    *)
(* with the tables, columns, providers and keys of the current release.    *)
THEOREM UpgradesSound == SchemaSpec => []UpgradeSound
<1>1. SchemaInv => UpgradeSound
  <2> SUFFICES ASSUME SchemaInv PROVE UpgradeSound
    OBVIOUS
  <2>1. UpgradeNeverRefused
    BY DEF SchemaInv, UpgradeNeverRefused
  <2>2. ASSUME boot = "up", release = Current
        PROVE  /\ QueriedTables \subseteq db.tables /\ QueriedColumns \subseteq db.columns
               /\ \A t \in ProviderTables : db.rows[t] \subseteq Known(Current)
               /\ db.config \cap {"mcp_enabled", "qwen_oauth_client_id"} = {}
    <3>1. At(db, 25)
      BY <2>2 DEF SchemaInv, Current
    <3>2. QueriedTables \subseteq Tables(25)
      BY DEF QueriedTables, Tables, BaseTables, V3Names, ProviderTables, Created
    <3>3. QueriedColumns \subseteq Columns(25)
      BY DEF QueriedColumns, Columns
    <3>4. \A t \in ProviderTables : Allowed(25, t) \subseteq Known(Current)
      BY DEF Allowed, Current
    <3>5. Removed(25) = {"mcp_enabled", "qwen_oauth_client_id"}
      BY DEF Removed
    <3>6. QED
      BY <3>1, <3>2, <3>3, <3>4, <3>5 DEF At
  <2>3. QED
    BY <2>1, <2>2 DEF UpgradeSound, SchemaServesQueries, NoRetiredProvider
<1>2. QED
  BY <1>1, SchemaInvInit, SchemaInvStep, PTL DEF SchemaSpec

-----------------------------------------------------------------------------
(* The configuration.                                                      *)
FieldValues ==
    {"none", "true", "false", "junk", "0", "in", "over", "default", "", "masked", "text", "long",
     "listed"}

FieldSets == {<<>>} \cup UNION {[ks -> FieldValues] : ks \in SUBSET Keys}

Puts ==
    [pc : {"idle", "google", "password", "persist", "apply"}, fields : FieldSets,
     todo : SUBSET Keys, google : BOOLEAN, wrote : BOOLEAN]

HotKeys == {k \in Keys : classify_config_change(k) = "HotReload"}
LoginKeys == {"auth_google_enabled", "auth_password_enabled"} \cup (GoogleKeys \cap Keys)

(* The fields whose rows a PUT has written, and those of them that it has  *)
(* not applied yet.                                                        *)
WrittenBy(r) ==
    IF r.pc = "persist" THEN DOMAIN r.fields \ r.todo
    ELSE IF r.pc = "apply" THEN DOMAIN r.fields ELSE {}
NewsOf(r) ==
    {k \in IF r.pc = "apply" THEN r.todo ELSE WrittenBy(r) : r.fields[k] # "masked"}

PutOk(r) ==
    /\ r.pc # "idle" =>
         /\ setup
         /\ DOMAIN r.fields \subseteq Keys /\ r.todo \subseteq DOMAIN r.fields
         /\ \A k \in DOMAIN r.fields :
               r.fields[k] \in Values(k) /\ validate_config_field(k, r.fields[k])
    /\ r.pc \in {"google", "password"} => r.todo = DOMAIN r.fields
    /\ \A k \in WrittenBy(r) : ~Refuses(k, r.fields[k])
    /\ WrittenBy(r) # {} \/ r.pc = "apply" => r.wrote

(* The configuration in memory once all of a PUT is applied.               *)
After(r, m) ==
    [k \in Keys |-> IF k \in DOMAIN r.fields /\ r.fields[k] # "masked" THEN r.fields[k] ELSE m[k]]

(* Rows and memory beside one PUT.                                         *)
Sound(r) ==
    /\ \A k \in HotKeys : overlaid \/ k \notin ClientIds =>
          k \in NewsOf(r) \/ memory[k] = LoadedField(k, stored[k], hasKey)
    /\ \A k \in NewsOf(r) : stored[k] = r.fields[k]
    /\ r.pc = "apply" => \A k \in (DOMAIN r.fields \ r.todo) \cap HotKeys :
                            r.fields[k] # "masked" => memory[k] = r.fields[k]
    /\ spoiled = {} =>
          /\ r.pc # "apply" => LoginOpen(memory)
          /\ r.pc \in {"persist", "apply"} => LoginOpen(After(r, memory))
          /\ r.pc = "password" /\ r.google => StoredToggle("auth_google_enabled", FALSE)

ConfigType ==
    /\ stored \in [Keys -> FieldValues] /\ memory \in [Keys -> FieldValues]
    /\ update \in [Admins -> Puts]
    /\ setup \in BOOLEAN /\ hasKey \in BOOLEAN /\ overlaid \in BOOLEAN
    /\ torn \in BOOLEAN

(* While nothing is torn, one administrator at most has a PUT under way.   *)
ConfigInv ==
    /\ ConfigType
    /\ \A a \in Admins : PutOk(update[a])
    /\ ~setup => \A k \in Keys \ ClientIds : stored[k] = NoRow
    /\ spoiled = {} => hasKey /\ ~torn
    /\ ~torn =>
          /\ \A a, b \in Admins : a = b \/ update[a].pc = "idle" \/ update[b].pc = "idle"
          /\ \A a \in Admins : update[a].pc # "idle" => Sound(update[a])
          /\ Resting => Sound(Idle)

LEMMA LoginKeysHot == LoginKeys \subseteq HotKeys /\ LoginKeys \cap ClientIds = {}
BY ConfigurationAssumption
DEF LoginKeys, HotKeys, ClientIds, GoogleKeys, classify_config_change, Numbers

LEMMA SpoilsNone == \A t \in BOOLEAN : Spoils(t) = {} <=> spoiled = {} /\ ~t
BY DEF Spoils

LEMMA OpenAlike ==
    ASSUME NEW m, NEW n, \A k \in LoginKeys : m[k] = n[k], LoginOpen(m)
    PROVE  LoginOpen(n)
BY DEF LoginOpen, LoginKeys, Configured

(* What passes the validation and is written is what is read again.        *)
LEMMA ReadBack ==
    ASSUME NEW k \in Keys, NEW v \in Values(k), validate_config_field(k, v), ~Refuses(k, v),
           v # "masked", hasKey \in BOOLEAN
    PROVE  LoadedField(k, v, hasKey) = v
<1>1. v # NoRow
  BY DEF Values, NoRow
<1>2. CASE k = "google_client_secret" /\ ~hasKey
  BY <1>2 DEF Refuses, LoadedField, with_defaults, Toggles, Numbers, GoogleKeys
<1>3. CASE ~(k = "google_client_secret" /\ ~hasKey)
  BY <1>1, <1>3 DEF LoadedField, validate_config_field
<1>4. QED
  BY <1>2, <1>3

LEMMA ValuesTyped == \A k \in Keys : Values(k) \subseteq FieldValues
BY DEF Values, FieldValues

LEMMA LoadedTyped ==
    ASSUME NEW k \in Keys, NEW v \in FieldValues, NEW ek \in BOOLEAN
    PROVE  LoadedField(k, v, ek) \in FieldValues
BY DEF LoadedField, with_defaults, FieldValues

LEMMA IdlePut == Idle \in Puts /\ WrittenBy(Idle) = {} /\ NewsOf(Idle) = {} /\ Idle.pc = "idle"
BY DEF Idle, Puts, FieldSets, WrittenBy, NewsOf

(* A step of the PUT of administrator a, which goes on as r.               *)
LEMMA PutStep ==
    ASSUME ConfigInv, NEW a \in Admins, NEW r \in Puts,
           update' = [update EXCEPT ![a] = r],
           UNCHANGED <<setup, hasKey, overlaid>>, setup,
           stored' \in [Keys -> FieldValues], memory' \in [Keys -> FieldValues],
           torn' \in BOOLEAN,
           spoiled' = {} => hasKey' /\ ~torn',
           PutOk(r),
           ~torn' => ~torn /\ (\A b \in Admins \ {a} : update[b].pc = "idle") /\ Sound(r)'
    PROVE  ConfigInv'
<1>1. /\ update' \in [Admins -> Puts] /\ update'[a] = r
      /\ \A b \in Admins \ {a} : update'[b] = update[b]
  BY DEF ConfigInv, ConfigType
<1>2. ConfigType'
  BY <1>1 DEF ConfigInv, ConfigType
<1>3. \A b \in Admins : PutOk(update[b])'
  BY <1>1 DEF ConfigInv, PutOk, Refuses
<1>4. ~torn' =>
          /\ \A b, c \in Admins : b = c \/ update'[b].pc = "idle" \/ update'[c].pc = "idle"
          /\ \A b \in Admins : update'[b].pc # "idle" => Sound(update[b])'
  BY <1>1 DEF Sound
<1>5. ASSUME ~torn', Resting' PROVE Sound(Idle)'
  <2>1. r.pc = "idle" /\ Sound(r)'
    BY <1>1, <1>5 DEF Resting
  <2>2. NewsOf(r) = {}
    BY <2>1 DEF NewsOf, WrittenBy
  <2>3. QED
    BY <2>1, <2>2, IdlePut DEF Sound
<1>6. QED
  BY <1>2, <1>3, <1>4, <1>5 DEF ConfigInv

LEMMA SubmitStep ==
    ASSUME ConfigInv, NEW a \in Admins, NEW fields \in AnyRequest(a), Submit(a, fields)
    PROVE  ConfigInv'
<1>1. /\ DOMAIN fields \subseteq Keys /\ fields \in FieldSets
      /\ \A k \in DOMAIN fields : fields[k] \in Values(k)
  <2>1. PICK ks \in SUBSET Keys : /\ fields \in [ks -> UNION {Values(k) : k \in ks}]
                                  /\ \A k \in ks : fields[k] \in Values(k)
    BY DEF AnyRequest, Requests
  <2>2. fields \in [ks -> FieldValues]
    BY <2>1, ValuesTyped
  <2>3. QED
    BY <2>1, <2>2 DEF FieldSets
<1>2. PICK r : r = [Idle EXCEPT !.pc = "google", !.fields = fields, !.todo = DOMAIN fields]
  OBVIOUS
<1>3. /\ r \in Puts /\ r.pc = "google" /\ r.fields = fields /\ r.todo = DOMAIN fields
      /\ NewsOf(r) = {} /\ WrittenBy(r) = {}
  BY <1>1, <1>2, IdlePut DEF Idle, Puts, NewsOf, WrittenBy
<1>4. /\ update' = [update EXCEPT ![a] = r] /\ setup /\ update[a].pc = "idle"
      /\ \A k \in DOMAIN fields : validate_config_field(k, fields[k])
      /\ UNCHANGED <<stored, memory, setup, hasKey, overlaid>>
  BY <1>2 DEF Submit
<1>5. PICK overlap \in BOOLEAN : /\ overlap <=> \E b \in Admins \ {a} : update[b].pc # "idle"
                                 /\ torn' = (torn \/ overlap) /\ spoiled' = Spoils(overlap)
  <2>1. (\E b \in Admins \ {a} : update[b].pc # "idle") \in BOOLEAN
    OBVIOUS
  <2>2. QED
    BY <2>1, Zenon DEF Submit
<1>6. PutOk(r)
  BY <1>1, <1>3, <1>4 DEF PutOk
<1>7. ~torn' => ~torn /\ (\A b \in Admins \ {a} : update[b].pc = "idle")
  BY <1>5 DEF ConfigInv, ConfigType
<1>8. spoiled' = {} => spoiled = {} /\ ~torn'
  BY <1>5, SpoilsNone DEF ConfigInv, ConfigType
<1>9. ASSUME ~torn' PROVE Sound(r)'
  <2>1. Resting /\ Sound(Idle)
    BY <1>4, <1>7, <1>9 DEF ConfigInv, Resting
  <2>2. QED
    BY <1>3, <1>4, <1>8, <2>1, IdlePut DEF Sound, LoadedField
<1>10. torn' \in BOOLEAN
  BY <1>5 DEF ConfigInv, ConfigType
<1>11. stored' \in [Keys -> FieldValues] /\ memory' \in [Keys -> FieldValues] /\ setup
       /\ UNCHANGED <<setup, hasKey, overlaid>> /\ (spoiled' = {} => hasKey' /\ ~torn')
  BY <1>4, <1>8 DEF ConfigInv, ConfigType
<1>12. QED
  BY <1>3, <1>4, <1>6, <1>7, <1>9, <1>10, <1>11, PutStep

LEMMA Busy ==
    ASSUME ConfigInv, NEW a \in Admins, update[a].pc # "idle"
    PROVE  /\ update[a] \in Puts /\ setup /\ PutOk(update[a])
           /\ ~torn => (\A b \in Admins \ {a} : update[b].pc = "idle") /\ Sound(update[a])
           /\ spoiled = {} => hasKey /\ ~torn
           /\ stored \in [Keys -> FieldValues] /\ memory \in [Keys -> FieldValues]
           /\ torn \in BOOLEAN /\ hasKey \in BOOLEAN
           /\ update \in [Admins -> Puts]
BY DEF ConfigInv, ConfigType, PutOk

LEMMA ReadGoogleStep ==
    ASSUME ConfigInv, NEW a \in Admins, ReadGoogle(a)
    PROVE  ConfigInv'
<1>1. PICK g \in BOOLEAN :
        /\ g => StoredToggle("auth_google_enabled", FALSE)
        /\ update' = [update EXCEPT ![a].pc = "password", ![a].google = g]
  <2>1. PICK t \in BOOLEAN : t = StoredToggle("auth_google_enabled", FALSE)
    BY DEF StoredToggle
  <2>2. \/ update' = [update EXCEPT ![a].pc = "password", ![a].google = t]
        \/ update' = [update EXCEPT ![a].pc = "password", ![a].google = FALSE]
    BY <2>1, Zenon DEF ReadGoogle
  <2>3. CASE update' = [update EXCEPT ![a].pc = "password", ![a].google = t]
    BY <2>1, <2>3, Zenon
  <2>4. CASE update' = [update EXCEPT ![a].pc = "password", ![a].google = FALSE]
    BY <2>1, <2>4, Zenon
  <2>5. QED
    BY <2>2, <2>3, <2>4
<1>2. /\ update[a].pc = "google"
      /\ UNCHANGED <<stored, memory, setup, hasKey, overlaid, torn, spoiled>>
  BY DEF ReadGoogle
<1>3. PICK r : r = [[update[a] EXCEPT !.pc = "password"] EXCEPT !.google = g]
  OBVIOUS
<1>4. /\ r \in Puts /\ r.pc = "password" /\ r.fields = update[a].fields
      /\ r.todo = update[a].todo /\ r.google = g /\ r.wrote = update[a].wrote
  BY <1>2, <1>3, Busy DEF Puts
<1>5. update' = [update EXCEPT ![a] = r]
  BY <1>1, <1>2, <1>3, Busy, Zenon
<1>6. PutOk(r)
  BY <1>2, <1>4, Busy DEF PutOk, WrittenBy
<1>7. ASSUME ~torn' PROVE Sound(r)'
  BY <1>1, <1>2, <1>4, <1>7, Busy DEF Sound, NewsOf, WrittenBy, StoredToggle, LoadedField
<1>8. QED
  BY <1>2, <1>4, <1>5, <1>6, <1>7, Busy, PutStep

(* What the cross-field check lets through leaves a way to log in.         *)
LEMMA OpenAfter ==
    ASSUME ConfigInv, NEW a \in Admins, update[a].pc = "password", spoiled = {},
           CrossField(update[a].fields, update[a].google,
                      StoredToggle("auth_password_enabled", TRUE), Configured(memory))
    PROVE  LoginOpen(After(update[a], memory))
<1> DEFINE on == "auth_password_enabled"
           gon == "auth_google_enabled"
<1>1. PICK r \in Puts : r = update[a]
  BY Busy
<1>2. /\ r.pc = "password" /\ Sound(r) /\ PutOk(r) /\ hasKey
      /\ on \in Keys /\ gon \in Keys
  BY <1>1, Busy, ConfigurationAssumption
<1>3. /\ memory[on] = LoadedField(on, stored[on], hasKey)
      /\ memory[gon] = LoadedField(gon, stored[gon], hasKey)
      /\ r.google => StoredToggle(gon, FALSE)
  <2>1. NewsOf(r) = {} /\ on \in HotKeys \ ClientIds /\ gon \in HotKeys \ ClientIds
    BY <1>2, LoginKeysHot DEF NewsOf, WrittenBy, LoginKeys
  <2>2. QED
    BY <1>2, <2>1 DEF Sound
<1>4. /\ StoredToggle(on, TRUE) => memory[on] = "true"
      /\ StoredToggle(gon, FALSE) => memory[gon] = "true"
  <2>1. on \in Toggles /\ on \notin Numbers /\ gon \notin Numbers
    BY DEF Toggles, Numbers
  <2>2. on \notin {"auth_google_enabled", "guardrails_enabled"}
    OBVIOUS
  <2>3. on # "google_client_secret" /\ gon # "google_client_secret"
    OBVIOUS
  <2>4. with_defaults[on] = "true"
    BY <1>2, <2>1, <2>2, Zenon DEF with_defaults
  <2>5. \A v : /\ v = NoRow => LoadedField(on, v, hasKey) = with_defaults[on]
               /\ v # NoRow => LoadedField(on, v, hasKey) = v /\ LoadedField(gon, v, hasKey) = v
    BY <2>1, <2>3, Zenon DEF LoadedField
  <2>6. StoredToggle(on, TRUE) => stored[on] = NoRow \/ stored[on] = "true"
    BY Zenon DEF StoredToggle
  <2>7. StoredToggle(gon, FALSE) => stored[gon] = "true" /\ stored[gon] # NoRow
    BY DEF StoredToggle, NoRow
  <2>8. "true" # NoRow
    BY DEF NoRow
  <2>9. StoredToggle(on, TRUE) => memory[on] = "true"
    BY <1>3, <2>4, <2>5, <2>6, <2>8, Zenon
  <2>10. StoredToggle(gon, FALSE) => memory[gon] = "true"
    BY <1>3, <2>5, <2>7, Zenon
  <2>11. QED
    BY <2>9, <2>10, Zenon
<1>5. /\ on \in DOMAIN r.fields => r.fields[on] # "masked"
      /\ gon \in DOMAIN r.fields => r.fields[gon] # "masked"
  BY <1>2 DEF PutOk, Values, Toggles
<1>6. PICK blank : /\ blank = ""
                   /\ Configured(memory) <=> \A k \in GoogleKeys \cap Keys : memory[k] # blank
                   /\ Configured(After(r, memory))
                        <=> \A k \in GoogleKeys \cap Keys : After(r, memory)[k] # blank
  BY Zenon DEF Configured
<1>7. PICK cleared \in BOOLEAN :
        /\ cleared <=> \E k \in GoogleKeys \cap DOMAIN r.fields : r.fields[k] = blank
        /\ \/ IF on \in DOMAIN r.fields THEN r.fields[on] = "true" ELSE StoredToggle(on, TRUE)
           \/ /\ IF gon \in DOMAIN r.fields THEN r.fields[gon] = "true" ELSE r.google
              /\ Configured(memory) /\ ~cleared
  <2>1. PICK cleared : cleared = (\E k \in GoogleKeys \cap DOMAIN r.fields : r.fields[k] = blank)
    OBVIOUS
  <2>2. cleared \in BOOLEAN
    BY <2>1, Zenon
  <2>3. QED
    BY <1>1, <1>6, <2>1, <2>2, Zenon DEF CrossField
<1>8. /\ After(r, memory)[on] = IF on \in DOMAIN r.fields THEN r.fields[on] ELSE memory[on]
      /\ After(r, memory)[gon] = IF gon \in DOMAIN r.fields THEN r.fields[gon] ELSE memory[gon]
      /\ \A k \in GoogleKeys \cap Keys :
            After(r, memory)[k] \in {memory[k]} \cup {r.fields[x] : x \in {k} \cap DOMAIN r.fields}
  BY <1>2, <1>5 DEF After
<1>9. ASSUME Configured(memory), ~cleared PROVE Configured(After(r, memory))
  BY <1>6, <1>7, <1>8, <1>9
<1>10. After(r, memory)[on] = "true" \/ (After(r, memory)[gon] = "true" /\ Configured(After(r, memory)))
  BY <1>3, <1>4, <1>7, <1>8, <1>9
<1>11. QED
  BY <1>1, <1>10 DEF LoginOpen

LEMMA ReadPasswordStep ==
    ASSUME ConfigInv, NEW a \in Admins, ReadPassword(a)
    PROVE  ConfigInv'
<1>1. /\ update[a].pc = "password"
      /\ UNCHANGED <<stored, memory, setup, hasKey, overlaid, torn>>
  BY DEF ReadPassword
<1> DEFINE on == StoredToggle("auth_password_enabled", TRUE)
<1>0. PICK read \in {on, TRUE} :
        LET passes == CrossField(update[a].fields, update[a].google, read, Configured(memory))
        IN /\ update' = [update EXCEPT ![a] = IF passes THEN [@ EXCEPT !.pc = "persist"] ELSE Idle]
           /\ spoiled' = IF read = on THEN spoiled ELSE spoiled \cup {"misread"}
  BY Zenon DEF ReadPassword
<1> DEFINE passes == CrossField(update[a].fields, update[a].google, read, Configured(memory))
<1>5. spoiled' = {} => spoiled = {} /\ read = on
  BY <1>0
<1>6. spoiled' = {} => hasKey' /\ ~torn'
  BY <1>1, <1>5, Busy
<1>2. CASE passes
  <2>1. PICK r : r = [update[a] EXCEPT !.pc = "persist"]
    OBVIOUS
  <2>2. /\ r \in Puts /\ r.pc = "persist" /\ r.fields = update[a].fields
        /\ r.todo = update[a].todo /\ r.wrote = update[a].wrote
    BY <1>1, <2>1, Busy DEF Puts
  <2>3. update' = [update EXCEPT ![a] = r]
    BY <1>0, <1>2, <2>1
  <2>4. WrittenBy(r) = {} /\ NewsOf(r) = {}
    BY <1>1, <2>2, Busy DEF PutOk, WrittenBy, NewsOf
  <2>5. PutOk(r)
    BY <1>1, <2>2, <2>4, Busy DEF PutOk
  <2>6. After(r, memory) = After(update[a], memory)
    BY <2>2 DEF After
  <2>7. spoiled' = {} => LoginOpen(After(r, memory))
    BY <1>1, <1>2, <1>5, <2>6, OpenAfter
  <2>8. NewsOf(update[a]) = {}
    BY <1>1 DEF NewsOf, WrittenBy
  <2>9. ASSUME ~torn' PROVE Sound(r)'
    <3>1. Sound(update[a])
      BY <1>1, <2>9, Busy
    <3>2. UNCHANGED After(r, memory) /\ UNCHANGED NewsOf(r)
      BY <1>1 DEF After, NewsOf, WrittenBy
    <3>3. /\ \A k \in HotKeys : overlaid \/ k \notin ClientIds =>
                memory[k] = LoadedField(k, stored[k], hasKey)
          /\ spoiled' = {} => LoginOpen(memory)
      BY <1>1, <1>5, <2>8, <3>1 DEF Sound
    <3>4. \A k \in Keys : LoadedField(k, stored[k], hasKey)' = LoadedField(k, stored[k], hasKey)
      BY <1>1 DEF LoadedField
    <3>5. LoginOpen(memory)' = LoginOpen(memory) /\ LoginOpen(After(r, memory))' = LoginOpen(After(r, memory))
      BY <1>1, <3>2 DEF LoginOpen, Configured
    <3>6. NewsOf(r)' = {}
      BY <2>4, <3>2
    <3>7. QED
      BY <1>1, <2>2, <2>7, <3>3, <3>4, <3>5, <3>6 DEF Sound, HotKeys
  <2>10. QED
    BY <1>1, <1>6, <2>2, <2>3, <2>5, <2>9, Busy, PutStep
<1>3. CASE ~passes
  <2>1. update' = [update EXCEPT ![a] = Idle]
    BY <1>0, <1>3
  <2>2. PutOk(Idle)
    BY IdlePut DEF PutOk
  <2>3. NewsOf(update[a]) = {}
    BY <1>1 DEF NewsOf, WrittenBy
  <2>4. ASSUME ~torn' PROVE Sound(Idle)'
    <3>1. Sound(update[a])
      BY <1>1, <2>4, Busy
    <3>2. Sound(Idle)
      BY <1>1, <2>3, <3>1, IdlePut DEF Sound
    <3>3. QED
      BY <1>1, <1>5, <3>2, IdlePut DEF Sound, LoadedField, LoginOpen, Configured
  <2>5. QED
    BY <1>1, <1>6, <2>1, <2>2, <2>4, Busy, PutStep, IdlePut
<1>4. QED
  BY <1>2, <1>3

(* One row more.                                                           *)
LEMMA PersistStep ==
    ASSUME ConfigInv, NEW a \in Admins, NEW k \in Keys, Persist(a, k)
    PROVE  ConfigInv'
<1>1. PICK u \in Puts : u = update[a]
  BY DEF ConfigInv, ConfigType
<1>2. PICK rest : rest = u.todo \ {k}
  OBVIOUS
<1>3. /\ u.pc = "persist" /\ k \in u.todo /\ ~Refuses(k, u.fields[k])
      /\ stored' = IF u.fields[k] = "masked" THEN stored ELSE [stored EXCEPT ![k] = u.fields[k]]
      /\ UNCHANGED <<memory, setup, hasKey, overlaid, torn, spoiled>>
  BY <1>1 DEF Persist
<1>4. /\ PutOk(u)
      /\ ~torn => Sound(u) /\ (\A b \in Admins \ {a} : update[b].pc = "idle")
  BY <1>1, <1>3, Busy
<1>5. /\ DOMAIN u.fields \subseteq Keys /\ u.todo \subseteq DOMAIN u.fields /\ setup
      /\ \A j \in DOMAIN u.fields : u.fields[j] \in Values(j) /\ validate_config_field(j, u.fields[j])
  BY <1>3, <1>4 DEF PutOk
<1>6. PICK r : r = [[[u EXCEPT !.wrote = TRUE]
                        EXCEPT !.pc = IF rest = {} THEN "apply" ELSE "persist"]
                        EXCEPT !.todo = IF rest = {} THEN DOMAIN u.fields ELSE rest]
  OBVIOUS
<1>7. /\ r \in Puts /\ r.fields = u.fields /\ r.wrote
      /\ r.pc = IF rest = {} THEN "apply" ELSE "persist"
      /\ r.todo = IF rest = {} THEN DOMAIN u.fields ELSE rest
  BY <1>2, <1>5, <1>6 DEF Puts
<1>8. update' = [update EXCEPT ![a] = r]
  <2>1. update' = [update EXCEPT ![a] =
              [update[a] EXCEPT !.wrote = TRUE,
                        !.pc = IF rest = {} THEN "apply" ELSE "persist",
                        !.todo = IF rest = {} THEN DOMAIN u.fields ELSE rest]]
    BY <1>1, <1>2, <1>3 DEF Persist, ConfigInv, ConfigType
  <2>2. QED
    BY <1>1, <1>6, <2>1
<1>9. WrittenBy(r) = WrittenBy(u) \cup {k} /\ k \notin WrittenBy(u)
  BY <1>2, <1>3, <1>5, <1>7 DEF WrittenBy
<1>10. /\ NewsOf(u) = {j \in WrittenBy(u) : u.fields[j] # "masked"}
       /\ NewsOf(r) = {j \in WrittenBy(r) : u.fields[j] # "masked"}
  BY <1>2, <1>3, <1>7 DEF WrittenBy, NewsOf
<1>11. PutOk(r)
  <2>1. \A j \in WrittenBy(r) : ~Refuses(j, r.fields[j])
    BY <1>3, <1>4, <1>7, <1>9 DEF PutOk
  <2>2. r.todo \subseteq DOMAIN r.fields
    BY <1>2, <1>5, <1>7
  <2>3. QED
    BY <1>5, <1>7, <2>1, <2>2 DEF PutOk
<1>12. stored' \in [Keys -> FieldValues]
  <2>1. u.fields[k] \in FieldValues
    BY <1>3, <1>5, ValuesTyped
  <2>2. QED
    BY <1>3, <2>1 DEF ConfigInv, ConfigType
<1>13. ASSUME ~torn' PROVE Sound(r)'
  <2>1. Sound(u)
    BY <1>3, <1>4, <1>13
  <2>2. \A j \in Keys : j = k \/ stored'[j] = stored[j]
    BY <1>3 DEF ConfigInv, ConfigType
  <2>3. u.fields[k] # "masked" => stored'[k] = u.fields[k]
    BY <1>3 DEF ConfigInv, ConfigType
  <2>4. \A j \in HotKeys : overlaid \/ j \notin ClientIds =>
            j \in NewsOf(r) \/ memory[j] = LoadedField(j, stored'[j], hasKey)
    <3> SUFFICES ASSUME NEW j \in HotKeys, overlaid \/ j \notin ClientIds, j \notin NewsOf(r)
                 PROVE  memory[j] = LoadedField(j, stored'[j], hasKey)
      OBVIOUS
    <3>1. j \notin NewsOf(u) /\ stored'[j] = stored[j]
      BY <1>3, <1>9, <1>10, <2>2 DEF HotKeys
    <3>2. QED
      BY <2>1, <3>1 DEF Sound
  <2>5. \A j \in NewsOf(r) : stored'[j] = u.fields[j]
    BY <1>9, <1>10, <2>1, <2>2, <2>3, <1>5 DEF Sound, WrittenBy
  <2>6. r.pc = "apply" => DOMAIN r.fields \ r.todo = {}
    BY <1>7
  <2>7. /\ After(r, memory) = After(u, memory)
        /\ spoiled = {} => LoginOpen(memory) /\ LoginOpen(After(u, memory))
    BY <1>3, <1>7, <2>1 DEF After, Sound
  <2>8. UNCHANGED NewsOf(r) /\ UNCHANGED After(r, memory)
    BY <1>3 DEF NewsOf, WrittenBy, After
  <2>9. \A j \in Keys : LoadedField(j, stored[j], hasKey)' = LoadedField(j, stored'[j], hasKey)
    BY <1>3 DEF LoadedField
  <2>10. UNCHANGED LoginOpen(memory)
    BY <1>3 DEF LoginOpen
  <2>11. LoginOpen(After(r, memory))' = LoginOpen(After(r, memory))
    BY <2>8 DEF LoginOpen, Configured
  <2>12. r.pc # "password"
    BY <1>7
  <2>13. QED
    BY <1>3, <1>7, <2>4, <2>5, <2>6, <2>7, <2>8, <2>9, <2>10, <2>11, <2>12 DEF Sound, HotKeys
<1>14. QED
  BY <1>1, <1>3, <1>4, <1>5, <1>7, <1>8, <1>11, <1>12, <1>13, PutStep DEF ConfigInv, ConfigType

(* A PUT that has written nothing ends as if it had not been sent.         *)
LEMMA PersistFailsStep ==
    ASSUME ConfigInv, NEW a \in Admins, PersistFails(a)
    PROVE  ConfigInv'
<1>1. PICK u \in Puts : u = update[a]
  BY DEF ConfigInv, ConfigType
<1>2. /\ u.pc = "persist" /\ update' = [update EXCEPT ![a] = Idle]
      /\ UNCHANGED <<stored, memory, setup, hasKey, overlaid>>
      /\ torn' = (torn \/ u.wrote) /\ spoiled' = Spoils(u.wrote)
  BY <1>1 DEF PersistFails
<1>3. /\ PutOk(u) /\ setup
      /\ ~torn => Sound(u) /\ (\A b \in Admins \ {a} : update[b].pc = "idle")
      /\ spoiled = {} => hasKey /\ ~torn
      /\ torn \in BOOLEAN /\ u.wrote \in BOOLEAN
  BY <1>1, <1>2, Busy DEF Puts
<1>4. torn' \in BOOLEAN
  BY <1>2, <1>3
<1>5. spoiled' = {} => hasKey' /\ ~torn'
  BY <1>2, <1>3, SpoilsNone
<1>6. PutOk(Idle)
  BY IdlePut DEF PutOk
<1>7. ASSUME ~torn' PROVE Sound(Idle)'
  <2>1. ~torn /\ ~u.wrote
    BY <1>2, <1>3, <1>7
  <2>2. NewsOf(u) = {} /\ Sound(u)
    BY <1>2, <1>3, <2>1 DEF PutOk, NewsOf, WrittenBy
  <2>3. spoiled' = spoiled
    BY <1>2, <1>3, <2>1 DEF Spoils
  <2>4. Sound(Idle)
    BY <1>2, <2>2, IdlePut DEF Sound
  <2>5. QED
    BY <1>2, <2>3, <2>4, IdlePut DEF Sound, LoadedField
<1>8. ~torn' => ~torn /\ (\A b \in Admins \ {a} : update[b].pc = "idle") /\ Sound(Idle)'
  BY <1>2, <1>3, <1>7
<1>9. QED
  BY <1>2, <1>3, <1>4, <1>5, <1>6, <1>8, PutStep, IdlePut DEF ConfigInv, ConfigType

(* One field more.  After the last one the memory has all of the PUT.      *)
LEMMA ApplyStep ==
    ASSUME ConfigInv, NEW a \in Admins, NEW k \in Keys, Apply(a, k)
    PROVE  ConfigInv'
<1>1. PICK u \in Puts : u = update[a]
  BY DEF ConfigInv, ConfigType
<1>2. PICK rest : rest = u.todo \ {k}
  OBVIOUS
<1>3. /\ u.pc = "apply" /\ k \in u.todo
      /\ memory' = apply_config_field(memory, k, u.fields[k])
      /\ update' = [update EXCEPT ![a] = IF rest = {} THEN Idle ELSE [u EXCEPT !.todo = rest]]
      /\ UNCHANGED <<stored, setup, hasKey, overlaid, torn, spoiled>>
  BY <1>1, <1>2 DEF Apply, ConfigInv, ConfigType
<1>4. /\ PutOk(u) /\ setup /\ hasKey \in BOOLEAN /\ torn \in BOOLEAN
      /\ ~torn => Sound(u) /\ (\A b \in Admins \ {a} : update[b].pc = "idle")
      /\ spoiled = {} => hasKey /\ ~torn
      /\ stored \in [Keys -> FieldValues] /\ memory \in [Keys -> FieldValues]
  BY <1>1, <1>3, Busy
<1>5. /\ DOMAIN u.fields \subseteq Keys /\ u.todo \subseteq DOMAIN u.fields /\ u.wrote
      /\ \A j \in DOMAIN u.fields : /\ u.fields[j] \in Values(j) /\ validate_config_field(j, u.fields[j])
                                    /\ ~Refuses(j, u.fields[j])
  BY <1>3, <1>4 DEF PutOk, WrittenBy
<1>6. u.fields[k] \in FieldValues
  BY <1>3, <1>5, ValuesTyped
<1>7. memory' \in [Keys -> FieldValues] /\ stored' \in [Keys -> FieldValues]
  BY <1>3, <1>4, <1>6 DEF apply_config_field
<1>8. /\ \A j \in Keys : j = k \/ memory'[j] = memory[j]
      /\ k \in HotKeys /\ u.fields[k] # "masked" => memory'[k] = u.fields[k]
      /\ ~(k \in HotKeys /\ u.fields[k] # "masked") => memory'[k] = memory[k]
  BY <1>3, <1>4 DEF apply_config_field, HotKeys
<1>9. NewsOf(u) = {j \in u.todo : u.fields[j] # "masked"}
  BY <1>3 DEF NewsOf
<1>10. ASSUME ~torn
       PROVE  /\ \A j \in HotKeys : overlaid \/ j \notin ClientIds =>
                    j \in NewsOf(u) \ {k} \/ memory'[j] = LoadedField(j, stored[j], hasKey)
              /\ \A j \in (DOMAIN u.fields \ rest) \cap HotKeys :
                    u.fields[j] # "masked" => memory'[j] = u.fields[j]
  <2>1. Sound(u)
    BY <1>4, <1>10
  <2>2. k \in NewsOf(u) => LoadedField(k, stored[k], hasKey) = u.fields[k]
    BY <1>3, <1>4, <1>5, <1>9, <2>1, ReadBack DEF Sound
  <2>3. ASSUME NEW j \in HotKeys, overlaid \/ j \notin ClientIds, j \notin NewsOf(u) \ {k}
        PROVE  memory'[j] = LoadedField(j, stored[j], hasKey)
    <3>1. CASE j = k /\ u.fields[k] # "masked"
      BY <1>3, <1>8, <1>9, <2>2, <2>3, <3>1
    <3>2. CASE ~(j = k /\ u.fields[k] # "masked")
      <4>1. j \notin NewsOf(u) /\ memory'[j] = memory[j]
        BY <1>8, <1>9, <2>3, <3>2 DEF HotKeys
      <4>2. QED
        BY <2>1, <2>3, <4>1 DEF Sound
    <3>3. QED
      BY <3>1, <3>2
  <2>4. ASSUME NEW j \in (DOMAIN u.fields \ rest) \cap HotKeys, u.fields[j] # "masked"
        PROVE  memory'[j] = u.fields[j]
    <3>1. CASE j = k
      BY <1>8, <2>4, <3>1
    <3>2. CASE j # k
      BY <1>2, <1>3, <1>8, <2>1, <2>4, <3>2 DEF Sound, HotKeys
    <3>3. QED
      BY <3>1, <3>2
  <2>5. QED
    BY <2>3, <2>4
<1>11. After(u, memory') = After(u, memory)
  BY <1>3, <1>5, <1>8 DEF After
<1>12. CASE rest # {}
  <2>1. PICK r : r = [u EXCEPT !.todo = rest]
    OBVIOUS
  <2>2. /\ r \in Puts /\ r.pc = "apply" /\ r.todo = rest /\ r.fields = u.fields /\ r.wrote
    BY <1>2, <1>3, <1>5, <2>1 DEF Puts
  <2>3. update' = [update EXCEPT ![a] = r]
    BY <1>3, <1>12, <2>1
  <2>4. WrittenBy(r) = DOMAIN u.fields /\ NewsOf(r) = NewsOf(u) \ {k}
    BY <1>2, <1>9, <2>2 DEF WrittenBy, NewsOf
  <2>5. PutOk(r)
    BY <1>2, <1>4, <1>5, <2>2, <2>4 DEF PutOk
  <2>6. ASSUME ~torn' PROVE Sound(r)'
    <3>1. ~torn /\ Sound(u)
      BY <1>3, <1>4, <2>6
    <3>2. \A j \in NewsOf(r) : stored[j] = r.fields[j]
      BY <2>2, <2>4, <3>1 DEF Sound
    <3>3. spoiled = {} => LoginOpen(After(u, memory))
      BY <1>3, <3>1 DEF Sound
    <3>4. UNCHANGED NewsOf(r)
      BY <1>3 DEF NewsOf, WrittenBy
    <3>5. After(r, memory)' = After(u, memory)
      BY <1>11, <2>2 DEF After
    <3>6. LoginOpen(After(r, memory))' = LoginOpen(After(u, memory))
      BY <3>5 DEF LoginOpen, Configured
    <3>7. \A j \in Keys : LoadedField(j, stored[j], hasKey)' = LoadedField(j, stored[j], hasKey)
      BY <1>3 DEF LoadedField
    <3>8. QED
      BY <1>3, <1>10, <2>2, <2>4, <3>1, <3>2, <3>3, <3>4, <3>6, <3>7 DEF Sound, HotKeys
  <2>7. QED
    BY <1>3, <1>4, <1>7, <2>2, <2>3, <2>5, <2>6, PutStep
<1>13. CASE rest = {}
  <2>1. update' = [update EXCEPT ![a] = Idle]
    BY <1>3, <1>13
  <2>2. PutOk(Idle)
    BY IdlePut DEF PutOk
  <2>3. ASSUME ~torn' PROVE Sound(Idle)'
    <3>1. ~torn /\ Sound(u)
      BY <1>3, <1>4, <2>3
    <3>2. NewsOf(u) \ {k} = {}
      BY <1>2, <1>9, <1>13
    <3>3. ASSUME spoiled = {} PROVE LoginOpen(memory')
      <4>1. LoginOpen(After(u, memory))
        BY <1>3, <3>1, <3>3 DEF Sound
      <4>2. \A j \in HotKeys : After(u, memory)[j] = memory'[j]
        <5> SUFFICES ASSUME NEW j \in HotKeys PROVE After(u, memory)[j] = memory'[j]
          OBVIOUS
        <5>1. CASE j \in DOMAIN u.fields /\ u.fields[j] # "masked"
          BY <1>10, <1>13, <3>1, <5>1 DEF After, HotKeys
        <5>2. CASE ~(j \in DOMAIN u.fields /\ u.fields[j] # "masked")
          BY <1>3, <1>5, <1>8, <5>2 DEF After, HotKeys
        <5>3. QED
          BY <5>1, <5>2
      <4>3. QED
        BY <4>1, <4>2, OpenAlike, LoginKeysHot
    <3>4. LoginOpen(memory)' = LoginOpen(memory')
      BY DEF LoginOpen, Configured
    <3>5. \A j \in Keys : LoadedField(j, stored[j], hasKey)' = LoadedField(j, stored[j], hasKey)
      BY <1>3 DEF LoadedField
    <3>6. NewsOf(Idle)' = {}
      BY IdlePut DEF NewsOf, WrittenBy
    <3>7. QED
      BY <1>3, <1>10, <3>1, <3>2, <3>3, <3>4, <3>5, <3>6, IdlePut DEF Sound, HotKeys
  <2>4. QED
    BY <1>3, <1>4, <1>7, <2>1, <2>2, <2>3, IdlePut, PutStep
<1>14. QED
  BY <1>12, <1>13

LEMMA Defaults ==
    /\ with_defaults \in [Keys -> FieldValues]
    /\ with_defaults["auth_password_enabled"] = "true"
    /\ \A k, ek : LoadedField(k, NoRow, ek) = with_defaults[k]
<1>1. \A k \in Keys : with_defaults[k] \in {"false", "true", "default", ""}
  BY Zenon DEF with_defaults
<1>2. {"false", "true", "default", ""} \subseteq FieldValues
  BY Zenon DEF FieldValues
<1>3. with_defaults = [k \in Keys |-> with_defaults[k]]
  BY Zenon DEF with_defaults
<1>4. with_defaults \in [Keys -> FieldValues]
  BY <1>1, <1>2, <1>3
<1>5. /\ "auth_password_enabled" \in Toggles
      /\ "auth_password_enabled" \notin {"auth_google_enabled", "guardrails_enabled"}
      /\ "auth_password_enabled" \in Keys
  BY ConfigurationAssumption DEF Toggles
<1>6. with_defaults["auth_password_enabled"] = "true"
  BY <1>5, Zenon DEF with_defaults
<1>7. \A k, ek : LoadedField(k, NoRow, ek) = with_defaults[k]
  BY Zenon DEF LoadedField
<1>8. QED
  BY <1>4, <1>6, <1>7

(* Everything at rest, with one configuration in memory.                   *)
LEMMA AtRest ==
    ASSUME NEW m, NEW ek \in BOOLEAN, NEW over \in BOOLEAN,
           \A k \in HotKeys : over \/ k \notin ClientIds => m[k] = LoadedField(k, stored[k], ek),
           spoiled = {} => LoginOpen(m), m = memory, ek = hasKey, over = overlaid
    PROVE  Sound(Idle)
BY IdlePut DEF Sound

LEMMA ConfigInvInit == ConfigInit => ConfigInv
<1> SUFFICES ASSUME ConfigInit PROVE ConfigInv
  OBVIOUS
<1>1. /\ setup \in BOOLEAN /\ hasKey \in BOOLEAN /\ overlaid = setup /\ torn = FALSE
      /\ spoiled = (IF hasKey THEN {} ELSE {"torn"}) /\ update = [a \in Admins |-> Idle]
      /\ memory = IF setup THEN load_into_config(stored, hasKey) ELSE with_defaults
      /\ stored = [k \in Keys |-> IF k \in ClientIds THEN "text" ELSE NoRow]
  BY DEF ConfigInit
<1>2. stored \in [Keys -> FieldValues]
  <2>1. "text" \in FieldValues /\ NoRow \in FieldValues
    BY Zenon DEF FieldValues, NoRow
  <2>2. QED
    BY <1>1, <2>1
<1>3. \A k \in Keys \ ClientIds : stored[k] = NoRow
  BY <1>1
<1>4. memory \in [Keys -> FieldValues]
  BY <1>1, <1>2, Defaults, LoadedTyped DEF load_into_config
<1>5. \A k \in Keys : overlaid \/ k \notin ClientIds => memory[k] = LoadedField(k, stored[k], hasKey)
  BY <1>1, <1>3, Defaults DEF load_into_config
<1>6. "auth_password_enabled" \in Keys \ ClientIds
  BY ConfigurationAssumption DEF ClientIds
<1>7. LoginOpen(memory)
  BY <1>3, <1>5, <1>6, Defaults DEF LoginOpen
<1>8. Sound(Idle)
  BY <1>1, <1>5, <1>7, AtRest DEF HotKeys
<1>9. ConfigType
  BY <1>1, <1>2, <1>4, IdlePut DEF ConfigType
<1>10. PutOk(Idle)
  BY IdlePut DEF PutOk
<1>11. \A a \in Admins : update[a] = Idle
  BY <1>1
<1>12. QED
  BY <1>1, <1>3, <1>8, <1>9, <1>10, <1>11, IdlePut DEF ConfigInv

(* A start reads what the last run wrote.  A PUT that had written nothing  *)
(* is gone without a trace; one that had makes the login free to vanish.   *)
LEMMA BootStep ==
    ASSUME ConfigInv, NEW ek \in BOOLEAN, Boot(ek)
    PROVE  ConfigInv'
<1>1. /\ memory' = IF setup THEN load_into_config(stored, ek) ELSE with_defaults
      /\ overlaid' = setup /\ hasKey' = ek /\ update' = [a \in Admins |-> Idle] /\ torn' = FALSE
      /\ spoiled' = Spoils(~ek \/ \E a \in Admins : update[a].wrote)
      /\ UNCHANGED <<stored, setup>>
  BY DEF Boot
<1>2. /\ stored \in [Keys -> FieldValues] /\ setup \in BOOLEAN
      /\ ~setup => \A k \in Keys \ ClientIds : stored[k] = NoRow
  BY DEF ConfigInv, ConfigType
<1>3. memory' \in [Keys -> FieldValues]
  BY <1>1, <1>2, Defaults, LoadedTyped DEF load_into_config
<1>4. \A k \in Keys : setup \/ k \notin ClientIds => memory'[k] = LoadedField(k, stored[k], ek)
  BY <1>1, <1>2, Defaults DEF load_into_config
<1>6. ASSUME spoiled' = {} PROVE LoginOpen(memory')
  <2>1. spoiled = {} /\ ek /\ (\A a \in Admins : ~update[a].wrote)
    BY <1>1, <1>6 DEF Spoils
  <2>2. hasKey /\ ~torn
    BY <2>1 DEF ConfigInv
  <2>3. PICK r : r \in Puts /\ Sound(r) /\ NewsOf(r) = {} /\ r.pc # "apply"
    <3>1. CASE Resting
      BY <2>2, <3>1, IdlePut DEF ConfigInv
    <3>2. CASE ~Resting
      <4>1. PICK a \in Admins : update[a].pc # "idle"
        BY <3>2 DEF Resting
      <4>2. update[a] \in Puts /\ Sound(update[a]) /\ PutOk(update[a]) /\ ~update[a].wrote
        BY <2>1, <2>2, <4>1, Busy
      <4>3. WrittenBy(update[a]) = {} /\ update[a].pc # "apply"
        BY <4>2 DEF PutOk
      <4>4. NewsOf(update[a]) = {}
        BY <4>3 DEF NewsOf
      <4>5. QED
        BY <4>2, <4>3, <4>4
    <3>3. QED
      BY <3>1, <3>2
  <2>4. LoginOpen(memory) /\ \A k \in LoginKeys : memory[k] = LoadedField(k, stored[k], hasKey)
    BY <2>1, <2>3, LoginKeysHot DEF Sound
  <2>5. \A k \in LoginKeys : memory[k] = memory'[k]
    BY <1>4, <2>1, <2>2, <2>4, LoginKeysHot DEF HotKeys
  <2>6. QED
    BY <2>4, <2>5, OpenAlike
<1>7. Sound(Idle)'
  <2>1. \A k \in Keys : LoadedField(k, stored[k], hasKey)' = LoadedField(k, stored[k], ek)
    BY <1>1 DEF LoadedField
  <2>2. LoginOpen(memory)' = LoginOpen(memory')
    BY DEF LoginOpen, Configured
  <2>3. NewsOf(Idle)' = {}
    BY IdlePut DEF NewsOf, WrittenBy
  <2>4. QED
    BY <1>1, <1>4, <1>6, <2>1, <2>2, <2>3, IdlePut DEF Sound, HotKeys
<1>8. PutOk(Idle)'
  BY IdlePut DEF PutOk, WrittenBy
<1>9. \A a \in Admins : update'[a] = Idle
  BY <1>1
<1>10. ConfigType'
  BY <1>1, <1>2, <1>3, IdlePut DEF ConfigType
<1>11. \A a \in Admins : PutOk(update[a])'
  BY <1>8, <1>9 DEF PutOk, WrittenBy, Refuses
<1>12. spoiled' = {} => hasKey' /\ ~torn'
  BY <1>1 DEF Spoils
<1>13. QED
  BY <1>1, <1>2, <1>7, <1>9, <1>10, <1>11, <1>12, IdlePut DEF ConfigInv

LEMMA CompleteSetupStep ==
    ASSUME ConfigInv, CompleteSetup
    PROVE  ConfigInv'
<1>1. ~setup /\ setup' = TRUE
      /\ UNCHANGED <<stored, memory, hasKey, update, overlaid, torn, spoiled>>
  BY DEF CompleteSetup
<1>2. \A a \in Admins : PutOk(update[a])'
  BY <1>1 DEF ConfigInv, PutOk, WrittenBy, Refuses
<1>3. ConfigType'
  BY <1>1 DEF ConfigInv, ConfigType
<1>4. \A a \in Admins : update[a].pc = "idle"
  BY <1>1 DEF ConfigInv, PutOk
<1>5. ~torn' => Sound(Idle)'
  <2>1. ~torn => Sound(Idle)
    BY <1>4 DEF ConfigInv, Resting
  <2>2. QED
    BY <1>1, <2>1, IdlePut DEF Sound, LoadedField
<1>6. QED
  BY <1>1, <1>2, <1>3, <1>4, <1>5 DEF ConfigInv

LEMMA ConfigInvStep == ConfigInv /\ [ConfigNext(AnyRequest)]_config => ConfigInv'
<1> SUFFICES ASSUME ConfigInv, [ConfigNext(AnyRequest)]_config PROVE ConfigInv'
  OBVIOUS
<1>1. ASSUME NEW ek \in BOOLEAN, Boot(ek) PROVE ConfigInv'
  BY <1>1, BootStep
<1>2. CASE CompleteSetup
  BY <1>2, CompleteSetupStep
<1>3. ASSUME NEW a \in Admins, NEW fields \in AnyRequest(a), Submit(a, fields) PROVE ConfigInv'
  BY <1>3, SubmitStep
<1>4. ASSUME NEW a \in Admins, ReadGoogle(a) PROVE ConfigInv'
  BY <1>4, ReadGoogleStep
<1>5. ASSUME NEW a \in Admins, ReadPassword(a) PROVE ConfigInv'
  BY <1>5, ReadPasswordStep
<1>6. ASSUME NEW a \in Admins, PersistFails(a) PROVE ConfigInv'
  BY <1>6, PersistFailsStep
<1>7. ASSUME NEW a \in Admins, NEW k \in Keys, Persist(a, k) PROVE ConfigInv'
  BY <1>7, PersistStep
<1>8. ASSUME NEW a \in Admins, NEW k \in Keys, Apply(a, k) PROVE ConfigInv'
  BY <1>8, ApplyStep
<1>9. CASE UNCHANGED config
  <2>1. UNCHANGED <<stored, memory, setup, hasKey, update, overlaid, torn, spoiled>>
    BY <1>9 DEF config
  <2>2. \A a \in Admins : PutOk(update[a])' = PutOk(update[a])
    BY <2>1 DEF PutOk, WrittenBy, Refuses
  <2>3. Sound(Idle)' = Sound(Idle)
    BY <2>1 DEF Sound, NewsOf, WrittenBy, LoadedField, After, LoginOpen, Configured, StoredToggle,
                Idle
  <2>4. \A a \in Admins : Sound(update[a])' = Sound(update[a])
    BY <2>1 DEF Sound, NewsOf, WrittenBy, LoadedField, After, LoginOpen, Configured, StoredToggle
  <2>5. ConfigType' /\ (Resting' <=> Resting)
    BY <2>1 DEF ConfigInv, ConfigType, Resting
  <2>6. QED
    BY <2>1, <2>2, <2>3, <2>4, <2>5 DEF ConfigInv
<1>10. QED
  BY <1>1, <1>2, <1>3, <1>4, <1>5, <1>6, <1>7, <1>8, <1>9 DEF ConfigNext

(* MemoryMirrorsRows, for any fields, any number of administrators, any    *)
(* requests and restarts: a field that applies at once has in memory what  *)
(* the next start would make of its row, unless a PUT of this run was      *)
(* torn.                                                                   *)
THEOREM MemoryFollowsRows == ConfigSpec => []MemoryMirrorsRows
<1>1. ConfigInv => MemoryMirrorsRows
  BY IdlePut DEF ConfigInv, MemoryMirrorsRows, Sound, HotKeys
<1>2. QED
  BY <1>1, ConfigInvInit, ConfigInvStep, PTL DEF ConfigSpec

(* LoginMethodRemains: no sequence of PUTs and restarts, none of them torn,*)
(* none without the key and none checked against a toggle that was misread,*)
(* leaves the gateway without a way to log in.                             *)
THEOREM LoginStays == ConfigSpec => []LoginMethodRemains
<1>1. ConfigInv => LoginMethodRemains
  BY IdlePut DEF ConfigInv, LoginMethodRemains, Sound, LoginOpen
<1>2. QED
  BY <1>1, ConfigInvInit, ConfigInvStep, PTL DEF ConfigSpec

-----------------------------------------------------------------------------
(* The guardrails.                                                         *)
ProfileTables == [Profiles -> {"none", "on", "off"}]
RuleTables == [Rules -> {"none"} \cup RuleKinds]

Edits ==
    [pc : {"idle", "clear", "link", "reload", "rules", "store"}, rule : Rules \cup {"none"},
     todo : SUBSET Profiles, alone : BOOLEAN, flag : BOOLEAN,
     profiles : ProfileTables \cup {<<>>}, rules : RuleTables \cup {<<>>}]

AllIdle == \A a \in Admins : edit[a].pc = "idle"

(* A link is one of a rule and a profile that are there.                   *)
TablesSound ==
    /\ profiles \in ProfileTables /\ rules \in RuleTables /\ links \subseteq Rules \X Profiles
    /\ \A l \in links : rules[l[1]] # "none" /\ profiles[l[2]] # "none"

(* What a handler that runs alone has read is still what the tables hold.  *)
EditSound(e) ==
    /\ e.pc \in {"clear", "link"} => e.rule \in Rules
    /\ e.alone /\ e.pc \in {"rules", "store"} => e.profiles = profiles
    /\ e.alone /\ e.pc = "store" => e.rules = rules

Mirrored == engine.profiles = profiles /\ engine.rules = rules /\ engine.links = links

GuardInv ==
    /\ TablesSound
    /\ edit \in [Admins -> Edits] /\ raced \in BOOLEAN /\ booting \in BOOLEAN
    /\ \A a \in Admins : EditSound(edit[a])
    /\ \A a, b \in Admins : edit[a].alone /\ edit[a].pc # "idle" => b = a \/ edit[b].pc = "idle"
    /\ booting => AllIdle
    /\ AllIdle /\ ~raced /\ ~booting => Mirrored

LEMMA NoEditTyped == NoEdit \in Edits /\ NoEdit.pc = "idle"
BY DEF NoEdit, Edits

LEMMA LoadedMirrors ==
    ASSUME TablesSound, NEW flag, NEW s, s = Loaded(flag, profiles, rules, links)
    PROVE  s.profiles = profiles /\ s.rules = rules /\ s.links = links
BY DEF TablesSound, Loaded

(* A handler begins with its first write.  It is alone, or none is.        *)
LEMMA BeginStep ==
    ASSUME GuardInv, NEW a \in Admins, NEW begun \in {"clear", "link", "reload"},
           NEW r \in Rules \cup {"none"}, NEW ps \in SUBSET Profiles, Begin(a, begun, r, ps),
           begun \in {"clear", "link"} => r \in Rules, TablesSound'
    PROVE  GuardInv'
<1>1. PICK alone \in BOOLEAN : alone = (\A b \in Admins \ {a} : edit[b].pc = "idle")
  BY Zenon
<1>2. PICK e : e = [[[[NoEdit EXCEPT !.pc = begun] EXCEPT !.rule = r] EXCEPT !.todo = ps]
                       EXCEPT !.alone = alone]
  OBVIOUS
<1>3. e \in Edits /\ e.pc = begun /\ e.rule = r /\ e.alone = alone
  BY <1>2, NoEditTyped DEF Edits
<1>4. edit' = [b \in Admins |->
                 IF b = a THEN [NoEdit EXCEPT !.pc = begun, !.rule = r, !.todo = ps, !.alone = alone]
                 ELSE [edit[b] EXCEPT !.alone = FALSE]]
  BY <1>1, Zenon DEF Begin
<1>5. /\ edit[a].pc = "idle" /\ ~booting /\ booting' = booting
      /\ raced' = (raced \/ ~(\A b \in Admins \ {a} : edit[b].pc = "idle"))
  BY DEF Begin
<1>6. /\ edit'[a] = e
      /\ \A b \in Admins \ {a} : /\ edit'[b] \in Edits /\ ~edit'[b].alone
                                 /\ edit'[b].pc = edit[b].pc /\ edit'[b].rule = edit[b].rule
  BY <1>2, <1>4, ZenonT(60) DEF GuardInv, Edits
<1>7. edit' \in [Admins -> Edits]
  BY <1>3, <1>4, <1>6
<1>8. raced' \in BOOLEAN /\ booting' \in BOOLEAN /\ ~booting'
  <2>1. raced' \in BOOLEAN
    BY <1>5, Zenon
  <2>2. QED
    BY <1>5, <2>1 DEF GuardInv
<1>9. \A b \in Admins : EditSound(edit[b])'
  <2>1. ASSUME NEW b \in Admins \ {a} PROVE EditSound(edit[b])'
    BY <1>6 DEF GuardInv, EditSound
  <2>2. EditSound(edit[a])'
    BY <1>3, <1>6 DEF EditSound
  <2>3. QED
    BY <2>1, <2>2
<1>10. \A b, c \in Admins : edit'[b].alone /\ edit'[b].pc # "idle" => c = b \/ edit'[c].pc = "idle"
  BY <1>1, <1>3, <1>6
<1>11. ~AllIdle'
  BY <1>3, <1>6 DEF AllIdle
<1>12. QED
  BY <1>7, <1>8, <1>9, <1>10, <1>11 DEF GuardInv

(* A later statement of a handler.                                         *)
LEMMA EditStep ==
    ASSUME GuardInv, NEW a \in Admins, NEW e \in Edits, edit[a].pc # "idle",
           edit' = [edit EXCEPT ![a] = e], UNCHANGED <<profiles, rules, engine, raced, booting>>,
           TablesSound', e.pc # "idle", e.alone = edit[a].alone, EditSound(e)
    PROVE  GuardInv'
<1>1. edit' \in [Admins -> Edits] /\ edit'[a] = e /\ \A b \in Admins \ {a} : edit'[b] = edit[b]
  BY DEF GuardInv
<1>2. ~booting' /\ ~AllIdle' /\ raced' \in BOOLEAN
  BY <1>1 DEF GuardInv, AllIdle
<1>3. \A b \in Admins : EditSound(edit[b])'
  BY <1>1 DEF GuardInv, EditSound
<1>4. \A b, c \in Admins : edit'[b].alone /\ edit'[b].pc # "idle" => c = b \/ edit'[c].pc = "idle"
  BY <1>1 DEF GuardInv
<1>5. QED
  BY <1>1, <1>2, <1>3, <1>4 DEF GuardInv

(* A handler ends: alone with the tables in the engine, or raced.          *)
LEMMA EndStep ==
    ASSUME GuardInv, NEW a \in Admins, edit[a].pc # "idle", edit' = [edit EXCEPT ![a] = NoEdit],
           UNCHANGED <<profiles, rules, links, booting>>, raced' \in BOOLEAN, raced' \/ Mirrored'
    PROVE  GuardInv'
<1>1. /\ edit' \in [Admins -> Edits] /\ edit'[a] = NoEdit
      /\ \A b \in Admins \ {a} : edit'[b] = edit[b]
  BY NoEditTyped DEF GuardInv
<1>2. ~booting' /\ TablesSound'
  BY DEF GuardInv, AllIdle, TablesSound
<1>3. \A b \in Admins : EditSound(edit[b])'
  BY <1>1, NoEditTyped DEF GuardInv, EditSound
<1>4. \A b, c \in Admins : edit'[b].alone /\ edit'[b].pc # "idle" => c = b \/ edit'[c].pc = "idle"
  BY <1>1, NoEditTyped DEF GuardInv
<1>5. QED
  BY <1>1, <1>2, <1>3, <1>4 DEF GuardInv

LEMMA GuardInvInit == GuardrailsInit => GuardInv
<1> SUFFICES ASSUME GuardrailsInit PROVE GuardInv
  OBVIOUS
<1>1. TablesSound
  BY GuardrailsAssumption DEF GuardrailsInit, TablesSound, ProfileTables, RuleTables
<1>2. Mirrored
  BY <1>1, LoadedMirrors DEF GuardrailsInit, Mirrored
<1>3. /\ edit \in [Admins -> Edits] /\ AllIdle
      /\ raced = FALSE /\ booting = FALSE
  BY NoEditTyped DEF GuardrailsInit, AllIdle
<1>4. \A a \in Admins : EditSound(edit[a])
  BY <1>3 DEF AllIdle, EditSound
<1>5. QED
  BY <1>1, <1>2, <1>3, <1>4 DEF GuardInv, AllIdle

LEMMA GuardInvStep ==
    GuardInv /\ [GuardrailsNext(AnyRequest)]_<<config, guardrails>> => GuardInv'
<1> SUFFICES ASSUME GuardInv, [GuardrailsNext(AnyRequest)]_<<config, guardrails>> PROVE GuardInv'
  OBVIOUS
<1>1. CASE ConfigStep(AnyRequest)
  <2>1. /\ ~booting /\ UNCHANGED <<profiles, rules, links, engine, raced>>
        /\ \/ booting' = TRUE /\ edit' = [a \in Admins |-> NoEdit]
           \/ UNCHANGED <<booting, edit>>
    BY <1>1 DEF ConfigStep
  <2>2. CASE booting' = TRUE /\ edit' = [a \in Admins |-> NoEdit]
    BY <2>1, <2>2, NoEditTyped DEF GuardInv, TablesSound, EditSound, AllIdle
  <2>3. CASE UNCHANGED <<booting, edit>>
    BY <2>1, <2>3 DEF GuardInv, TablesSound, EditSound, AllIdle, Mirrored
  <2>4. QED
    BY <2>1, <2>2, <2>3
<1>2. CASE StartEngine
  <2>1. /\ booting /\ booting' = FALSE /\ raced' = FALSE
        /\ engine' = Loaded(Flag, profiles, rules, links)
        /\ UNCHANGED <<profiles, rules, links, edit>>
    BY <1>2 DEF StartEngine
  <2>2. PICK s : s = Loaded(Flag, profiles, rules, links)
    OBVIOUS
  <2>3. s.profiles = profiles /\ s.rules = rules /\ s.links = links
    BY <2>2, LoadedMirrors DEF GuardInv
  <2>4. Mirrored'
    BY <2>1, <2>2, <2>3 DEF Mirrored
  <2>5. QED
    BY <2>1, <2>4 DEF GuardInv, TablesSound, EditSound, AllIdle
<1>3. ASSUME NEW a \in Admins, NEW p \in Profiles, create_profile(a, p) PROVE GuardInv'
  <2>1. TablesSound'
    BY <1>3 DEF create_profile, GuardInv, TablesSound, ProfileTables
  <2>2. QED
    BY <1>3, <2>1, BeginStep DEF create_profile
<1>4. ASSUME NEW a \in Admins, NEW p \in Profiles, update_profile(a, p) PROVE GuardInv'
  <2>1. TablesSound'
    BY <1>4 DEF update_profile, GuardInv, TablesSound, ProfileTables
  <2>2. QED
    BY <1>4, <2>1, BeginStep DEF update_profile
<1>5. ASSUME NEW a \in Admins, NEW p \in Profiles, delete_profile(a, p) PROVE GuardInv'
  <2>1. TablesSound'
    BY <1>5 DEF delete_profile, GuardInv, TablesSound, ProfileTables
  <2>2. QED
    BY <1>5, <2>1, BeginStep DEF delete_profile
<1>6. ASSUME NEW a \in Admins, NEW p \in Profiles, LinkProfile(a, p) PROVE GuardInv'
  <2>1. PICK e : e = [[edit[a] EXCEPT !.todo = edit[a].todo \ {p}]
                         EXCEPT !.pc = IF edit[a].todo = {p} THEN "reload" ELSE "link"]
    OBVIOUS
  <2>2. edit[a] \in Edits /\ edit[a].pc = "link" /\ EditSound(edit[a]) /\ edit[a].rule \in Rules
    BY <1>6 DEF LinkProfile, GuardInv, EditSound
  <2>3. /\ e \in Edits /\ e.alone = edit[a].alone /\ e.pc \in {"reload", "link"}
        /\ e.rule = edit[a].rule
    BY <2>1, <2>2 DEF Edits
  <2>4. edit' = [edit EXCEPT ![a] = e]
    BY <1>6, <2>1 DEF LinkProfile, GuardInv, Edits
  <2>5. EditSound(e)
    BY <2>2, <2>3 DEF EditSound
  <2>6. TablesSound'
    BY <1>6, <2>2 DEF LinkProfile, GuardInv, TablesSound
  <2>7. UNCHANGED <<profiles, rules, engine, raced, booting>>
    BY <1>6 DEF LinkProfile
  <2>8. QED
    BY <2>2, <2>3, <2>4, <2>5, <2>6, <2>7, EditStep
<1>7. ASSUME NEW a \in Admins, NEW r \in Rules, NEW ps \in SUBSET Profiles, NEW kind \in RuleKinds,
             create_rule(a, r, kind, ps)
      PROVE  GuardInv'
  <2>1. TablesSound'
    BY <1>7, GuardrailsAssumption DEF create_rule, GuardInv, TablesSound, RuleTables
  <2>2. PICK begun \in {"reload", "link"} : Begin(a, begun, r, ps)
    BY <1>7 DEF create_rule
  <2>3. QED
    BY <2>1, <2>2, BeginStep
<1>8. ASSUME NEW a \in Admins, NEW r \in Rules, NEW ps \in SUBSET Profiles, NEW kind \in RuleKinds,
             update_rule(a, r, kind, ps)
      PROVE  GuardInv'
  <2>1. TablesSound'
    BY <1>8, GuardrailsAssumption DEF update_rule, GuardInv, TablesSound, RuleTables
  <2>2. QED
    BY <1>8, <2>1, BeginStep DEF update_rule
<1>9. ASSUME NEW a \in Admins, NEW r \in Rules, delete_rule(a, r) PROVE GuardInv'
  <2>1. TablesSound'
    BY <1>9 DEF delete_rule, GuardInv, TablesSound, RuleTables
  <2>2. QED
    BY <1>9, <2>1, BeginStep DEF delete_rule
<1>10. ASSUME NEW a \in Admins, ClearLinks(a) PROVE GuardInv'
  <2>1. PICK e : e = [edit[a] EXCEPT !.pc = IF edit[a].todo = {} THEN "reload" ELSE "link"]
    OBVIOUS
  <2>2. edit[a] \in Edits /\ edit[a].pc = "clear" /\ EditSound(edit[a]) /\ edit[a].rule \in Rules
    BY <1>10 DEF ClearLinks, GuardInv, EditSound
  <2>3. /\ e \in Edits /\ e.alone = edit[a].alone /\ e.pc \in {"reload", "link"}
        /\ e.rule = edit[a].rule
    BY <2>1, <2>2 DEF Edits
  <2>4. edit' = [edit EXCEPT ![a] = e]
    BY <1>10, <2>1 DEF ClearLinks, GuardInv, Edits
  <2>5. EditSound(e)
    BY <2>2, <2>3 DEF EditSound
  <2>6. TablesSound'
    BY <1>10 DEF ClearLinks, GuardInv, TablesSound
  <2>7. UNCHANGED <<profiles, rules, engine, raced, booting>>
    BY <1>10 DEF ClearLinks
  <2>8. QED
    BY <2>2, <2>3, <2>4, <2>5, <2>6, <2>7, EditStep
<1>11. ASSUME NEW a \in Admins, EditFails(a) PROVE GuardInv'
  <2>1. /\ edit[a].pc # "idle" /\ edit' = [edit EXCEPT ![a] = NoEdit] /\ raced' = TRUE
        /\ UNCHANGED <<profiles, rules, links, booting>>
    BY <1>11 DEF EditFails
  <2>2. QED
    BY <2>1, EndStep
<1>12. ASSUME NEW a \in Admins, ReadFlag(a) PROVE GuardInv'
  <2>1. PICK f \in BOOLEAN : f = Flag
    BY Zenon DEF Flag
  <2>2. PICK e : e = [[[edit[a] EXCEPT !.pc = "rules"] EXCEPT !.flag = f] EXCEPT !.profiles = profiles]
    OBVIOUS
  <2>3. edit[a] \in Edits /\ edit[a].pc = "reload"
    BY <1>12 DEF ReadFlag, GuardInv
  <2>4. e \in Edits /\ e.alone = edit[a].alone /\ e.pc = "rules" /\ e.profiles = profiles
    BY <2>2, <2>3 DEF Edits, GuardInv, TablesSound
  <2>5. edit' = [edit EXCEPT ![a].pc = "rules", ![a].flag = f, ![a].profiles = profiles]
    BY <1>12, <2>1, Zenon DEF ReadFlag
  <2>6. edit' = [edit EXCEPT ![a] = e]
    BY <2>2, <2>5 DEF GuardInv, Edits
  <2>7. EditSound(e)
    BY <2>4 DEF EditSound
  <2>8. UNCHANGED <<profiles, rules, links, engine, raced, booting>>
    BY <1>12 DEF ReadFlag
  <2>9. TablesSound'
    BY <2>8 DEF GuardInv, TablesSound
  <2>10. QED
    BY <2>3, <2>4, <2>6, <2>7, <2>8, <2>9, EditStep
<1>13. ASSUME NEW a \in Admins, ReadRules(a) PROVE GuardInv'
  <2>1. PICK e : e = [[edit[a] EXCEPT !.pc = "store"] EXCEPT !.rules = rules]
    OBVIOUS
  <2>2. edit[a] \in Edits /\ edit[a].pc = "rules" /\ EditSound(edit[a])
    BY <1>13 DEF ReadRules, GuardInv
  <2>3. /\ e \in Edits /\ e.alone = edit[a].alone /\ e.pc = "store" /\ e.rules = rules
        /\ e.profiles = edit[a].profiles
    BY <2>1, <2>2 DEF Edits, GuardInv, TablesSound
  <2>4. edit' = [edit EXCEPT ![a] = e]
    BY <1>13, <2>1 DEF ReadRules, GuardInv, Edits
  <2>5. EditSound(e)
    BY <2>2, <2>3 DEF EditSound
  <2>6. UNCHANGED <<profiles, rules, links, engine, raced, booting>>
    BY <1>13 DEF ReadRules
  <2>7. TablesSound'
    BY <2>6 DEF GuardInv, TablesSound
  <2>8. QED
    BY <2>2, <2>3, <2>4, <2>5, <2>6, <2>7, EditStep
<1>14. ASSUME NEW a \in Admins, StoreSnapshot(a) PROVE GuardInv'
  <2>1. /\ edit[a].pc = "store" /\ raced' = ~edit[a].alone
        /\ engine' = Loaded(edit[a].flag, edit[a].profiles, edit[a].rules, links)
        /\ edit' = [edit EXCEPT ![a] = NoEdit] /\ UNCHANGED <<profiles, rules, links, booting>>
    BY <1>14 DEF StoreSnapshot
  <2>2. edit[a].alone \in BOOLEAN /\ EditSound(edit[a])
    BY DEF GuardInv, Edits
  <2>3. ASSUME edit[a].alone PROVE Mirrored'
    <3>1. edit[a].profiles = profiles /\ edit[a].rules = rules
      BY <2>1, <2>2, <2>3 DEF EditSound
    <3>2. PICK flag : flag = edit[a].flag
      OBVIOUS
    <3>3. PICK s : s = Loaded(flag, profiles, rules, links)
      OBVIOUS
    <3>4. s.profiles = profiles /\ s.rules = rules /\ s.links = links
      BY <3>3, LoadedMirrors DEF GuardInv
    <3>5. QED
      BY <2>1, <3>1, <3>2, <3>3, <3>4 DEF Mirrored
  <2>4. raced' \in BOOLEAN /\ (raced' \/ Mirrored')
    BY <2>1, <2>2, <2>3
  <2>5. QED
    BY <2>1, <2>4, EndStep
<1>15. CASE UNCHANGED <<config, guardrails>>
  BY <1>15 DEF guardrails, GuardInv, TablesSound, EditSound, AllIdle, Mirrored
<1>16. QED
  BY <1>1, <1>2, <1>3, <1>4, <1>5, <1>6, <1>7, <1>8, <1>9, <1>10, <1>11, <1>12, <1>13, <1>14, <1>15
  DEF GuardrailsNext

(* GuardrailsEnforced, for any profiles, rules, links, administrators and  *)
(* answers: between handlers none of which raced or failed, the engine has *)
(* the tables, and content is blocked exactly when a linked profile that   *)
(* is on intervenes.                                                       *)
THEOREM TablesEnforced == GuardrailsSpec => []GuardrailsEnforced
<1>1. ASSUME GuardInv, Quiet, ~raced PROVE Mirrored /\ TablesSound
  BY <1>1 DEF GuardInv, Quiet, AllIdle
<1>2. ASSUME GuardInv PROVE InterventionBlocks
  <2> SUFFICES ASSUME Quiet, ~raced, Flag, engine.enabled, NEW direction \in {"input", "output"},
                      NEW answers \in [Profiles -> Answers]
               PROVE  Checked(direction, Rules, answers) = "blocked"
                      <=> \E l \in links : /\ answers[l[2]] = "intervened"
                                           /\ profiles[l[2]] = "on"
                                           /\ Applies(rules[l[1]], direction)
    BY DEF InterventionBlocks
  <2>1. /\ engine.profiles = profiles /\ engine.rules = rules /\ engine.links = links
        /\ links \subseteq Rules \X Profiles
    BY <1>1, <1>2 DEF Mirrored, TablesSound
  <2> DEFINE asked == {p \in Profiles : profiles[p] = "on" /\ \E r \in Rules :
                          Applies(rules[r], direction) /\ <<r, p>> \in links}
             blocks == \E p \in {p \in asked : parse_response(answers[p])} :
                          answers[p] = "intervened"
  <2>2. Checked(direction, Rules, answers) = IF blocks THEN "blocked" ELSE "passed"
    BY <2>1 DEF Checked, Verdict
  <2>3. blocks <=> \E p \in asked : answers[p] = "intervened"
    BY DEF parse_response
  <2>4. \A l \in links : l = <<l[1], l[2]>> /\ l[1] \in Rules /\ l[2] \in Profiles
    BY <2>1
  <2>5. (\E p \in asked : answers[p] = "intervened")
        <=> \E l \in links : /\ answers[l[2]] = "intervened"
                             /\ profiles[l[2]] = "on"
                             /\ Applies(rules[l[1]], direction)
    <3>1. ASSUME NEW p \in asked, answers[p] = "intervened"
          PROVE  \E l \in links : /\ answers[l[2]] = "intervened"
                                  /\ profiles[l[2]] = "on"
                                  /\ Applies(rules[l[1]], direction)
      BY <3>1
    <3>2. ASSUME NEW l \in links, answers[l[2]] = "intervened", profiles[l[2]] = "on",
                 Applies(rules[l[1]], direction)
          PROVE  \E p \in asked : answers[p] = "intervened"
      BY <2>4, <3>2
    <3>3. QED
      BY <3>1, <3>2
  <2>6. QED
    BY <2>2, <2>3, <2>5
<1>3. GuardInv => GuardrailsEnforced
  BY <1>1, <1>2 DEF GuardrailsEnforced, EngineMirrorsTables, Mirrored
<1>4. QED
  BY <1>3, GuardInvInit, GuardInvStep, PTL DEF GuardrailsSpec

-----------------------------------------------------------------------------
(***************************************************************************)
(* The Kiro token manager, for any number of concurrent calls and any      *)
(* threshold and token lifetime.                                           *)
(***************************************************************************)
(* A refresh that reached its stores has a TokenData to store.             *)
Delivered ==
    \A r \in Callers :
        pc[r] \in {"set_token", "set_expiry", "set_refresh"} => fetched[r] # None

TypeInv == TypeOK /\ Delivered

(* Of two calls in line for credentials.write() one is behind the other,   *)
(* and a call that holds the lock is behind nobody.                        *)
LockInv ==
    /\ \A r \in Callers : pc[r] \in Holding => ahead[r] = {}
    /\ \A r, s \in InLine : r # s => r \in ahead[s] \/ s \in ahead[r]

(* Nothing is dated later than one lifetime from now, nor looked at later  *)
(* than now.                                                               *)
ClockInv ==
    /\ \A r \in Callers : checked[r] <= now
    /\ access_token # None => /\ access_token.exp <= now + Lifetime
                              /\ access_token.id <= issued

(* A token on its way to the store is newer than the one stored.           *)
FetchInv ==
    \A r \in Callers : pc[r] = "set_token" =>
        /\ fetched[r].token.exp <= now + Lifetime
        /\ fetched[r].token.exp > checked[r]
        /\ fetched[r].token.id <= issued
        /\ access_token # None => /\ fetched[r].token.exp >= access_token.exp
                                  /\ fetched[r].token.id > access_token.id

(* Past its first store a refresh finds in the store a token that outlives *)
(* the caller's last look at the clock.                                    *)
StoredInv ==
    \A r \in Callers :
        /\ pc[r] \in {"set_expiry", "set_refresh"} =>
               /\ access_token # None
               /\ access_token.exp > checked[r]
        /\ pc[r] = "set_expiry" => access_token = fetched[r].token

DataInv ==
    /\ ClockInv
    /\ FetchInv
    /\ StoredInv
    /\ ExpiryNeverOverstates
    /\ ServedTokenWasLive

-----------------------------------------------------------------------------
(* Every step of every call, of the clock and of the web UI keeps the      *)
(* types.                                                                  *)
LEMMA TypeStep == TypeInv /\ [Next]_vars => TypeInv'
<1> SUFFICES ASSUME TypeInv, [Next]_vars PROVE TypeInv'
  OBVIOUS
<1>1. CASE \E r \in Callers : Call(r)
  BY <1>1 DEF Call, Goto, store, idp, TypeInv, TypeOK, Delivered, Stages
<1>2. CASE \E r \in Callers : Check(r)
  BY <1>2 DEF Check, Goto, Look, store, idp, TypeInv, TypeOK, Delivered, Stages
<1>3. CASE \E r \in Callers : Recheck(r)
  BY <1>3 DEF Recheck, Goto, Look, InLine, store, idp, TypeInv, TypeOK, Delivered, Stages
<1>4. CASE \E r \in Callers : Acquire(r)
  BY <1>4 DEF Acquire, Goto, store, idp, TypeInv, TypeOK, Delivered, Stages
<1>5. ASSUME NEW r \in Callers, Granted(r) PROVE TypeInv'
  <2> DEFINE Answer(rotated) ==
        [token |-> [id |-> issued + 1, exp |-> now + Lifetime],
         refresh |-> IF rotated THEN issued + 1 ELSE None]
  <2>1. PICK rotated \in BOOLEAN :
           /\ fetched' = [fetched EXCEPT ![r] = Answer(rotated)]
           /\ valid' = IF rotated THEN (valid \ {refresh_token}) \cup {issued + 1}
                                  ELSE valid
    BY <1>5 DEF Granted
  <2>2. Answer(rotated) \in TokenData
    BY LifetimeAssumption DEF TypeInv, TypeOK, Token, TokenData
  <2>3. Answer(rotated) # None
    BY <2>2, NoneAssumption
  <2> HIDE DEF Answer
  <2>4. TypeOK'
    BY <1>5, <2>1, <2>2 DEF Granted, Goto, store, TypeInv, TypeOK, Stages
  <2>5. Delivered'
    BY <1>5, <2>1, <2>3 DEF Granted, Goto, TypeInv, TypeOK, Delivered
  <2> QED
    BY <2>4, <2>5 DEF TypeInv
<1>6. CASE \E r \in Callers : AttemptFails(r)
  BY <1>6 DEF AttemptFails, Goto, Release, store, idp, TypeInv, TypeOK, Delivered, Stages
<1>7. CASE \E r \in Callers : AttemptRejected(r)
  BY <1>7 DEF AttemptRejected, Goto, store, idp, TypeInv, TypeOK, Delivered, Stages
<1>8. CASE \E r \in Callers : Reload(r)
  BY <1>8 DEF Reload, Goto, Release, store, idp, TypeInv, TypeOK, Delivered, Stages
<1>9. CASE \E r \in Callers : RetryFails(r)
  BY <1>9 DEF RetryFails, Goto, Release, store, idp, TypeInv, TypeOK, Delivered, Stages
<1>10. CASE \E r \in Callers : SetToken(r)
  BY <1>10 DEF SetToken, Goto, store, idp, TypeInv, TypeOK, Delivered,
     Stages, Token, TokenData
<1>11. CASE \E r \in Callers : SetExpiry(r)
  BY <1>11 DEF SetExpiry, Goto, store, idp, TypeInv, TypeOK, Delivered,
     Stages, Token, TokenData
<1>12. CASE \E r \in Callers : SetRefresh(r)
  BY <1>12 DEF SetRefresh, Goto, Release, store, idp, TypeInv, TypeOK,
     Delivered, Stages, Token, TokenData
<1>13. CASE \E r \in Callers : Degrade(r)
  BY <1>13 DEF Degrade, Goto, Look, Leave, store, idp, TypeInv, TypeOK, Delivered, Stages
<1>14. CASE \E r \in Callers : Return(r)
  BY <1>14 DEF Return, Goto, Leave, store, idp, TypeInv, TypeOK, Delivered, Stages
<1>15. CASE \E r \in Callers : Cancel(r)
  BY <1>15 DEF Cancel, Goto, Release, Leave, store, idp, TypeInv, TypeOK,
     Delivered, Stages
<1>16. CASE StoreCredentials
  BY <1>16 DEF StoreCredentials, idp, TypeInv, TypeOK, Delivered
<1>17. CASE Tick
  BY <1>17 DEF Tick, store, idp, TypeInv, TypeOK, Delivered
<1>18. CASE UNCHANGED vars
  BY <1>18 DEF vars, TypeInv, TypeOK, Delivered
<1> QED
  BY <1>1, <1>2, <1>3, <1>4, <1>5, <1>6, <1>7, <1>8, <1>9, <1>10, <1>11,
     <1>12, <1>13, <1>14, <1>15, <1>16, <1>17, <1>18 DEF Next, Step

(* The token manager's state always has its declared types.                *)
THEOREM TypeCorrect == Spec => []TypeOK
<1>1. Init => TypeInv
  BY DEF Init, TypeInv, TypeOK, Delivered, Stages
<1>2. TypeInv => TypeOK
  BY DEF TypeInv
<1> QED
  BY <1>1, <1>2, TypeStep, PTL DEF Spec

-----------------------------------------------------------------------------
(* The queue for credentials.write() stays a line: joining it puts a call  *)
(* behind everybody in it, and only the front of the line may start.       *)
LEMMA LockStep == TypeOK /\ LockInv /\ [Next]_vars => LockInv'
<1> SUFFICES ASSUME TypeOK, LockInv, [Next]_vars PROVE LockInv'
  OBVIOUS
<1>1. CASE \E r \in Callers : Call(r)
  BY <1>1 DEF Call, Goto, store, idp, TypeOK, LockInv, InLine, Holding
<1>2. CASE \E r \in Callers : Check(r)
  BY <1>2 DEF Check, Goto, Look, store, idp, TypeOK, LockInv, InLine, Holding
<1>3. CASE \E r \in Callers : Recheck(r)
  BY <1>3 DEF Recheck, Goto, Look, InLine, store, idp, TypeOK, LockInv, Holding
<1>4. CASE \E r \in Callers : Acquire(r)
  BY <1>4 DEF Acquire, Goto, store, idp, TypeOK, LockInv, InLine, Holding
<1>5. CASE \E r \in Callers : Granted(r)
  BY <1>5 DEF Granted, Goto, idp, store, TypeOK, LockInv, InLine, Holding
<1>6. CASE \E r \in Callers : AttemptFails(r)
  BY <1>6 DEF AttemptFails, Goto, Release, store, idp, TypeOK, LockInv, InLine, Holding
<1>7. CASE \E r \in Callers : AttemptRejected(r)
  BY <1>7 DEF AttemptRejected, Goto, store, idp, TypeOK, LockInv, InLine, Holding
<1>8. CASE \E r \in Callers : Reload(r)
  BY <1>8 DEF Reload, Goto, Release, store, idp, TypeOK, LockInv, InLine, Holding
<1>9. CASE \E r \in Callers : RetryFails(r)
  BY <1>9 DEF RetryFails, Goto, Release, store, idp, TypeOK, LockInv, InLine, Holding
<1>10. CASE \E r \in Callers : SetToken(r)
  BY <1>10 DEF SetToken, Goto, store, idp, TypeOK, LockInv, InLine, Holding
<1>11. CASE \E r \in Callers : SetExpiry(r)
  BY <1>11 DEF SetExpiry, Goto, store, idp, TypeOK, LockInv, InLine, Holding
<1>12. CASE \E r \in Callers : SetRefresh(r)
  BY <1>12 DEF SetRefresh, Goto, Release, store, idp, TypeOK, LockInv, InLine, Holding
<1>13. CASE \E r \in Callers : Degrade(r)
  BY <1>13 DEF Degrade, Goto, Look, Leave, store, idp, TypeOK, LockInv, InLine, Holding
<1>14. CASE \E r \in Callers : Return(r)
  BY <1>14 DEF Return, Goto, Leave, store, idp, TypeOK, LockInv, InLine, Holding
<1>15. CASE \E r \in Callers : Cancel(r)
  BY <1>15 DEF Cancel, Goto, Release, Leave, store, idp, TypeOK, LockInv, InLine, Holding
<1>16. CASE StoreCredentials
  BY <1>16 DEF StoreCredentials, LockInv, InLine
<1>17. CASE Tick
  BY <1>17 DEF Tick, LockInv, InLine
<1>18. CASE UNCHANGED vars
  BY <1>18 DEF vars, LockInv, InLine
<1> QED
  BY <1>1, <1>2, <1>3, <1>4, <1>5, <1>6, <1>7, <1>8, <1>9, <1>10, <1>11,
     <1>12, <1>13, <1>14, <1>15, <1>16, <1>17, <1>18 DEF Next, Step

(* The lock discipline makes refreshes exclusive.                          *)
LEMMA LockExcludes == LockInv => OneRefreshAtATime
BY DEF LockInv, OneRefreshAtATime, InLine

(* "ensures only one refresh occurs at a time" (get_access_token): however *)
(* many calls race, and whichever of them are dropped, at most one talks   *)
(* to the identity provider.                                               *)
THEOREM RefreshesExclude == Spec => []OneRefreshAtATime
<1>1. Init => LockInv
  BY DEF Init, LockInv, InLine, Holding
<1> QED
  BY <1>1, TypeCorrect, LockStep, LockExcludes, PTL DEF Spec

-----------------------------------------------------------------------------
(* The order of the stores, and the lock around them, keep the store       *)
(* consistent with what every call has seen of it.                         *)
LEMMA DataStep ==
    TypeInv /\ TypeInv' /\ LockInv /\ DataInv /\ [Next]_vars => DataInv'
<1> SUFFICES ASSUME TypeInv, TypeInv', OneRefreshAtATime, DataInv, [Next]_vars
             PROVE DataInv'
  BY LockExcludes
<1> USE LifetimeAssumption, ThresholdAssumption, NoneAssumption
        DEF TypeInv, TypeOK, Delivered, Token, TokenData, Holding, OneRefreshAtATime,
            DataInv, ClockInv, FetchInv, StoredInv, ExpiryNeverOverstates,
            ServedTokenWasLive
<1>1. CASE \E r \in Callers : Call(r)
  BY <1>1 DEF Call, Goto, store, idp
<1>2. CASE \E r \in Callers : Check(r)
  BY <1>2 DEF Check, Goto, Look, store, idp, is_token_expiring_soon
<1>3. CASE \E r \in Callers : Recheck(r)
  BY <1>3 DEF Recheck, Goto, Look, store, idp, is_token_expiring_soon
<1>4. CASE \E r \in Callers : Acquire(r)
  BY <1>4 DEF Acquire, Goto, store, idp
<1>5. CASE \E r \in Callers : Granted(r)
  BY <1>5 DEF Granted, Goto, store, idp
<1>6. CASE \E r \in Callers : AttemptFails(r)
  BY <1>6 DEF AttemptFails, Goto, store, idp
<1>7. CASE \E r \in Callers : AttemptRejected(r)
  BY <1>7 DEF AttemptRejected, Goto, store, idp
<1>8. CASE \E r \in Callers : Reload(r)
  BY <1>8 DEF Reload, Goto, store, idp
<1>9. CASE \E r \in Callers : RetryFails(r)
  BY <1>9 DEF RetryFails, Goto, store, idp
<1>10. CASE \E r \in Callers : SetToken(r)
  BY <1>10 DEF SetToken, Goto, store, idp
<1>11. CASE \E r \in Callers : SetExpiry(r)
  BY <1>11 DEF SetExpiry, Goto, store, idp
<1>12. CASE \E r \in Callers : SetRefresh(r)
  BY <1>12 DEF SetRefresh, Goto, store, idp
<1>13. CASE \E r \in Callers : Degrade(r)
  BY <1>13 DEF Degrade, Goto, Look, Leave, store, idp, is_token_expired
<1>14. CASE \E r \in Callers : Return(r)
  BY <1>14 DEF Return, Goto, Leave, store, idp
<1>15. CASE \E r \in Callers : Cancel(r)
  BY <1>15 DEF Cancel, Goto, Leave, store, idp
<1>16. CASE StoreCredentials
  BY <1>16 DEF StoreCredentials, idp
<1>17. CASE Tick
  BY <1>17 DEF Tick, store, idp
<1>18. CASE UNCHANGED vars
  BY <1>18 DEF vars
<1> QED
  BY <1>1, <1>2, <1>3, <1>4, <1>5, <1>6, <1>7, <1>8, <1>9, <1>10, <1>11,
     <1>12, <1>13, <1>14, <1>15, <1>16, <1>17, <1>18 DEF Next, Step

(* The three parts together, for every reachable state.                    *)
LEMMA Invariance == Spec => [](TypeInv /\ LockInv /\ DataInv)
<1>1. Init => TypeInv /\ LockInv /\ DataInv
  BY DEF Init, TypeInv, TypeOK, Delivered, Stages, LockInv, InLine, Holding, DataInv,
         ClockInv, FetchInv, StoredInv, ExpiryNeverOverstates, ServedTokenWasLive
<1>2. TypeInv /\ LockInv /\ [Next]_vars => LockInv'
  BY LockStep DEF TypeInv
<1> QED
  BY <1>1, <1>2, TypeStep, DataStep, PTL DEF Spec

(* expires_at never promises more life than the stored access token has,   *)
(* also when a refresh is dropped between its two stores.                  *)
THEOREM ExpirySafe == Spec => []ExpiryNeverOverstates
<1>1. DataInv => ExpiryNeverOverstates
  BY DEF DataInv
<1> QED
  BY <1>1, Invariance, PTL

(* get_access_token never returns a token that had expired when the call   *)
(* last looked at the clock.                                               *)
THEOREM ServedLive == Spec => []ServedTokenWasLive
<1>1. DataInv => ServedTokenWasLive
  BY DEF DataInv
<1> QED
  BY <1>1, Invariance, PTL

(* refresh_token never replaces the shared token by an older one.          *)
THEOREM TokensMoveForward == Spec => TokenNeverGoesBack
<1>1. ASSUME TypeInv, DataInv, [Next]_vars, access_token # None,
             access_token' # access_token
      PROVE  access_token'.id >= access_token.id
  <2>1. PICK r \in Callers : SetToken(r)
    BY <1>1 DEF Next, Step, vars, store, Call, Check, Recheck, Acquire, Granted,
         AttemptFails, AttemptRejected, Reload, RetryFails, SetExpiry, SetRefresh,
         Degrade, Return, Cancel, StoreCredentials, Tick
  <2>2. fetched[r].token.id > access_token.id
    BY <1>1, <2>1 DEF SetToken, DataInv, FetchInv
  <2>3. fetched[r].token.id \in Nat /\ access_token.id \in Nat
    BY <1>1, <2>1 DEF SetToken, TypeInv, TypeOK, Delivered, Token, TokenData
  <2> QED
    BY <2>1, <2>2, <2>3 DEF SetToken
<1>2. TypeInv /\ DataInv /\ [Next]_vars
        => [access_token # None => access_token'.id >= access_token.id]_access_token
  BY <1>1
<1> QED
  BY <1>2, Invariance, PTL DEF Spec, TokenNeverGoesBack
=============================================================================
