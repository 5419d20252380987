# rkgw: a TLA+ model of the gateway

rkgw is a gateway in Rust (axum, tokio, PostgreSQL) that offers the OpenAI, Anthropic and
Responses APIs and forwards each request to Kiro or to a direct provider (Anthropic, OpenAI
Codex, Copilot, Huawei MaaS) with credentials of the user or of an admin pool. This directory
models the parts of `src/backend` that keep state several actors change, or that rewrite
conversations and streams on their way through.

Paths below are relative to `src/backend/src/`.

## 1. Inventory

| Component | State | Operations | What makes it hard | What makes it correct | Modules |
|---|---|---|---|---|---|
| Kiro token manager (`auth/`) | access token, expiry, credentials, each behind its own tokio lock | `get_access_token`, `refresh_token`, reload from the database | every request may refresh; three separate stores; requests dropped at an await | no expired token is served, no store goes back, every call returns | AuthManager |
| OAuth tokens of direct providers (`providers/registry.rs`, `web_ui/provider_oauth.rs`) | `user_provider_tokens`, credential cache, a refresh mutex per (user, provider) | `ensure_fresh_token`, resolution, connect, disconnect | single-use refresh tokens; cache fills racing invalidations; no HTTP timeout | a rotated token is never lost silently, staleness is bounded | ProviderTokens |
| Provider routing and switch (`providers/registry.rs`) | `disabled_providers` (RwLock), `provider_settings`, credential cache | resolve, toggle, start-up load | nested read guards, writers in between; two stores per toggle | a disabled provider gets no request; memory and database agree | ProviderRouting |
| Rate limits and failover (`providers/rate_limiter.rs`, `routes/pipeline.rs`, `web_ui/admin_pool.rs`) | limits, remaining and `limited_until` per account; the pool and the priorities | resolution, `mark_limited`, `update_from_headers`, the attempt loop, pages that edit accounts | answers in any order; tables read one after the other | the best available account is used, none that was gone all along | AccountFailover |
| Usage accounting (`routes/pipeline.rs`, `routes/responses.rs`) | line buffer and counters of a stream, `usage_records` | wrap, observe, finalize, insert | chunk boundaries, consumers that stop early, dropped bodies | what is recorded is what the provider reported where the code looks, once | UsageStream |
| Sessions and users (`web_ui/google_auth.rs`, `session.rs`, `config_api.rs`) | `users`, `sessions`, `session_cache`, allowed domains | both middlewares, role, deletion, reset, logout, cleanup | cache against table | a lost right ends within the session's life and the time its login took; a logout holds | Accounts, SessionAccess |
| API keys and Kiro tokens of users (`middleware/mod.rs`, `web_ui/api_keys.rs`, `user_kiro.rs`) | `api_keys`, `user_kiro_tokens`, two caches | `auth_middleware`, create, revoke, device flow, background refresh | cache fills racing evictions; a snapshot refreshed row by row | a revoked key is refused; a replaced token is served for a bounded time (the limit on keys holds for one page at a time only) | Accounts, KeyAccess |
| Password, second factor, Google login (`web_ui/password_auth.rs`, `google_auth.rs`) | limiter, pending logins, recovery codes, TOTP columns, OAuth states | log in, verify, set up, change password, link | read and write in separate statements; callbacks called twice | attempts are bounded, codes and states work once, nobody is locked out or linked unasked | Accounts, PasswordLogin |
| Database schema (`web_ui/config_db.rs`) | tables, columns, CHECK constraints, versions | 25 migrations | crashes; rows that older releases wrote | every upgrade goes through and serves the queries | Migrations |
| Configuration (`web_ui/routes.rs`, `config_api.rs`, `config.rs`) | table `config`, `Config` in memory | PUT, load at start, setup | rows and fields written one by one | memory mirrors the rows; a login method remains while the reads of the check succeed | Configuration |
| Guardrails (`guardrails/`) | profiles, rules, links, the engine's snapshot | edits, reload, evaluation | reloads race; profiles fail or time out | what is enforced is what is stored; an intervention blocks | Guardrails |
| Provider OAuth relay (`web_ui/provider_oauth.rs`, `proxy_relay.rs`) | pending relays | connect, script, callback | age, cap, repeated callback | a relay token is used once and only fresh | OAuthRelay |
| Proxy tokens (`proxy_token_manager.rs`) | token file, temporary file, credentials in memory | background refresh, relay, save by rename | crash between steps, two writers | the file is always one whole version and holds accepted tokens | ProxyTokens |
| Copilot tokens (`web_ui/copilot_auth.rs`) | device codes, `user_copilot_tokens` | device flow, disconnect, background refresh | snapshot against connect and disconnect | a row belongs to who asked for it | CopilotTokens |
| Model registry (`cache.rs`, `web_ui/model_*.rs`) | table, visibility defaults, copy in memory | populate, hide, delete, reload | reloads empty the copy first | requests see the table once every change has been followed by its reload; hidden models stay hidden | ModelCatalog |
| Responses transformer, cross-format streams, Kiro formatters (`converters/responses_to_chat_completion.rs`, `streaming/`, `thinking_parser.rs`) | phase machines, tool accumulator, thinking parser, open blocks | translate item by item; collect | any order of items, ends anywhere | each stream keeps its protocol, and streaming, collecting and converting agree | ResponsesStream, CrossFormat, KiroStream, StreamFormats, StreamProtocol |
| Kiro event stream (`streaming/mod.rs`) | buffer | find JSON objects between binary frames | cuts anywhere, inside characters too | every object is found once | KiroFrames |
| Request converters (`converters/`) | none | to Kiro; between the three APIs | role alternation, tool pairing, replayed history | nothing said is lost but what the converters drop by name; the provider accepts the result | KiroPayload, RequestFormats |
| Truncation recovery, Kiro client (`truncation.rs`, `http_client.rs`) | caches of cut calls and texts | note, inject, retry | one store for all conversations; several insertions | the notice stands behind what was cut, once | TruncationRecovery |
| Start-up, tokenizer, cost, telemetry, debug log, benches, frontend | – | – | sequential or presentation | – | – |

Interactions. A handler in `routes/` is reached through `auth_middleware` (KeyAccess). It converts
the request (RequestFormats, KiroPayload), injects truncation notices (TruncationRecovery), has the
guardrails look at it (Guardrails) and calls `resolve_provider_routing`, which runs
`ensure_fresh_token` (ProviderTokens) and then the registry's resolution (ProviderRouting,
AccountFailover). The handler sends the request, reports the answer's headers or its 429 to the
tracker, and on a 429 resolves again. A streamed answer is translated (StreamFormats) and goes
through `wrap_stream_with_usage_metrics` (UsageStream) to the client. Requests to Kiro take their
token from `AuthManager` or from the user's row. Administrators' and users' web handlers, reached
through `session_middleware` (SessionAccess), change rows, caches and settings at the same time, and
background tasks refresh tokens, clean up sessions and populate the registry. A handler's future may
be dropped at any `.await` when the client disconnects.

The hazards found while reading are in `PROJECT.json` under `hazards`, each with its line and
the properties that cover it, or the reason why none does.

## 2. Modules

Conventions. A request is a process. What it does between two awaits that can wait on
something shared is one action; the actions of a call are named for their lines. A tokio lock
is first come, first served: `ahead` maps each call (or guard) in line to those it must wait
for, which needs no order on the callers and makes dropping a call a set difference. A
database statement takes effect in one step or fails; a transaction is one step. Strings and secrets
are numbers or model values. Variables commented "history" do not exist in the code: they remember
what a property compares with. Definitions introduced by the comment "Slip:" or named for a
mistake (`..._keeps`, `...Inclusive`) are the code with a plausible slip; no specification uses them:
they serve to show that the properties can fail.

Parts that share no state with each other are checked side by side: the modules `MCAccess`,
`MCStorage`, `MCFlows` and `MCFormats` have a variable `part` that says which one a behaviour is
about, and leave the others at rest. Modules named `...Proofs` hold the theorems (section 4).

### AuthManager (`auth/manager.rs`, `refresh.rs`, `credentials.rs`)

`now` is `Utc::now()`. `access_token`, `expires_at` and `refresh_token` are the fields behind
the three locks; `db_token` is the row `load_from_config_db` reads. `valid` and `issued` belong to
the identity provider: it accepts refresh tokens in `valid` and may rotate. `checked[r]` is the
time at which call r last compared the expiry with the clock.

`get_access_token` is `Call`, `Check`, then `refresh_token` as `Recheck` (before the lock is asked
for), `Acquire`, one of `Granted`, `AttemptFails`, `AttemptRejected` (400 with a database),
`Reload`, again `Granted` or `RetryFails`, and the stores `SetToken`, `SetExpiry`,
`SetRefresh`; then `Degrade` after a failure and `Return`. `Cancel` drops the call anywhere.
An HTTP call answers in one step; the time it takes passes while the call is at its stage.

### ProviderTokens (`providers/registry.rs`, `web_ui/provider_oauth.rs`)

One user, one provider, the default account label. `row` is the row of `user_provider_tokens`,
`cache` the user's `CacheEntry`. `status` is the provider's view of each refresh token. `gone`,
`lost` are history: when a token left the row, whether a rotated token was not stored.
Actions `CacheCheck` to `Invalidate` are `ensure_fresh_token`; `Resolve`, `Fallback`, `Load`,
`Fill` the resolution; `ConnectExchange`, `ConnectUpsert`, `Disconnect`, `UserInvalidate` the
user's handlers. The model assumes that the resolution reaches the single-account fallback, the
only user of the cache.

### ProviderRouting (`providers/registry.rs`, `routes/pipeline.rs`, `web_ui/provider_oauth.rs`)

Tickets stand in line for the RwLock on `disabled_providers`; a request can hold one (`outer`)
and want another (`inner`), an administrator's toggle wants a write ticket. A reader waits for
the writers that came before it, a writer for everyone: tokio's documented policy. Credentials
come and go, so a read of the database finds any set. `enabled_once[r]` records the providers
that were enabled at some moment of request r. `Restart` is the start-up load, which may fail and
then enables everything.

### AccountFailover (`providers/rate_limiter.rs`, `providers/registry.rs`, the handlers)

`states[a]` is the tracker's entry (requests and tokens remaining, `limited_until`), or None when
nothing was recorded. A resolution reads priorities, own accounts, Copilot and the pool in turn
(`ReadPriorities`, `ReadNative`, `ReadCopilot`, `get_admin_pool_accounts`) and then chooses
(`Resolve`, or `ResolveUntracked` when the fallback chose without the tracker). An account without
an entry ranks above every account with one, ties go round robin in the order of collection
(`Order`, `Place`), and the lowest tier that has somebody available is used; when nobody is, the
first candidate. Pages add, disable and remove accounts and change priorities in between. An
attempt ends in `AnswerOk`, `Answer429`, `Last429` or `AnswerError`, or the client leaves.

### UsageStream (`routes/pipeline.rs`, `routes/responses.rs`)

One response. A line is three symbols: first part, second part, newline. Chunks end between any
two symbols, so a line, a counter or (in a `wide` line) a character is cut. `usage` is
`StreamUsageState`, `reader` the buffer of `transform_responses_sse_stream`, which is the
consumer of the tracked stream for `/v1/responses`. A line may have its usage object at the top, where
`UsageMetricEnvelope` looks, or `nested` in another object, as Anthropic's message_start has; such a line is
`Silent`. `stream` tells whether the tracked stream was
polled to its end or dropped before: only the former records usage. A chunk goes through the tracked
stream symbol by symbol (`take_symbol`): a newline takes the line before it out of the buffer.

### Accounts, SessionAccess, KeyAccess (the web UI's sessions, the API's keys)

`Accounts` holds what both share and their queries: `users`, `sessions`, `session_cache`,
`allowed_domains`, each query an operator on the tables. `SessionAccess` is a call of the web UI:
`Present` looks into the cache, `LookupSession`, `LookupUser`, `FillSession` and `ExtendSession` are
the miss, then the handler's own statements (`UpdateRole`, `CountAdmins`, `DemoteSelf`, `DeleteUser`,
`CreateUser`, `ResetPassword`, ...), `Logout`, the hourly cleanup and `RestartWeb`.
`KeyAccess` is a `/v1` request (key from cache or table, token from cache or table), the pages that
create and revoke keys and connect or delete a Kiro token, and the refresh task, which works through
a snapshot of the rows. A login is here what it does to sessions: `ReadRole` reads the role, `OpenRow`
inserts the row after any time the checks of the login took, `CacheSession` caches the role that was read; a
client has the id (`Known`) when that is done. A page that revokes a key may be dropped between the DELETE and
the eviction (`PageDone`). `last_admin`, `held`, `logged_out`, `revoked` and `left` are history.

### PasswordLogin (`web_ui/password_auth.rs`, `web_ui/google_auth.rs`)

One call of each handler, statement by statement: the limiter is read (`LockedOut`), the row, the
password, the limiter again; a pending second factor is read and the pending row deleted, its
owner is read (`ReadOwner`) and the code checked; the session opened at the end has the role the
call read first; a set-up enables, disables and stores the secret in three statements; a Google
callback takes its state, exchanges the code and upserts or links the user. A typed code is a
recovery code, the current code of a secret, or wrong.

### Migrations, Configuration, Guardrails (the database and what is loaded from it)

`Migrations` starts from a database of any release in `Releases` with any rows that release could
write, and runs `run_migrations`: every migration is a transaction, except v3, whose tables are
created one by one. `Crash` may come between any two steps. A CHECK that existing rows break refuses
the migration (`refused`), and the gateway runs without its database.

`Configuration` is PUT /config: validation, the cross-field check, which reads the toggles from
the database and takes a query that fails for a missing row (Google off, passwords on), the rows
one by one, then the fields in memory one by one; and the start, which lays the rows over the
defaults. `spoiled` is history: it says whether a PUT was torn, or checked against a password
toggle that was read as on when it was off. `Guardrails` extends it: handlers change profiles,
rules and links in statements of their own, then reload the engine from three queries; `Verdict`
is the check of a request against the engine's snapshot.

### OAuthRelay, ProxyTokens (`web_ui/provider_oauth.rs`, `proxy_relay.rs`, `proxy_token_manager.rs`)

`OAuthRelay` keeps the pending relays with their age; `relay_callback` takes one out, and the exchange
follows. `ProxyTokens` extends it for a gateway without a database: the exchange's result goes into
the token file under `file_lock` by way of a temporary file; the background refresh holds the lock from
its read to its rename. `CrashRestart` comes anywhere. `origin` remembers which refresh token bought
which.

### CopilotTokens, ModelCatalog

`CopilotTokens` has device codes with owner and age, polls as processes, and the refresh task, which
writes back the rows of a snapshot. `ModelCatalog` has the table, the visibility defaults and the copy
in memory; each handler changes the table and reloads: fetch, clear, insert row by row. A handler can end
between the two: `update_model` writes the flag, then perhaps the name, and returns if that fails;
`apply_all_defaults` returns when a later provider fails (`ApplyFails`); and a client may go away (`Dropped`).
`missed` is history: what went wrong with reloads since the last one that ran alone.

### StreamFormats and StreamProtocol, with ResponsesStream, CrossFormat, KiroStream

`ResponsesStream`, `CrossFormat` and `KiroStream` are the translators as operators: each takes a
state and an item and gives the next state and the events (`Step`). `StreamFormats` runs them: a
provider sends any short sequence of items, a route composes one or two translators, the client
assembles the events. Texts are sequences of symbols, so that a thinking tag can be cut anywhere.

`StreamProtocol` is the abstract specification of what a client may rely on: items open at the next
index, grow while open, are closed with their text, and all are closed at the end. `StreamFormats`
instantiates it with the client's view (`status <- client.status, items <- client.items`), and
`KeepsProtocol` says that every behaviour of every route implements it. `StreamAssumption` says
which routes there are and that `None` is no text, no kind of item and no call.

A provider may send reasoning at any time: OpenAI's in a delta, Anthropic's in a thinking block.
One that comes after the transformer of the Responses API has opened the message (`ReasoningLate`)
is written into the message item, and `KeepsProtocol` says nothing of that stream from there on.
For Anthropic that is every thinking block, since message_start becomes a chunk with the role.
Arguments of a call parse, or do not; of those that do not, `diagnose_json_truncation` finds those
cut whose braces, brackets or quotes are uneven, and "e" stands for a piece where they come out
even.

### KiroFrames, KiroPayload, RequestFormats, TruncationRecovery

`KiroFrames` cuts a wire of objects and binary frames anywhere and feeds the pieces to
`SseParser`; its assumption says what is on the wire: an object begins with one of the parser's
patterns and is well-formed JSON, and no pattern occurs in a frame. A character of several bytes
is two symbols, "lead" and "trail"; a chunk that ends between them has each decoded alone
(`from_utf8_lossy`), as "lost", and `torn` says where. `KiroPayload` converts every short
conversation for Kiro; one turn of each of its loops is an operator of its own (`Unify`,
`Flushed`, `Taken`, `Entered`). A request has no list of tools, an empty one or one of some; a
tool message of OpenAI gives its result as a string or as a list; the text of Anthropic's
tool_result blocks is the message's text too (`extract_text_content`). An OpenAI user message
whose content has tool_result blocks is not among the requests. `RequestFormats` converts between
the three APIs, whole answers included, which the client replays in its next request.
`TruncationRecovery` has the two caches of answers cut short, two clients that replay their
histories and give results of tools as strings or in parts (`Reread` is what the injection makes
of the latter), the injection of notices, and the guardrail check and retries after it.

## 3. Runs

| Run | Result | What it shows |
|---|---|---|
| `request` | pass | two callers of the gateway's own token: one refresh at a time; the stored expiry never exceeds the token's; a served token was live at the last look; the shared token only moves forward; every call returns. For every body of a response and every cut, a recorded row holds the counters reported last at the top of a line (`TopLevelRecorded`), there is one at most, and a stream polled to its end gets one |
| `tokens` | pass | refreshes exclude each other; a rotated refresh token does not stay in the row unless storing its successor failed; a credential that left the database is served from the cache for less than the TTL plus the time a load takes; a request that never ends waits for a token endpoint, directly or behind the mutex |
| `routing` | pass | a chosen provider was enabled at some moment of the request, with two administrators, restarts, and a provider that has no settings row |
| `failover` | pass | each attempt uses the best account available for what the tracker knows, and no account that was disabled or gone during all of its resolution |
| `access` | pass | `RightsExpire`: a cached administrator was one less than a session's life, and the time its login took, ago; `RevocationHolds`: a session logged out, or a key revoked and evicted, while no request was caching it, is not accepted again; `KiroTokenStalenessBounded`: what the cache serves left its row less than the TTL ago |
| `login` | pass | `LockoutBound`: within a window no more wrong passwords than the limit plus the calls under way; `UsedOnce`: recovery codes and OAuth states; `TotpSecretVerified`: no second factor is demanded with a secret nobody has shown to have, a set-up half way excepted; `LinkedByOwner`: no password account opens to Google unasked |
| `storage` | pass | `UpgradeSound`: every upgrade, over crashes, goes through and leaves the tables, columns and provider names the current release uses; `MemoryMirrorsRows`: what runs is what a restart would load; `LoginMethodRemains`, while no PUT is torn or misread; `GuardrailsEnforced`: the engine checks against the tables, and content is blocked exactly when a linked profile intervenes |
| `flows` | pass | `RelaySound`; `TokensAtRest` and `NoLostEntry` for the token file; `ConnectionFollowsUser` for Copilot; `CatalogMirrored` for the model registry, while every change is followed by its reload |
| `formats` | pass | `KeepsProtocol`; `AnswerDelivered`: nothing of an answer is lost, repeated or put elsewhere; `AnswersAgree`: streaming and collecting give the same text and reasoning, and on the Responses API the same calls, of an answer that comes whole; `TruncationRemembered`; `EveryObjectParsed`; `ConversationTold` and `HistoryAccepted` for Kiro; `RequestUnderstood` for the direct providers; `NoticesRight` |
| `routing_stuck` | violation of `EveryRequestResolves` | second read guard under the first, with a toggle between them: nobody proceeds |
| `anthropic_history` | violation of `AssistantTextKept` | assistant text given as a list of parts, the form in which the Responses API replays its own answers, becomes empty on the way to Anthropic |
| `access_roles` | violation of `ChangesEvict` | `evict_user_caches` is to be called after a change of role or a deletion; it is not, and the cache admits what the table no longer does |

The violations are disagreements between the code and its own comments and documents;
`PROJECT.json` quotes both sides under `findings`. Several properties are conjunctions of named
parts; the parts are defined and commented above them. Where a passing property excepts a case,
its comment says which.

### Behaviours worth knowing

These follow from the models or from reading. Either a passing property
excepts them by name, and the specification has the behaviour, or nothing promises otherwise.

- Tokens. A caller that waited for the lock refreshes once more (`auth/manager.rs:211`). Any error
  of a token endpoint deletes the row (`providers/registry.rs:325`). A refresh task writes a row
  back that the user has deleted since its snapshot (Copilot and Kiro). A rotation whose answer is
  lost on the way (`web_ui/provider_oauth.rs:340`) is not modelled: the row then keeps a spent
  token. The cap on pending relays evicts expired ones only.
- Routing and failover. Two toggles of one provider can write the database in one order and memory
  in the other; a provider without a settings row (`huawei_maas`) is disabled in memory only. A
  success sent before a 429 clears the cooldown, so that a retry can return to the account that
  refused; the 429 of the last attempt leaves no mark.
- Usage. `UsageMetricEnvelope` has a usage field at the top only (`routes/pipeline.rs:549`), so the
  input tokens of Anthropic's message_start, in `message.usage`, are passed over, and the row says
  0 or what a later line says. The Responses transform drops the tracked stream at `[DONE]`
  (`routes/responses.rs:415`), and then nothing is recorded. A chunk that ends inside a character
  breaks a response (`routes/responses.rs:386`, `streaming/sse.rs:37`).
- Access. `update_user_role` and `delete_user` evict nothing; a password reset evicts the cached
  session but leaves its row. A request that was looking a key up while it was revoked caches it
  until the next restart, and so does a page dropped between deleting a key and evicting it. A
  login caches the role it read before it checked the password or the code. Two calls can go on
  with one pending second factor, since it is read and deleted in two statements
  (`web_ui/password_auth.rs:332`). Administrators can demote each other. Concurrent pages can pass
  the limit on keys together.
- Configuration. Two PUTs at once, or one that fails half way, can turn both login methods off.
  So can one whose query of `auth_password_enabled` fails: `unwrap_or(None)` and the default make
  that "on" (`web_ui/routes.rs:131`), and turning Google off passes although passwords are off.
- Reloads. `update_model` writes the flag and returns with 404 or 500 when the name cannot be
  written, before its reload (`web_ui/model_registry_handlers.rs:116`); `apply_all_defaults`
  returns when a later provider fails; a client may leave in between. Requests are then checked
  against the old copy until the next reload. Overlapping reloads, of the guardrails or of the
  model registry, can leave the older snapshot; the engine's enabled flag follows the
  configuration only at the next reload.
- Kiro's stream. Each chunk is decoded on its own (`streaming/mod.rs:474`), so a character that the
  transport cuts in two becomes U+FFFD in the event. `diagnose_json_truncation` counts the braces,
  brackets and quotes inside strings too (`truncation.rs:36-125`): arguments cut where they come
  out even, such as `{"a": "}", "b": {}`, become `{}` and leave nothing in the store.
- Requests to Kiro. Tool content is stripped when `tools` is None, and tools are sent when the list
  is not empty (`converters/openai_to_kiro.rs:417`, `531`): with `tools: []` results go to Kiro
  without tools, which the comment at 415 says it rejects. `extract_text_content` takes the text
  of tool_result blocks too (`converters/core.rs:144`), so the results of an Anthropic client that
  lists no tools are told twice, and orphaned ones are read again from the blocks. The result of
  an OpenAI tool message given as a list becomes "(empty result)" (`openai_to_kiro.rs:153`). The
  notice about a cut call replaces a result that is no string (`truncation.rs:294`).
- Reasoning. Once the role, a text or a call has opened the message item, the Responses transformer
  writes a reasoning delta into output index 0, the message
  (`converters/responses_to_chat_completion.rs:1483`), though the comment at 1445 gives reasoning
  an item of its own.
- Formats. `ThinkingParser::finalize` has no caller, so what the parser still holds at the end is
  lost (at most two tags' length). A usage chunk after the finish yields a `message_delta` after
  `message_stop`; a stream without a finish leaves the Anthropic blocks open. A conversation for
  Kiro that ends with an assistant, or has an unknown role between two users, does not alternate.
  The notice of a refused request is lost. After an error of the transport the
  collecting client gets an answer that looks whole (`streaming/mod.rs:2479`), the streaming one
  an error: `AnswersAgree` is about answers that come whole. A system prompt that is a list of
  parts is lost on the way to Anthropic (`converters/openai_to_anthropic.rs:39`);
  `RequestUnderstood` leaves the system prompt aside.

### Bounds

- `MaxTime`, `MaxTokens` cap the clock and the tokens issued. In `request` the lifetime is 2 and the
  threshold 1, so a token is fresh, expiring and expired within the 3 ticks, and two tokens are
  issued: enough for a second caller to refresh what the first has refreshed. A granted lifetime
  is one constant: `expires_in` of the OIDC answer does not shrink from one refresh to the next.
- `tokens`: `Buffer` 1, lifetimes 1 (stale at once) and 3 (fresh), and two tokens, so that a
  refresh or a new connection replaces the first token under another request. `MaxTime` is 2
  against a TTL of 1 and `MaxFill` 1. `MaxFill` names how long a load may take to reach the cache; the
  code sets no limit, and the bound is relative to it.
- `routing`: two requests and two administrators, the native provider with a settings row and
  Copilot without. The lock needs two readers and a writer to show its queue.
- `failover`: an own account, Copilot and a pooled one; two attempts of two requests, one edit by a
  page. `RoundRobin` 2 stands for the counter modulo the number of tied accounts.
- `request`, the bodies: every body of at most three lines out of nine kinds; Anthropic spreads its counters
  over two lines, and the third leaves room for content or `[DONE]`. `MaxI32` 3 stands for
  `i32::MAX`: the lines hold values below, at, and above it, and negative ones.
- `access`: two users, two sessions and two calls for the sessions; one request, two pages, three
  keys or two tokens for the keys. TTLs of 2 and 1 within 2 ticks. `CacheCap` 1 makes the cache
  full. `LoginsApart` keeps each user to one session, and beside logins that open sessions it
  follows lookups, changes of roles and deletions, but no logout, domain, reset or demotion of
  oneself; those run among sessions that are open at the start. `login` has no restart, which
  would empty the limiter.
- `login`: one user with two passwords and two secrets, two calls at once, one recovery code, one
  state; limit and windows of 1.
- `storage`: six releases before and after the migrations that rename or retire a provider or add a
  CHECK, two rows per table, two crashes; two administrators, of whom the second only turns Google on and off;
  two profiles and a rule, two edits.
- `flows`: two posts for two relays, a cap of 1, three issues, one crash; two users, two polls, three
  device codes; two models of two providers, two handlers, interchangeable (`SYMMETRY Handlers`).
- `formats`: streams of five items on five routes, two objects on the wire, conversations of four
  messages (Kiro) or three turns (direct) with up to two parallel calls, two chats with three
  answers; `HashLength` 2 lets two texts share a hash.

Symmetry is used where a run checks no liveness and the values are interchangeable. Deadlock is
checked in `tokens`, `routing` and `failover`. The other runs say `CHECK_DEADLOCK FALSE`: a
response, a conversion or a login ends, and bounded clocks and counters stop. That calls of
`AuthManager` do not wait on each other is in `EveryCallReturns`.

### Fairness

Weak fairness of a call's own steps: the tokio runtime polls a task that is ready. Where a step is
the answer of somebody else:

- `AuthManager`'s client has a timeout of 30 seconds (`auth/manager.rs`), so an attempt ends.
- The providers' clients have request and read timeouts (`providers/mod.rs`), so an attempt in
  `AccountFailover` ends. No property of that module uses its fairness yet.
- `HttpTokenExchanger` has no timeout, so `ProviderTokens` assumes nothing about its answer, and
  `OnlyProviderBlocks` states liveness under the condition that no exchange lasts for ever.
- Database calls return, with a result or an error.
- The clock, cancellations, users and administrators are under no fairness.

The modules of `access`, `login`, `storage`, `flows` and `formats` state safety only: what they do next
is up to users, browsers and providers.

## 4. Proofs

Seven modules hold the proofs; each extends the modules it is about. An eighth, `LoopLemmas`, holds the lemmas
about loops and induction that the last two share. A theorem holds for every value of
the constants that the ASSUMEs of those modules allow: any number of requests, callers, users,
administrators, accounts, keys, rules and so on, and any bound on clock, restarts and edits. Nothing else
is assumed. "The run" names what checks the same property on a small instance.

| Module | Theorems (property) | Run |
|---|---|---|
| `StorageProofs` | `TypeCorrect` (`TypeOK`), `RefreshesExclude` (`OneRefreshAtATime`), `ExpirySafe` (`ExpiryNeverOverstates`), `ServedLive` (`ServedTokenWasLive`), `TokensMoveForward` (`TokenNeverGoesBack`) | `request` |
| | `UpgradesSound` (`UpgradeSound`), `MemoryFollowsRows` (`MemoryMirrorsRows`), `LoginStays` (`LoginMethodRemains`), `TablesEnforced` (`GuardrailsEnforced`) | `storage` |
| `ProviderTokensProofs` | `TypeCorrect`, `RefreshesExclude` (`OneRefreshAtATime`), `RotationSafe` (`RotationStored`), `CacheStaleness` (`CacheStalenessBounded`) | `tokens` |
| `RoutingProofs` | `RoutingTypeCorrect`, `TogglesExclude`, `ChosenEnabled` (`ChosenWasEnabled`) | `routing` |
| | `TypeCorrect`, `EnabledAccountUsed` (`UsesEnabledAccount`), `BestAccountPicked` (`PicksBestAvailable`) | `failover` |
| `AccessProofs` | `AccessInvariant`, `RightsBounded` (`RightsExpire`), `RevokedForGood` (`RevocationHolds`), `KiroTokenStaleness` (`KiroTokenStalenessBounded`) | `access` |
| | `LoginInvariant`, `LockoutHolds` (`LockoutBound`), `OneUse` (`UsedOnce`), `SecretVerified` (`TotpSecretVerified`), `LinkedFirst` (`LinkedByOwner`) | `login` |
| `FlowsProofs` | `RelayOnce`, `ProxyRelayOnce` (`RelaySound`), `ProxyAtRest` (`TokensAtRest`), `ProxyLosesNoEntry` (`NoLostEntry`), `CopilotConnection` (`ConnectionFollowsUser`), `CatalogFollowsTable` (`CatalogMirrored`) | `flows` |
| | `RecordedOnce` (`TopLevelRecorded`) | `request` |
| `FormatsProofs` | `NoticesGiven` (`NoticesRight`), `ObjectsParsed` (`EveryObjectParsed`), `HistoryTaken` (`HistoryAccepted`), `ConversationKept` (`ConversationTold`) | `formats` |
| `StreamProofs` | `ProtocolKept` (`KeepsProtocol`), `TruncationKept` (`TruncationRemembered`) | `formats` |

The properties of `request`, `flows`, `storage` and `formats` are proved of the specification of
the component alone (`Spec` of AuthManager, `UsageSpec`, `RelaySpec`, `TokensSpec`, `CopilotSpec`,
`CatalogSpec`, `SchemaSpec`, `ConfigSpec`, `GuardrailsSpec`, `RecoverySpec`, `FrameSpec`,
`PayloadSpec`, `FormatSpec`); those of `access` of the composed one. The runs of `storage` send a
small set of requests, `ConfigSpec` and `GuardrailsSpec` any request with any fields
(`AnyRequest`).

Every module proves an inductive invariant first, in named parts, with one lemma or step per action,
and each theorem from it. The parts, and why the property alone does not do:

**AuthManager.** `LockInv`: a holder has nobody ahead, and of two calls in line one is ahead of the
other; `OneRefreshAtATime` alone says nothing of those who wait. `DataInv`: nothing expires later than
one lifetime from now; a fetched token about to be stored is newer than the stored one, expires no
earlier, and outlives its caller's last look at the clock. It needs the lock (without exclusion
two holders could store in either order), the order of the stores, token first, and the fixed
lifetime: tokens issued later expire no earlier.

**ProviderTokens.** The same lock. `RotationInv` speaks of what is on its way to the row: a grant that a
request has to store was not rotated away (`PendingInv`), the one of a new connection is known to no
request (`ConnectInv`); only the holder of the mutex rotates. `StaleInv`: what a request has loaded was
in the row when it loaded it, and what the cache holds no longer than a load takes before its insert.

**ProviderRouting.** Tickets in line: of a writer and anyone else one is ahead, so the holder of the
write guard is alone (`ToggleExcludes`), and what a request reads under its guard is `disabled` as it is.
What is outside `disabled` while a request runs is in its `enabled_once`. Both reads are behind guards,
so what is chosen was enabled.

**AccountFailover.** `FoundInv`: what a resolution has found, and what is enabled now, was enabled
at some time of it. The choice itself is about operators: among finitely many accounts there is a best
score, the tied ones have places 0 to n-1 in the order of collection, and the counter modulo n names one
of them; each is shown by taking a least counterexample, in size, of the natural numbers.
`PicksBestAvailable` then follows without any invariant beyond the types.

**Access.** `RightsInv`: not only a cached entry, but what a request or a login is about to cache,
expires at most `SessionTtl`, and the time the login held the role (`held`), after its user was an
administrator; a row, or a row read, at most `SessionTtl` from now; and a login that has read an
administrator's role did so when there was one. `LoginsPast`: it did so before now. `LogoutInv`,
`KeyInv`: nobody who holds the row is about to bring a session or key back, a session that is not
yet known to its client is nobody's to log out, and numbers of keys are not drawn twice.
`TokenInv`: a token read for the cache is in its row still, for no time passes between.

**Login.** `LockoutInv` counts, with the failures of a user, the calls past the limiter that can still add
one (`Trying`); the bound is tight when all of them fail. `UsedInv`: an unused code let nobody through,
a pending state was not answered. `TotpInv`, `LinkInv`: what the calls under way are about to write is
verified, or consented to.

**Flows.** `RelayInv`: a relay token is in one place, waiting, with one post, or exchanged. For
the token file, `HoldInv` (what the holder of `file_lock` will write comes from the file by a code
or a refresh), `ApartInv` (a refresh token belongs to one slot, or to one post that has yet to
store it), and `AcceptedInv` (what is on the disk, or about to be, is accepted by the provider).
For Copilot, `OwnerInv` and `FollowInv` follow a device code to the row and into the refresh
task's snapshot. For the catalogue, `ReloadInv`: while nothing is `missed`, what the copy in
memory misses is on its way, from a handler that has written and has still to reload, or one whose
fetch is the table as it is.

**Usage of a response** (in `FlowsProofs`). `TopLevelRecorded` speaks of the end only. `UsageInv`
says where the tracked stream is after n symbols (`Follows`): the buffer holds the symbols since
the last newline (`LineFrom`), the snapshot the last value of each counter at the top of the lines
before (`LastValues`). That one symbol keeps this is `SymbolTaken`, with `LineTaken` for a
finished line. A chunk is taken by a recursive function (`update_stream_usage_from_chunk`):
`ChunkTaken` shows that the function exists and satisfies its equation, `CutAnywhere` that a chunk
of any length leads where its symbols lead, each by a least counterexample among the natural
numbers. The line left at the end (`finalize_stream_usage`) and a JSON response are one more line.

**Storage.** For the schema, `At(d, v)` says what a database of version v has (tables, columns),
what it has no longer (`Removed`), and which provider names its CHECKs and its rows may hold
(`CheckAt`, `Allowed`), whatever rows the older releases left; one lemma per migration (`Version4`
to `Version25`) takes it from one version to the next, `AtPasses` shows that no CHECK refuses the
rows. For the configuration, `Sound(r)` says of the one PUT under way that rows and memory agree
on all fields but those it has written and not yet applied, and that a way to log in remains once
it is applied (`After`), the latter while nothing is `spoiled`; the proof of the cross-field check
is `OpenAfter`, and `ReadBack` that what passes the validation is what a load reads again. For the
guardrails, a handler that runs alone has in hand what the tables hold (`EditSound`), and every
link is of a rule and a profile that exist (`TablesSound`).

**Notices.** `StoreInv`: what the two caches still hold was noted more often than announced, so a
notice is given at most as often as an answer was cut. `PlaceInv`: the request of a client,
without its notices, is the conversation the client has (`ReadAs`, with the results in parts that
a notice replaced), and every notice stands behind the answer, or in the tool result, it is about
(`Placed`), also while the guardrail check and the retries go on.

**Event stream.** `FrameInv`: the wire is laid out as frames and objects (`Laid`), the parser has
fed on the first n of them and holds what arrived since (`Parsed`), and the next has not arrived
whole (`Waiting`); what it holds is the wire as decoded (`Decoded`), in which no character that
decides about objects is ever lost. That counting braces, with a flag for strings and one for
escapes, finds the end of an object is `BraceMatched`; its counterpart is a reading of JSON in
which a symbol is escaped by an odd number of backslashes before it. Objects may be of any length
and nesting, and cuts fall anywhere.

**Requests to Kiro.** The invariant `PayloadInv` only says that the payload is what the conversion
makes of the request; the work is in the conversion, four loops one behind the other. Each has a
relation between the messages it has taken and what it has come to, shown for the empty list and
for one turn more: `Loop` (messages unified, tool results held back until they are flushed),
`Settled` (neighbours of one role merged), `Related` (entries of alternating roles) for
`HistoryTaken`; and for `ConversationKept` the gist of a message, its texts and calls: `Tells`
says that one list of gists has all texts of another in order (`Loud`, with `Late` for the results
still held back) and all its calls (`Held`, `Sealed` for those that somebody has answered),
`Sounds` that the first loop has kept them, `Recorded` that the entries have. `HandledIs`,
`HandlingTells` and `PromptedIs` join the loops to the steps between them; the system prompt is
somewhere among the texts, once (`PutIn`).

**Streamed answers.** `ProtocolKept` is a refinement: each step of `FormatSpec` is one of
`StreamProtocol`, or changes nothing of what a client has. The client reads events one by one,
while the translators emit several for an item; so the invariant, `Answering`, is about what is
still to be read: a client that reads `out` to its end takes permitted steps only (`Runs`,
`Permitted`), and until the provider's stream has ended it then has what the route's translators
believe it to have (`Expects`, one relation for each route). `Sound` adds the provider's side:
until a reasoning comes late, `Answering` holds, and Kiro's never does. Of each translator, and of
the two Kiro formatters, a lemma says that an item, whatever it is, leads from one state that is
believed to the next, and that the end or a failure closes it well; loops over open blocks, tool
calls and thinking fragments are taken by the inductions below. For `TruncationKept`,
`Remembering`: when Kiro's stream has ended, every call that the heuristic finds cut is in the
store, or lost its place to another in the deduplication (`deduplicate_tool_calls` keeps of each
call itself, or one with its id or its arguments), or the stream ended with an error, and then the
client's answer is never complete. Routes and numbers of items are arbitrary; the texts are made
of the symbols of the model (`Atoms`).

**Induction.** Loops are folds over sequences, or recursive functions, here, and what they make of
every input is shown by induction in a form the prover can use: `Upwards`, for a set of numbers
instead of a formula, and `OneByOne`, for a set of sequences that has the empty one and every
member with one more element. `Iterates` shows that a run of a loop exists, `OneAct` that the
recursive function of a fold is what its turns make. Each loop then needs the lemma for one turn.

Five assumptions deserve a word. `ConfigurationAssumption` wants the two login toggles among the
keys of interest: the code always has them. `CandidatesAssumption` wants `RoundRobin` to be a
multiple of every number of accounts that can tie, so that the capped counter selects as the
code's `u64` does. `FramesAssumption` is what the parser itself counts on: it looks for patterns
in the raw bytes, so a frame that held one would be read as an object. `PayloadAssumption` keeps
`None` apart from call identifiers, `StreamAssumption` from whatever a stream carries.

Only model-checked: the liveness properties `EveryCallReturns`, `OnlyProviderBlocks` and
`EndedIsRecorded` (fairness is beyond the prover); `AnswerDelivered` and `AnswersAgree` of
`StreamFormats`, and `RequestUnderstood` of `RequestFormats`. The last three compare the content
of two ends of a composition, or of pairs of formats; they are within reach of the same
inductions, at the price of a relation for every translator and every pair.

## 5. Plan

Done: the components of the inventory, with the exceptions of section 6, and the theorems of section 4.
What is left, in order:

1. An abstract token cell (a value replaced by newer ones, served while live) that `AuthManager`,
   `ProxyTokens` and `CopilotTokens` refine, with the step of each refinement proved.
2. `AnswerDelivered` from `Expects`, with the texts of the items in the relations of `StreamProofs`, then
   `RequestUnderstood`, one pair of formats at a time, as for `KiroPayload`.
3. The provider switch during a retry: `AccountFailover` composed with `ProviderRouting`.
4. Several account labels per provider in `ProviderTokens`, once the code has a caller that makes them.

## 6. Not modelled

Frontend, end-to-end tests, benchmark and probe binaries, telemetry, debug log, documentation site:
outside the gateway's logic. Tokenizer, price table, error mapping, JSON fields of requests and
answers, tool schemas, images and sampling parameters: data without state. Provider clients: HTTP calls
without state; what they convert is in `RequestFormats` and `StreamFormats`. `kiro_to_openai.rs` and
`kiro_to_anthropic.rs` have no caller. Start-up and router: sequential; the loads that matter are the
restart actions of the modules. `resolver.rs` and the older model cache: pure name normalisation.

Of the modelled components, left out are PKCE, JWT decoding and the arithmetic of TOTP and argon2
(pure), CEL evaluation and sampling of guardrail rules (any outcome), the proxy-only branches of
resolution and authentication (one read of a map), the delays between retries, the first-token
timeout, two gateways on one database, and functions that only tests call (`cleanup_stale`).
