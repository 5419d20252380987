-------------------------- MODULE AccountFailover --------------------------
(***************************************************************************)
(* Multi-account load balancing: RateLimitTracker                          *)
(* (providers/rate_limiter.rs), resolve_provider_with_balancing            *)
(* (providers/registry.rs), the attempt loop with handle_rate_limit_retry  *)
(* (routes/openai.rs, routes/anthropic.rs, routes/responses.rs,            *)
(* routes/pipeline.rs), and the pages that change the accounts under it    *)
(* (web_ui/admin_pool.rs, web_ui/provider_priority.rs).                    *)
(*                                                                         *)
(* Requests share the tracker; each one is answered by its provider at any *)
(* time, so answers come in any order.  A header's tokens_remaining counts *)
(* in thousands here, as it does in compute_score.                         *)
(***************************************************************************)
EXTENDS Integers, FiniteSets, Optional

CONSTANTS
    Requests,     \* concurrent requests of one user, for one native provider
    Accounts,     \* accounts of the user and of the admin pool
    Order,        \* their places in the order the code collects them
    Kind,         \* "native" or "copilot", of the user, or "pool"
    Ranks,        \* priorities the user may set
    MaxAttempts,  \* MAX_ATTEMPTS
    Cooldowns,    \* Retry-After values (DEFAULT_RETRY_AFTER among them)
    Remaining,    \* requests_remaining and tokens_remaining header values
    MaxTime,      \* bound on the clock
    MaxEdits,     \* bound on changes of accounts and priorities
    RoundRobin    \* bound: round_robin is counted modulo this

(* Counting round_robin modulo a multiple of every number of accounts that *)
(* can tie, the user's or the pool's, selects the same accounts as the     *)
(* code's u64.                                                             *)
ASSUME CandidatesAssumption ==
    /\ IsFiniteSet(Accounts) /\ None \notin Accounts
    /\ Order \in [Accounts -> Nat]
    /\ \A a, b \in Accounts : Order[a] = Order[b] => a = b
    /\ Kind \in [Accounts -> {"native", "copilot", "pool"}]
    /\ RoundRobin \in Nat \ {0}
    /\ \A pool \in BOOLEAN :
          \A n \in 1..Cardinality({a \in Accounts : (Kind[a] = "pool") = pool}) : RoundRobin % n = 0
ASSUME BoundsAssumption ==
    /\ MaxAttempts \in Nat \ {0} /\ MaxTime \in Nat /\ MaxEdits \in Nat
    /\ Cooldowns \subseteq Nat /\ Remaining \subseteq Nat /\ Ranks \subseteq Nat
    /\ None \notin Nat

VARIABLES
    now,          \* the clock
    states,       \* RateLimitState of each account, None if never recorded
    round_robin,  \* shared tie-break counter
    rows,         \* user_provider_tokens, user_copilot_tokens, admin_provider_pool
    ranks,        \* user_provider_priority
    edits,        \* changes so far
    pc,           \* where each request is
    attempt,      \* index of each request's attempt
    rank,         \* priorities its resolution has read
    found,        \* accounts its resolution has found
    account,      \* account_id of the attempt that is out
    usable        \* history: accounts that were enabled at some time of its
                  \* resolution, while that goes on

shared == <<now, states, round_robin>>
tables == <<rows, ranks, edits>>
locals == <<pc, attempt, rank, found, account>>
vars == <<shared, tables, locals, usable>>

State == [req : Nat, tok : Nat, limited_until : Nat \cup {None}]

ASSUME StateAssumption == None \notin State

(* Without a row the native provider is preferred.                         *)
DefaultRanks == [native |-> 0, copilot |-> 1]

TypeOK ==
    /\ now \in 0..MaxTime
    /\ states \in [Accounts -> State \cup {None}]
    /\ round_robin \in 0..(RoundRobin - 1)
    /\ rows \in [Accounts -> {"none", "off", "on"}]
    /\ ranks \in [{"native", "copilot"} -> Ranks \cup {0, 1}]
    /\ rank \in [Requests -> [{"native", "copilot"} -> Ranks \cup {0, 1}]]
    /\ edits \in 0..MaxEdits
    /\ pc \in [Requests -> {"idle", "priorities", "native", "copilot", "resolve", "sent"}]
    /\ attempt \in [Requests -> 0..(MaxAttempts - 1)]
    /\ found \in [Requests -> SUBSET Accounts]
    /\ usable \in [Requests -> SUBSET Accounts]
    /\ account \in [Requests -> Accounts \cup {None}]

Init ==
    /\ now = 0
    /\ states = [a \in Accounts |-> None]
    /\ round_robin = 0
    /\ rows \in [Accounts -> {"on", "none"}]
    /\ ranks = DefaultRanks
    /\ edits = 0
    /\ pc = [r \in Requests |-> "idle"]
    /\ attempt = [r \in Requests |-> 0]
    /\ rank = [r \in Requests |-> DefaultRanks]
    /\ found = [r \in Requests |-> {}]
    /\ account = [r \in Requests |-> None]
    /\ usable = [r \in Requests |-> {}]

-----------------------------------------------------------------------------
(* The tracker.                                                            *)

(* Not skipped as actively rate-limited.                                   *)
Available(a) ==
    IF states[a] = None THEN TRUE
    ELSE IF states[a].limited_until = None THEN TRUE
    ELSE states[a].limited_until <= now

compute_score(s) == s.req * 100 + s.tok

(* An account without data ranks above every account with data.            *)
Better(a, b) ==
    IF states[b] = None THEN FALSE
    ELSE IF states[a] = None THEN TRUE
    ELSE compute_score(states[a]) > compute_score(states[b])

(* The first of some accounts.                                             *)
First(S) == CHOOSE a \in S : \A b \in S : Order[a] <= Order[b]

(* How many of them come before one.                                       *)
Place(a, S) == Cardinality({b \in S : Order[b] < Order[a]})

Scored(tier) == {a \in tier : Available(a)}

(* The accounts tied at the best score.                                    *)
Tied(tier) == {a \in Scored(tier) : \A b \in Scored(tier) : ~Better(b, a)}

(* best_account: round_robin counts through the tied accounts.             *)
best_account(tier) ==
    LET tied == Tied(tier) IN
    IF tied = {} THEN None
    ELSE CHOOSE a \in tied : Place(a, tied) = round_robin % Cardinality(tied)

(* The user's priorities, and ADMIN_POOL_PRIORITY.                         *)
Priority(read, a) == IF Kind[a] = "pool" THEN 100 ELSE read[Kind[a]]

Tier(candidates, read, priority) == {a \in candidates : Priority(read, a) = priority}

(* best_account_with_priority: the first tier that has somebody available. *)
best_account_with_priority(candidates, read) ==
    LET tiers == {Priority(read, a) : a \in Scored(candidates)}
    IN IF tiers = {} THEN None
       ELSE best_account(Tier(candidates, read,
                              CHOOSE p \in tiers : \A q \in tiers : p <= q))

mark_limited(a, cooldown) ==
    states' = [states EXCEPT ![a] =
        [req |-> 0, tok |-> IF @ = None THEN 0 ELSE @.tok,
         limited_until |-> now + cooldown]]

(* A success overwrites the state, whatever was recorded since it was sent.*)
update_from_headers(a, req, tok) ==
    states' = [states EXCEPT ![a] = [req |-> req, tok |-> tok, limited_until |-> None]]

-----------------------------------------------------------------------------
Enabled(kind) == {a \in Accounts : Kind[a] = kind /\ rows[a] = "on"}

(* A resolution starts, at the head of a request or of a retry.            *)
Starts(r) ==
    /\ pc' = [pc EXCEPT ![r] = "priorities"]
    /\ usable' = [usable EXCEPT ![r] = {a \in Accounts : rows[a] = "on"}]
    /\ found' = [found EXCEPT ![r] = {}]
    /\ account' = [account EXCEPT ![r] = None]
    /\ UNCHANGED rank

Begin(r) ==
    /\ pc[r] = "idle"
    /\ Starts(r)
    /\ UNCHANGED <<shared, tables, attempt>>

(* The request leaves the loop.                                            *)
Leave(r) ==
    /\ pc' = [pc EXCEPT ![r] = "idle"]
    /\ attempt' = [attempt EXCEPT ![r] = 0]
    /\ found' = [found EXCEPT ![r] = {}]
    /\ rank' = [rank EXCEPT ![r] = DefaultRanks]
    /\ account' = [account EXCEPT ![r] = None]
    /\ usable' = [usable EXCEPT ![r] = {}]

(* get_user_provider_priority, the defaults when it fails.                 *)
ReadPriorities(r) ==
    /\ pc[r] = "priorities"
    /\ \E read \in {ranks, DefaultRanks} : rank' = [rank EXCEPT ![r] = read]
    /\ pc' = [pc EXCEPT ![r] = "native"]
    /\ UNCHANGED <<shared, tables, attempt, found, account, usable>>

(* get_all_user_provider_tokens; nothing when it fails or the provider is  *)
(* disabled.                                                               *)
ReadNative(r) ==
    /\ pc[r] = "native"
    /\ \E some \in {Enabled("native"), {}} : found' = [found EXCEPT ![r] = some]
    /\ pc' = [pc EXCEPT ![r] = "copilot"]
    /\ UNCHANGED <<shared, tables, attempt, rank, account, usable>>

(* get_copilot_tokens: as an alternative of equal or better priority, or   *)
(* when there is no other; not for a prefixed model.                       *)
ReadCopilot(r) ==
    /\ pc[r] = "copilot"
    /\ \E some \in {IF found[r] = {} \/ rank[r].copilot <= rank[r].native
                       THEN Enabled("copilot") ELSE {}, {}} :
         found' = [found EXCEPT ![r] = @ \cup some]
    /\ pc' = [pc EXCEPT ![r] = "resolve"]
    /\ UNCHANGED <<shared, tables, attempt, rank, account, usable>>

(* The resolution ends, and its locals with it.                            *)
Sent(r) ==
    /\ pc' = [pc EXCEPT ![r] = "sent"]
    /\ rank' = [rank EXCEPT ![r] = DefaultRanks]
    /\ usable' = [usable EXCEPT ![r] = {}]

(* Slip: disabled accounts are returned.                                   *)
get_admin_pool_accounts_all(pool) == {a \in pool : rows[a] # "none"}

get_admin_pool_accounts(pool) == {a \in pool : rows[a] = "on"}

(* Slip: round-robin over the candidates before the limited ones are       *)
(* skipped.                                                                *)
ChosenIgnoringLimits(candidates, read) ==
    CHOOSE a \in candidates : Place(a, candidates) = round_robin % Cardinality(candidates)

(* The best of the accounts, or the first of them when all are limited.    *)
Chosen(candidates, read) ==
    LET best == best_account_with_priority(candidates, read) IN
    IF best = None THEN First(candidates) ELSE best

(* The pool is read, nothing when that fails or the provider is disabled,  *)
(* and the best of all accounts found is chosen.                           *)
Resolve(r) ==
    /\ pc[r] = "resolve"
    /\ \E some \in {get_admin_pool_accounts({a \in Accounts : Kind[a] = "pool"}), {}} :
         LET all == found[r] \cup some
         IN /\ all # {}
            /\ account' = [account EXCEPT ![r] = Chosen(all, rank[r])]
            /\ round_robin' = IF \E a \in all : Available(a)
                              THEN (round_robin + 1) % RoundRobin ELSE round_robin
            /\ found' = [found EXCEPT ![r] = all]
    /\ Sent(r)
    /\ UNCHANGED <<now, states, tables, attempt>>

(* No account found: Kiro, or credentials of the single-account cache.     *)
(* They have no account_id and are not tracked.                            *)
ResolveUntracked(r) ==
    /\ pc[r] = "resolve" /\ found[r] = {}
    /\ account' = [account EXCEPT ![r] = None]
    /\ Sent(r)
    /\ UNCHANGED <<shared, tables, attempt, found>>

(* No credentials at all: the request is refused, a retry gives up.        *)
ResolveNone(r) ==
    /\ pc[r] = "resolve" /\ found[r] = {}
    /\ Leave(r)
    /\ UNCHANGED <<shared, tables>>

(* A success, with rate-limit headers or without.                          *)
AnswerOk(r) ==
    /\ pc[r] = "sent"
    /\ \/ /\ account[r] # None
          /\ \E req, tok \in Remaining : update_from_headers(account[r], req, tok)
       \/ UNCHANGED states
    /\ Leave(r)
    /\ UNCHANGED <<now, round_robin, tables>>

(* handle_rate_limit_retry with attempts left: mark, then resolve again.   *)
Answer429(r) ==
    /\ pc[r] = "sent"
    /\ attempt[r] < MaxAttempts - 1
    /\ \/ account[r] = None /\ UNCHANGED states
       \/ account[r] # None /\ \E cooldown \in Cooldowns : mark_limited(account[r], cooldown)
    /\ attempt' = [attempt EXCEPT ![r] = @ + 1]
    /\ Starts(r)
    /\ UNCHANGED <<now, round_robin, tables>>

(* The last attempt: handle_rate_limit_retry returns before the mark.      *)
Last429(r) ==
    /\ pc[r] = "sent"
    /\ attempt[r] >= MaxAttempts - 1
    /\ Leave(r)
    /\ UNCHANGED <<shared, tables>>

(* Any other error ends the loop.                                          *)
AnswerError(r) ==
    /\ pc[r] = "sent"
    /\ Leave(r)
    /\ UNCHANGED <<shared, tables>>

-----------------------------------------------------------------------------
(* The pages.                                                              *)

SetRow(a, row) ==
    /\ edits < MaxEdits
    /\ edits' = edits + 1
    /\ rows' = [rows EXCEPT ![a] = row]
    /\ usable' = [r \in Requests |-> IF row = "on" /\ pc[r] \notin {"idle", "sent"}
                                     THEN usable[r] \cup {a} ELSE usable[r]]
    /\ UNCHANGED <<shared, ranks, locals>>

(* upsert_admin_pool_account replaces the key; enabled is left as it is.   *)
add_pool_account(a) ==
    Kind[a] = "pool" /\ SetRow(a, IF rows[a] = "none" THEN "on" ELSE rows[a])

toggle_pool_account(a, row) ==
    Kind[a] = "pool" /\ rows[a] # "none" /\ row \in {"on", "off"} /\ SetRow(a, row)

remove_pool_account(a) == Kind[a] = "pool" /\ rows[a] # "none" /\ SetRow(a, "none")

(* delete_user_account, a disconnect, or an expiry.                        *)
delete_user_account(a) == Kind[a] # "pool" /\ rows[a] # "none" /\ SetRow(a, "none")

(* A connection or a refresh.                                              *)
upsert_user_account(a) == Kind[a] # "pool" /\ rows[a] = "none" /\ SetRow(a, "on")

(* One round of update_priority's loop.                                    *)
update_priority(kind, value) ==
    /\ edits < MaxEdits
    /\ edits' = edits + 1
    /\ ranks' = [ranks EXCEPT ![kind] = value]
    /\ UNCHANGED <<shared, rows, locals, usable>>

Edit ==
    \/ \E a \in Accounts :
          \/ add_pool_account(a) \/ remove_pool_account(a)
          \/ \E row \in {"on", "off"} : toggle_pool_account(a, row)
          \/ delete_user_account(a) \/ upsert_user_account(a)
    \/ \E kind \in {"native", "copilot"}, value \in Ranks : update_priority(kind, value)

Tick ==
    /\ now < MaxTime
    /\ now' = now + 1
    /\ UNCHANGED <<states, round_robin, tables, locals, usable>>

Step(r) ==
    \/ ReadPriorities(r) \/ ReadNative(r) \/ ReadCopilot(r)
    \/ Resolve(r) \/ ResolveUntracked(r) \/ ResolveNone(r)
    \/ AnswerOk(r) \/ Answer429(r) \/ Last429(r) \/ AnswerError(r)

Next ==
    \/ \E r \in Requests : Begin(r) \/ Step(r)
    \/ Edit
    \/ Tick

(* A request runs on: the providers' clients have request and read         *)
(* timeouts, so every attempt ends.                                        *)
Spec == Init /\ [][Next]_vars /\ \A r \in Requests : WF_vars(Step(r))

-----------------------------------------------------------------------------
(* The step that settles which account an attempt uses.                    *)
Picks(r) == pc[r] = "resolve" /\ pc'[r] = "sent" /\ account'[r] # None

(* An account in cooldown is used only when every account found is in      *)
(* cooldown; otherwise nobody available in a better tier, and nobody with  *)
(* more headroom in the same tier, was passed over, whatever other         *)
(* requests and the pages did since the reads                              *)
(* (best_account_with_priority).                                           *)
PicksBestAvailable ==
    [][\A r \in Requests : Picks(r) =>
         LET a == account'[r] IN
         \A b \in found'[r] : Available(b) =>
            /\ Available(a)
            /\ Priority(rank[r], a) <= Priority(rank[r], b)
            /\ Priority(rank[r], a) = Priority(rank[r], b) => ~Better(b, a)]_vars

(* No attempt, first or retry, uses an account that was removed or         *)
(* disabled during all of its resolution, however the reads interleave     *)
(* with the administrator's changes (resolve_provider_with_balancing).     *)
UsesEnabledAccount ==
    [][\A r \in Requests : Picks(r) => account'[r] \in usable[r]]_vars
=============================================================================
