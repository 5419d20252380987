----------------------------- MODULE OAuthRelay -----------------------------
(***************************************************************************)
(* The relay of an OAuth code from the user's machine to the gateway       *)
(* (web_ui/provider_oauth.rs, and web_ui/proxy_relay.rs for a gateway      *)
(* without a database): connect draws a relay token and keeps what belongs *)
(* to it, the script on the user's machine posts the code with it, twice   *)
(* if the first answer does not arrive.                                    *)
(*                                                                         *)
(* A relay token stands for the PKCE verifier and the OAuth state drawn    *)
(* with it.  What follows an exchange is left to the module that extends   *)
(* this one.  RelayNext is the relay of a gateway with a database.         *)
(***************************************************************************)
EXTENDS Naturals, FiniteSets, Functions

CONSTANTS
    Users,
    RelayProviders,      \* the providers of category oauth_relay
    Posts,               \* posts of a code that can be under way at once
    RelayTtl,            \* RELAY_TOKEN_TTL_SECS
    MaxPendingRelays,    \* MAX_PENDING_RELAYS; the proxy has no cap
    MaxRelays,           \* bound on the relay tokens drawn
    MaxClock             \* bound on the clock

ASSUME OAuthRelayAssumption ==
    RelayTtl \in Nat /\ MaxPendingRelays \in Nat /\ MaxRelays \in Nat /\ MaxClock \in Nat

Relays == 1..MaxRelays

VARIABLES
    pending,     \* provider_oauth_pending, by relay token
    relays,      \* relay tokens drawn so far
    connecting,  \* the provider a user's connect is about to insert, or "none"
    post,        \* the relay_callback of each post
    exchanged,   \* history: exchanges made with what each relay token stood for
    clock

relay == <<pending, relays, connecting, post, exchanged, clock>>

NoPost ==
    [pc |-> "idle", relay |-> 0, user |-> "none", provider |-> "none", born |-> 0, at |-> 0]

Without(f, S) == Restrict(f, DOMAIN f \ S)

(* The age of an entry, against the clock now.                             *)
Expired(e) == clock - e.born > RelayTtl

-----------------------------------------------------------------------------
(* provider_connect: older entries of the user and provider go ...         *)
provider_connect(u, p) ==
    /\ connecting[u] = "none" /\ relays < MaxRelays
    /\ pending' = Without(pending, {r \in DOMAIN pending :
                      pending[r].user = u /\ pending[r].provider = p})
    /\ connecting' = [connecting EXCEPT ![u] = p]
    /\ UNCHANGED <<relays, post, exchanged, clock>>

(* ... and the new one is inserted, beside the entries that are kept.      *)
Insert(u, kept) ==
    /\ connecting[u] # "none" /\ relays < MaxRelays
    /\ LET r == relays + 1 IN
       pending' = [x \in DOMAIN kept \cup {r} |->
                     IF x = r THEN [user |-> u, provider |-> connecting[u], born |-> clock]
                     ELSE kept[x]]
    /\ relays' = relays + 1
    /\ connecting' = [connecting EXCEPT ![u] = "none"]
    /\ UNCHANGED <<post, exchanged, clock>>

(* At the cap the expired ones go too.                                     *)
ConnectInsert(u) ==
    Insert(u, IF Cardinality(DOMAIN pending) >= MaxPendingRelays
              THEN Without(pending, {r \in DOMAIN pending : clock - pending[r].born >= RelayTtl})
              ELSE pending)

(* relay_script: an expired entry that is asked for goes.                  *)
relay_script(r) ==
    /\ r \in DOMAIN pending /\ Expired(pending[r])
    /\ pending' = Without(pending, {r})
    /\ UNCHANGED <<relays, connecting, post, exchanged, clock>>

(* Slip: the entry is looked up, and removed only with the tokens stored.  *)
relay_callback_peeks(c, r, p, s) ==
    /\ post[c].pc = "idle" /\ r \in DOMAIN pending
    /\ post' = [post EXCEPT ![c] =
            IF Expired(pending[r]) \/ pending[r].provider # p \/ s # r THEN NoPost
            ELSE [pc |-> "exchange", relay |-> r, user |-> pending[r].user, provider |-> p,
                  born |-> pending[r].born, at |-> clock]]
    /\ UNCHANGED <<pending, relays, connecting, exchanged, clock>>

(* relay_callback, for provider p with OAuth state s: the entry is removed *)
(* in one step, whatever the checks that follow say.                       *)
relay_callback(c, r, p, s) ==
    /\ post[c].pc = "idle" /\ r \in DOMAIN pending
    /\ pending' = Without(pending, {r})
    /\ post' = [post EXCEPT ![c] =
            IF Expired(pending[r]) \/ pending[r].provider # p \/ s # r THEN NoPost
            ELSE [pc |-> "exchange", relay |-> r, user |-> pending[r].user, provider |-> p,
                  born |-> pending[r].born, at |-> clock]]
    /\ UNCHANGED <<relays, connecting, exchanged, clock>>

(* exchange_code, with the verifier of the entry.                          *)
exchange_code(c) ==
    /\ post[c].pc = "exchange"
    /\ exchanged' = [exchanged EXCEPT ![post[c].relay] = @ + 1]
    /\ post' = [post EXCEPT ![c].pc = "store"]
    /\ UNCHANGED <<pending, relays, connecting, clock>>

ExchangeRefused(c) ==
    /\ post[c].pc = "exchange"
    /\ post' = [post EXCEPT ![c] = NoPost]
    /\ UNCHANGED <<pending, relays, connecting, exchanged, clock>>

(* The rest of relay_callback: upsert_user_provider_token, tried twice     *)
(* (ProviderTokens says what the row does then).                           *)
RelayStored(c) ==
    /\ post[c].pc = "store"
    /\ post' = [post EXCEPT ![c] = NoPost]
    /\ UNCHANGED <<pending, relays, connecting, exchanged, clock>>

Tick ==
    /\ clock < MaxClock
    /\ clock' = clock + 1
    /\ UNCHANGED <<pending, relays, connecting, post, exchanged>>

RelayNext ==
    \/ \E u \in Users, p \in RelayProviders : provider_connect(u, p)
    \/ \E u \in Users : ConnectInsert(u)
    \/ \E r \in Relays : relay_script(r)
    \/ \E c \in Posts, r \in Relays, p \in RelayProviders, s \in Relays : relay_callback(c, r, p, s)
    \/ \E c \in Posts : exchange_code(c) \/ ExchangeRefused(c) \/ RelayStored(c)
    \/ Tick

RelayInit ==
    /\ pending = <<>>
    /\ relays = 0
    /\ connecting = [u \in Users |-> "none"]
    /\ post = [c \in Posts |-> NoPost]
    /\ exchanged = [r \in Relays |-> 0]
    /\ clock = 0

RelaySpec == RelayInit /\ [][RelayNext]_relay

-----------------------------------------------------------------------------
(* A relay token buys one exchange at most, whatever the script posts      *)
(* again ("Consume the relay_token (single-use)").                         *)
RelayUsedOnce == \A r \in Relays : exchanged[r] <= 1

(* No exchange begins with an entry older than its time to live, evicted   *)
(* or not.                                                                 *)
RelayFresh ==
    \A c \in Posts : post[c].pc # "idle" => post[c].at - post[c].born <= RelayTtl

(* A relay token is good for one exchange, within its time to live.        *)
RelaySound == RelayUsedOnce /\ RelayFresh
=============================================================================
