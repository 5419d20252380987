----------------------------- MODULE FlowsProofs ----------------------------
(***************************************************************************)
(* Proofs about what reaches the gateway from the providers: the OAuth     *)
(* relay (OAuthRelay), the token file of the proxy (ProxyTokens), the      *)
(* Copilot connection (CopilotTokens), the model registry (ModelCatalog)   *)
(* and the usage they report with a response (UsageStream), each under a   *)
(* specification of its own.                                               *)
(***************************************************************************)
EXTENDS ProxyTokens, CopilotTokens, ModelCatalog, UsageStream, WellFoundedInduction, TLAPS

-----------------------------------------------------------------------------
(***************************************************************************)
(* The relay.                                                              *)
(***************************************************************************)
Post == [pc : {"idle", "exchange", "store"}, relay : 0..MaxRelays, user : Users \cup {"none"},
         provider : RelayProviders \cup {"none"}, born : Nat, at : Nat]

(* The relay's state.                                                      *)
RelayTypeOK ==
    /\ clock \in Nat /\ relays \in 0..MaxRelays
    /\ DOMAIN pending \subseteq 1..relays
    /\ \A r \in DOMAIN pending :
         /\ pending[r].user \in Users /\ pending[r].provider \in RelayProviders
         /\ pending[r].born \in Nat
    /\ connecting \in [Users -> RelayProviders \cup {"none"}]
    /\ post \in [Posts -> Post]
    /\ exchanged \in [Relays -> Nat]

(* A relay token is in one place only: waiting in the table, with one post *)
(* that is about to exchange, or exchanged; and not yet drawn before that. *)
RelayInv ==
    /\ \A r \in DOMAIN pending : exchanged[r] = 0
    /\ \A c \in Posts : post[c].pc = "exchange" =>
         /\ post[c].relay \in 1..relays /\ post[c].relay \notin DOMAIN pending
         /\ exchanged[post[c].relay] = 0
         /\ \A d \in Posts : post[d].pc = "exchange" /\ post[d].relay = post[c].relay => c = d
    /\ \A c \in Posts : post[c].pc # "idle" => post[c].provider \in RelayProviders
    /\ \A r \in Relays : r > relays => exchanged[r] = 0
    /\ RelaySound

(* A step that takes entries from the table and ends posts, no more.       *)
LEMMA RelayQuiet ==
    ASSUME RelayTypeOK, RelayInv,
           DOMAIN pending' \subseteq DOMAIN pending,
           \A r \in DOMAIN pending' : pending'[r] = pending[r],
           connecting' \in [Users -> RelayProviders \cup {"none"}],
           post' \in [Posts -> Post],
           \A c \in Posts : post'[c] \in {post[c], NoPost},
           clock' \in Nat,
           relays' = relays, exchanged' = exchanged
    PROVE  RelayTypeOK' /\ RelayInv'
<1>1. RelayTypeOK'
  BY DEF RelayTypeOK
<1>2. NoPost.pc = "idle"
  BY DEF NoPost
<1>3. \A c \in Posts : post'[c].pc # "idle" => post'[c] = post[c]
  BY <1>2
<1>4. RelaySound'
  BY <1>3 DEF RelayInv, RelaySound, RelayUsedOnce, RelayFresh
<1>5. QED
  BY <1>1, <1>3, <1>4 DEF RelayInv, RelayTypeOK

LEMMA NoPostIsPost == NoPost \in Post
  BY OAuthRelayAssumption DEF NoPost, Post

(* Ending one post leaves a table of posts.                                *)
LEMMA PostEnds ==
    ASSUME RelayTypeOK, NEW c \in Posts, post' = [post EXCEPT ![c] = NoPost]
    PROVE  /\ post' \in [Posts -> Post]
           /\ \A d \in Posts : post'[d] \in {post[d], NoPost}
  BY NoPostIsPost DEF RelayTypeOK

(* The actions that are such steps.                                        *)
LEMMA RelayQuietActions ==
    ASSUME RelayTypeOK, RelayInv,
           \/ \E u \in Users, p \in RelayProviders : provider_connect(u, p)
           \/ \E r \in Relays : relay_script(r)
           \/ \E c \in Posts : ExchangeRefused(c) \/ RelayStored(c)
           \/ Tick
    PROVE  RelayTypeOK' /\ RelayInv'
<1>1. CASE \E u \in Users, p \in RelayProviders : provider_connect(u, p)
  <2>1. PICK u \in Users, p \in RelayProviders : provider_connect(u, p)
    BY <1>1
  <2>2. /\ DOMAIN pending' \subseteq DOMAIN pending
        /\ \A r \in DOMAIN pending' : pending'[r] = pending[r]
    BY <2>1 DEF provider_connect, Without, Restrict
  <2>3. connecting' \in [Users -> RelayProviders \cup {"none"}]
    BY <2>1 DEF provider_connect, RelayTypeOK
  <2>4. UNCHANGED <<relays, post, exchanged, clock>>
    BY <2>1 DEF provider_connect
  <2>5. QED
    BY <2>2, <2>3, <2>4, RelayQuiet DEF RelayTypeOK
<1>2. CASE \E r \in Relays : relay_script(r)
  <2>1. PICK r \in Relays : relay_script(r)
    BY <1>2
  <2>2. /\ DOMAIN pending' \subseteq DOMAIN pending
        /\ \A x \in DOMAIN pending' : pending'[x] = pending[x]
    BY <2>1 DEF relay_script, Without, Restrict
  <2>3. UNCHANGED <<relays, connecting, post, exchanged, clock>>
    BY <2>1 DEF relay_script
  <2>4. QED
    BY <2>2, <2>3, RelayQuiet DEF RelayTypeOK
<1>3. CASE \E c \in Posts : ExchangeRefused(c) \/ RelayStored(c)
  <2>1. PICK c \in Posts : post' = [post EXCEPT ![c] = NoPost]
    BY <1>3 DEF ExchangeRefused, RelayStored
  <2>2. UNCHANGED <<pending, relays, connecting, exchanged, clock>>
    BY <1>3 DEF ExchangeRefused, RelayStored
  <2>3. QED
    BY <2>1, <2>2, PostEnds, RelayQuiet DEF RelayTypeOK
<1>4. CASE Tick
  <2>1. UNCHANGED <<pending, relays, connecting, post, exchanged>> /\ clock' = clock + 1
    BY <1>4 DEF Tick
  <2>2. QED
    BY <2>1, RelayQuiet DEF RelayTypeOK
<1>5. QED
  BY <1>1, <1>2, <1>3, <1>4

(* A new relay token is one nobody holds.                                  *)
LEMMA InsertKeeps ==
    ASSUME RelayTypeOK, RelayInv, NEW u \in Users, NEW kept,
           DOMAIN kept \subseteq DOMAIN pending,
           \A r \in DOMAIN kept : kept[r] = pending[r],
           Insert(u, kept)
    PROVE  RelayTypeOK' /\ RelayInv'
<1> USE OAuthRelayAssumption
<1>1. PICK r : r = relays + 1 /\ r \in Relays /\ relays' = r /\ relays < MaxRelays
  BY DEF Insert, RelayTypeOK, Relays
<1>2. PICK p : p = connecting[u] /\ p \in RelayProviders
  BY DEF Insert, RelayTypeOK
<1>3. pending' = [x \in DOMAIN kept \cup {r} |->
                    IF x = r THEN [user |-> u, provider |-> p, born |-> clock] ELSE kept[x]]
  BY <1>1, <1>2 DEF Insert
<1>4. /\ DOMAIN pending' \subseteq DOMAIN pending \cup {r}
      /\ \A x \in DOMAIN pending' : x # r => pending'[x] = pending[x]
      /\ pending'[r] = [user |-> u, provider |-> p, born |-> clock]
  BY <1>3
<1>5. UNCHANGED <<post, exchanged, clock>>
  BY DEF Insert
<1>6. connecting' \in [Users -> RelayProviders \cup {"none"}]
  BY DEF Insert, RelayTypeOK
<1>7. DOMAIN pending' \subseteq 1..r
  BY <1>1, <1>4 DEF RelayTypeOK
<1>8. \A x \in DOMAIN pending' :
         /\ pending'[x].user \in Users /\ pending'[x].provider \in RelayProviders
         /\ pending'[x].born \in Nat
  BY <1>2, <1>4 DEF RelayTypeOK
<1>9. RelayTypeOK'
  BY <1>1, <1>5, <1>6, <1>7, <1>8 DEF RelayTypeOK, Relays
<1>10. RelaySound'
  BY <1>5 DEF RelayInv, RelaySound, RelayUsedOnce, RelayFresh
<1>11. \A x \in DOMAIN pending' : exchanged'[x] = 0
  BY <1>1, <1>4, <1>5 DEF RelayInv, RelayTypeOK
<1>12. \A c \in Posts : post'[c].pc = "exchange" =>
         post'[c].relay \in 1..relays' /\ post'[c].relay \notin DOMAIN pending'
  BY <1>1, <1>4, <1>5 DEF RelayInv, RelayTypeOK
<1>13. \A x \in Relays : x > relays' => exchanged'[x] = 0
  BY <1>1, <1>5 DEF RelayInv, RelayTypeOK, Relays
<1>14. QED
  BY <1>5, <1>9, <1>10, <1>11, <1>12, <1>13 DEF RelayInv

LEMMA ConnectInsertKeeps ==
    ASSUME RelayTypeOK, RelayInv, NEW u \in Users, ConnectInsert(u)
    PROVE  RelayTypeOK' /\ RelayInv'
<1>1. PICK kept :
        kept = IF Cardinality(DOMAIN pending) >= MaxPendingRelays
               THEN Without(pending, {r \in DOMAIN pending : clock - pending[r].born >= RelayTtl})
               ELSE pending
  OBVIOUS
<1>2. Insert(u, kept)
  BY <1>1 DEF ConnectInsert, Insert
<1>3. DOMAIN kept \subseteq DOMAIN pending /\ \A r \in DOMAIN kept : kept[r] = pending[r]
  BY <1>1 DEF Without, Restrict
<1>4. QED
  BY <1>2, <1>3, InsertKeeps

(* The entry leaves the table with the one post that took it.              *)
LEMMA CallbackKeeps ==
    ASSUME RelayTypeOK, RelayInv,
           NEW c \in Posts, NEW r \in Relays, NEW p \in RelayProviders, NEW s \in Relays,
           relay_callback(c, r, p, s)
    PROVE  RelayTypeOK' /\ RelayInv'
<1> USE OAuthRelayAssumption
<1>1. UNCHANGED <<relays, connecting, exchanged, clock>>
  BY DEF relay_callback
<1>2. /\ DOMAIN pending' = DOMAIN pending \ {r} /\ r \in DOMAIN pending
      /\ \A x \in DOMAIN pending' : pending'[x] = pending[x]
  BY DEF relay_callback, Without, Restrict
<1>3. CASE post' = [post EXCEPT ![c] = NoPost]
  BY <1>1, <1>2, <1>3, PostEnds, RelayQuiet DEF RelayTypeOK
<1>4. CASE post' # [post EXCEPT ![c] = NoPost]
  <2>1. PICK e : e = [pc |-> "exchange", relay |-> r, user |-> pending[r].user, provider |-> p,
                      born |-> pending[r].born, at |-> clock]
    OBVIOUS
  <2>2. post' = [post EXCEPT ![c] = e] /\ clock - pending[r].born <= RelayTtl
    <3>1. ~Expired(pending[r]) /\ post' = [post EXCEPT ![c] = e]
      BY <1>4, <2>1 DEF relay_callback
    <3>2. QED
      BY <1>2, <3>1 DEF Expired, RelayTypeOK
  <2>3. e \in Post
    BY <1>2, <2>1 DEF Post, RelayTypeOK, Relays
  <2>4. post'[c] = e /\ \A d \in Posts : d # c => post'[d] = post[d]
    BY <2>2 DEF RelayTypeOK
  <2>5. RelayTypeOK'
    BY <1>1, <1>2, <2>2, <2>3 DEF RelayTypeOK
  <2>6. e.pc = "exchange" /\ e.relay = r /\ e.provider = p /\ e.at - e.born <= RelayTtl
    BY <2>1, <2>2
  <2>7. RelaySound'
    BY <1>1, <2>4, <2>6 DEF RelayInv, RelaySound, RelayUsedOnce, RelayFresh
  <2>8. \A d \in Posts : post'[d].pc = "exchange" =>
          /\ post'[d].relay \in 1..relays' /\ post'[d].relay \notin DOMAIN pending'
          /\ exchanged'[post'[d].relay] = 0
          /\ d # c => post'[d].relay # r
    BY <1>1, <1>2, <2>4, <2>6 DEF RelayInv, RelayTypeOK
  <2>9. \A d, b \in Posts :
          post'[d].pc = "exchange" /\ post'[b].pc = "exchange" /\ post'[b].relay = post'[d].relay
            => d = b
    BY <2>4, <2>6, <2>8 DEF RelayInv
  <2>10. \A d \in Posts : post'[d].pc # "idle" => post'[d].provider \in RelayProviders
    BY <2>4, <2>6 DEF RelayInv
  <2>11. QED
    BY <1>1, <1>2, <2>5, <2>7, <2>8, <2>9, <2>10 DEF RelayInv
<1>5. QED
  BY <1>3, <1>4

(* The exchange uses up what only this post still had.                     *)
LEMMA ExchangeKeeps ==
    ASSUME RelayTypeOK, RelayInv, NEW c \in Posts, exchange_code(c)
    PROVE  RelayTypeOK' /\ RelayInv'
<1> USE OAuthRelayAssumption
<1>1. UNCHANGED <<pending, relays, connecting, clock>> /\ post[c].pc = "exchange"
  BY DEF exchange_code
<1>2. PICK r \in Relays : r = post[c].relay /\ r \in 1..relays /\ exchanged[r] = 0
  BY <1>1 DEF RelayInv, RelayTypeOK, Relays
<1>3. exchanged' = [exchanged EXCEPT ![r] = 1]
  BY <1>2 DEF exchange_code, RelayTypeOK
<1>4. /\ post'[c] = [post[c] EXCEPT !.pc = "store"]
      /\ post' \in [Posts -> Post]
      /\ \A d \in Posts : d # c => post'[d] = post[d]
  BY DEF exchange_code, RelayTypeOK, Post
<1>5. /\ post'[c].pc = "store" /\ post'[c].provider = post[c].provider
      /\ post'[c].born = post[c].born /\ post'[c].at = post[c].at
  BY <1>4 DEF RelayTypeOK, Post
<1>6. RelayTypeOK'
  BY <1>1, <1>3, <1>4 DEF RelayTypeOK
<1>7. \A x \in Relays : exchanged'[x] = IF x = r THEN 1 ELSE exchanged[x]
  BY <1>3 DEF RelayTypeOK
<1>8. RelaySound'
  <2>1. RelayUsedOnce'
    BY <1>7 DEF RelayInv, RelaySound, RelayUsedOnce
  <2>2. \A d \in Posts : post'[d].pc # "idle" => post'[d].at - post'[d].born <= RelayTtl
    BY <1>1, <1>4, <1>5 DEF RelayInv, RelaySound, RelayFresh
  <2>3. QED
    BY <2>1, <2>2 DEF RelaySound, RelayFresh
<1>9. r \notin DOMAIN pending /\ \A d \in Posts : d # c /\ post[d].pc = "exchange" => post[d].relay # r
  BY <1>1, <1>2 DEF RelayInv
<1>10. \A d \in Posts : post'[d].pc = "exchange" =>
         /\ d # c
         /\ post'[d].relay \in 1..relays' /\ post'[d].relay \notin DOMAIN pending'
         /\ exchanged'[post'[d].relay] = 0
  <2> SUFFICES ASSUME NEW d \in Posts, post'[d].pc = "exchange"
               PROVE  /\ d # c
                      /\ post'[d].relay \in 1..relays' /\ post'[d].relay \notin DOMAIN pending'
                      /\ exchanged'[post'[d].relay] = 0
    OBVIOUS
  <2>1. d # c /\ post'[d] = post[d] /\ post[d].pc = "exchange"
    BY <1>4, <1>5
  <2>2. PICK x : x = post[d].relay /\ x \in 1..relays /\ x \notin DOMAIN pending /\ exchanged[x] = 0
    BY <2>1 DEF RelayInv
  <2>3. x \in Relays /\ x # r
    BY <1>9, <2>1, <2>2 DEF RelayTypeOK, Relays
  <2>4. QED
    BY <1>1, <1>7, <2>1, <2>2, <2>3
<1>11. \A d, b \in Posts :
         post'[d].pc = "exchange" /\ post'[b].pc = "exchange" /\ post'[b].relay = post'[d].relay
           => d = b
  BY <1>4, <1>10 DEF RelayInv
<1>12. \A d \in Posts : post'[d].pc # "idle" => post'[d].provider \in RelayProviders
  BY <1>1, <1>4, <1>5 DEF RelayInv
<1>13. \A x \in DOMAIN pending' : exchanged'[x] = 0
  BY <1>1, <1>7, <1>9 DEF RelayInv, RelayTypeOK, Relays
<1>14. \A x \in Relays : x > relays' => exchanged'[x] = 0
  BY <1>1, <1>2, <1>7 DEF RelayInv, RelayTypeOK
<1>15. QED
  BY <1>6, <1>8, <1>10, <1>11, <1>12, <1>13, <1>14 DEF RelayInv

LEMMA RelayInitHolds == RelayInit => RelayTypeOK /\ RelayInv
<1> SUFFICES ASSUME RelayInit PROVE RelayTypeOK /\ RelayInv
  OBVIOUS
<1> USE OAuthRelayAssumption DEF RelayInit
<1>1. DOMAIN pending = {}
  OBVIOUS
<1>2. \A c \in Posts : post[c] = NoPost
  OBVIOUS
<1>3. NoPost.pc = "idle"
  BY DEF NoPost
<1>4. RelayTypeOK
  BY <1>1, NoPostIsPost DEF RelayTypeOK, Relays
<1>5. RelayInv
  BY <1>1, <1>2, <1>3 DEF RelayInv, RelaySound, RelayUsedOnce, RelayFresh, Relays
<1>6. QED
  BY <1>4, <1>5

LEMMA RelayUnchanged ==
    ASSUME RelayTypeOK, RelayInv, UNCHANGED relay
    PROVE  RelayTypeOK' /\ RelayInv'
<1>1. UNCHANGED <<pending, relays, connecting, post, exchanged, clock>>
  BY DEF relay
<1>2. QED
  BY <1>1, RelayQuiet DEF RelayTypeOK

(* A relay token is good for one exchange, within its time to live,        *)
(* whatever is posted again and whatever the table evicts                  *)
(* (provider_oauth.rs: "Consume the relay_token (single-use)").            *)
THEOREM RelayOnce == RelaySpec => []RelaySound
<1>1. RelayInit => RelayTypeOK /\ RelayInv
  BY RelayInitHolds
<1>2. RelayTypeOK /\ RelayInv /\ [RelayNext]_relay => RelayTypeOK' /\ RelayInv'
  BY RelayQuietActions, ConnectInsertKeeps, CallbackKeeps, ExchangeKeeps, RelayUnchanged
     DEF RelayNext
<1>3. RelayInv => RelaySound
  BY DEF RelayInv
<1>4. QED
  BY <1>1, <1>2, <1>3, PTL DEF RelaySpec

-----------------------------------------------------------------------------
(***************************************************************************)
(* The token file of the proxy.                                            *)
(***************************************************************************)
Credential == [access : Nat, refresh : Nat, expires : Nat]

TokensTypeOK ==
    /\ file \in [Slots -> Credential] /\ hold \in [Slots -> Credential]
    /\ tmp \in [Slots -> Credential]
    /\ creds \in [Slots -> Nat]
    /\ lock \in Posts \cup {Task, "free"}
    /\ todo \subseteq Slots
    /\ step \in {"idle", "refresh", "write", "rename"}
    /\ got \in [Posts -> Nat]
    /\ issued \in 0..MaxIssues
    /\ origin \in [1..MaxIssues -> Nat]
    /\ accepted \subseteq 1..issued
    /\ broken \subseteq Slots

(* An entry f may become: itself, or one bought with a code or with what   *)
(* f holds.                                                                *)
Bought(e, f) ==
    \/ e = f
    \/ e.access \in 1..issued /\ (origin[e.access] = 0 \/ origin[e.access] = f.refresh)

(* What the holder of file_lock is about to write.                         *)
HoldInv ==
    /\ lock = "free" <=> step = "idle"
    /\ step = "refresh" => lock = Task
    /\ lock \in Posts => post[lock].pc = "store"
    /\ lock # Task \/ step \in {"write", "rename"} => todo = {} \/ lock = "free"
    /\ step = "rename" => tmp = hold
    /\ lock = Task => \A s \in todo : hold[s] = file[s]
    /\ lock # "free" => \A s \in Slots : Bought(hold[s], file[s])
    /\ \A i \in 1..MaxIssues : i > issued => origin[i] = 0
    /\ \A c \in Posts : post[c].pc = "store" => got[c] \in 1..issued /\ origin[got[c]] = 0

(* Every refresh token belongs to one slot, and a code's to its post until *)
(* the file gets it.                                                       *)
ApartInv ==
    /\ \A s \in Slots : file[s].refresh <= issued /\ hold[s].refresh <= issued
    /\ \A s, t \in Slots : s # t =>
         /\ file[s].refresh # 0 => file[s].refresh # file[t].refresh
         /\ file[s].refresh # 0 => file[s].refresh # hold[t].refresh
         /\ hold[s].refresh # 0 => hold[s].refresh # hold[t].refresh
    /\ \A c \in Posts : post[c].pc = "store" =>
         /\ \A s \in Slots : got[c] # file[s].refresh
         /\ lock # c => \A s \in Slots : got[c] # hold[s].refresh
         /\ \A d \in Posts : post[d].pc = "store" /\ got[d] = got[c] => c = d

(* What is on the disk, or is about to be, is accepted.                    *)
AcceptedInv ==
    /\ ~torn
    /\ \A c \in Posts : post[c].pc = "store" => got[c] \in accepted
    /\ \A s \in Slots \ broken :
         /\ lock = "free" /\ file[s].access # 0 => file[s].refresh \in accepted
         /\ lock # "free" /\ hold[s].access # 0 => hold[s].refresh \in accepted
    /\ \A s \in Slots : file[s].access # 0 => creds[s] \in {0, file[s].access}

TokensInv == TokensTypeOK /\ HoldInv /\ ApartInv /\ AcceptedInv

Working == RelayTypeOK /\ RelayInv /\ TokensInv

LEMMA TaskApart == Task \notin Posts /\ "free" \notin Posts /\ Task # "free"
  BY ProxyTokensAssumption DEF Task

LEMMA EntryIsCredential ==
    ASSUME clock \in Nat, NEW a \in Nat, NEW r \in Nat
    PROVE  /\ Entry(a, r) \in Credential
           /\ Entry(a, r).access = a /\ Entry(a, r).refresh = r
  BY ProxyTokensAssumption DEF Entry, Credential

(* A step of the relay alone, which neither makes nor ends a post that is  *)
(* about to store.                                                         *)
LEMMA RelayAlone ==
    ASSUME Working, UNCHANGED tokens,
           \A c \in Posts : post[c].pc = "store" \/ post'[c].pc = "store" => post'[c] = post[c]
    PROVE  TokensInv'
<1>1. UNCHANGED <<file, tmp, torn, creds, lock, hold, todo, step, got, issued, origin, accepted,
                  broken>>
  BY DEF tokens
<1>2. \A c \in Posts : post'[c].pc = "store" <=> post[c].pc = "store"
  OBVIOUS
<1>3. TokensTypeOK'
  BY <1>1 DEF Working, TokensInv, TokensTypeOK
<1>4. HoldInv'
  BY <1>1, <1>2 DEF Working, TokensInv, HoldInv, Bought
<1>5. ApartInv'
  BY <1>1, <1>2 DEF Working, TokensInv, ApartInv
<1>6. AcceptedInv'
  BY <1>1, <1>2 DEF Working, TokensInv, AcceptedInv
<1>7. QED
  BY <1>3, <1>4, <1>5, <1>6 DEF TokensInv

LEMMA RefreshBeginsKeeps == ASSUME Working, RefreshBegins PROVE TokensInv'
<1>1. /\ lock = "free" /\ lock' = Task /\ hold' = file /\ step' = "refresh"
      /\ todo' = {s \in Slots : Due(file[s])}
  BY DEF RefreshBegins
<1>2. UNCHANGED <<file, tmp, torn, creds, got, issued, origin, accepted, broken>>
  BY DEF RefreshBegins
<1>3. UNCHANGED post
  BY DEF RefreshBegins, relay
<1>4. TokensTypeOK'
  BY <1>1, <1>2 DEF Working, TokensInv, TokensTypeOK
<1>5. HoldInv'
  BY <1>1, <1>2, <1>3, TaskApart DEF Working, TokensInv, HoldInv, Bought
<1>6. ApartInv'
  BY <1>1, <1>2, <1>3 DEF Working, TokensInv, ApartInv
<1>7. AcceptedInv'
  BY <1>1, <1>2, <1>3, TaskApart DEF Working, TokensInv, AcceptedInv
<1>8. QED
  BY <1>4, <1>5, <1>6, <1>7 DEF TokensInv

(* An answer's refresh token is new, or the one it was bought with.        *)
LEMMA RefreshGrantedKeeps ==
    ASSUME Working, NEW s \in Slots, NEW rotates \in BOOLEAN, RefreshGranted(s, rotates)
    PROVE  TokensInv'
<1> USE TaskApart
<1>1. /\ lock = Task /\ s \in todo /\ issued < MaxIssues /\ hold[s].refresh \in accepted
      /\ issued' = issued + 1 /\ todo' = todo \ {s}
      /\ origin' = [origin EXCEPT ![issued + 1] = hold[s].refresh]
      /\ accepted' = IF rotates THEN (accepted \ {hold[s].refresh}) \cup {issued + 1} ELSE accepted
  BY DEF RefreshGranted
<1>2. UNCHANGED <<file, tmp, torn, creds, lock, step, got, broken>>
  BY DEF RefreshGranted
<1>3. UNCHANGED post
  BY DEF RefreshGranted, relay
<1>4. TokensTypeOK /\ HoldInv /\ ApartInv /\ AcceptedInv /\ issued \in Nat /\ MaxIssues \in Nat
  BY ProxyTokensAssumption DEF Working, TokensInv, TokensTypeOK
<1>5. PICK old \in Nat : old = hold[s].refresh /\ old # 0 /\ old <= issued
  BY <1>1, <1>4 DEF TokensTypeOK, Credential
<1>6. PICK new : new = (IF rotates THEN issued + 1 ELSE old)
  OBVIOUS
<1>7. PICK e : e = Renewed(hold[s], rotates)
  OBVIOUS
<1>8. e \in Credential /\ e.access = issued + 1 /\ e.refresh = new /\ new \in Nat
  BY <1>4, <1>5, <1>6, <1>7, EntryIsCredential DEF Renewed, Working, RelayTypeOK
<1>9. hold' = [hold EXCEPT ![s] = e]
  BY <1>7 DEF RefreshGranted
<1>10. hold'[s] = e /\ \A t \in Slots : t # s => hold'[t] = hold[t]
  BY <1>4, <1>9 DEF TokensTypeOK
<1>11. \A i \in 1..MaxIssues : origin'[i] = IF i = issued + 1 THEN old ELSE origin[i]
  BY <1>1, <1>4, <1>5 DEF TokensTypeOK
<1>12. TokensTypeOK'
  <2>1. hold' \in [Slots -> Credential]
    BY <1>4, <1>8, <1>9 DEF TokensTypeOK
  <2>2. issued' \in 0..MaxIssues /\ accepted' \subseteq 1..issued'
    <3>1. issued' \in 0..MaxIssues /\ accepted' \subseteq accepted \cup {issued'}
      BY <1>1, <1>4
    <3>2. /\ accepted \subseteq 1..issued /\ 1..issued \subseteq 1..issued'
          /\ issued' \in 1..issued'
      BY <1>1, <1>4 DEF TokensTypeOK
    <3>3. QED
      BY <1>1, <1>4, <3>1, <3>2
  <2>3. origin' \in [1..MaxIssues -> Nat]
    BY <1>1, <1>4, <1>5 DEF TokensTypeOK
  <2>4. QED
    BY <1>1, <1>2, <1>4, <2>1, <2>2, <2>3 DEF TokensTypeOK
<1>13. HoldInv'
  <2>1. \A t \in Slots : Bought(hold[t], file[t])
    BY <1>1, <1>4 DEF HoldInv
  <2>2. \A t \in Slots : t # s => Bought(hold[t], file[t])'
    BY <1>1, <1>2, <1>4, <1>10, <1>11, <2>1 DEF Bought, TokensTypeOK
  <2>3. Bought(hold[s], file[s])'
    <3>1. file[s].refresh = old
      BY <1>1, <1>4, <1>5 DEF HoldInv
    <3>2. origin'[issued + 1] = old
      BY <1>1, <1>4, <1>11
    <3>3. QED
      BY <1>1, <1>2, <1>4, <1>8, <1>10, <3>1, <3>2 DEF Bought
  <2>4. \A c \in Posts : post'[c].pc = "store" => got'[c] \in 1..issued' /\ origin'[got'[c]] = 0
    BY <1>1, <1>2, <1>3, <1>4, <1>11 DEF HoldInv
  <2>5. \A i \in 1..MaxIssues : i > issued' => origin'[i] = 0
    BY <1>1, <1>4, <1>11 DEF HoldInv
  <2>6. \A t \in todo' : hold'[t] = file'[t]
    BY <1>1, <1>2, <1>4, <1>10 DEF HoldInv, TokensTypeOK
  <2>7. step' # "rename" /\ step' # "write" /\ step' # "idle"
    BY <1>1, <1>2, <1>4 DEF HoldInv
  <2>8. QED
    BY <1>1, <1>2, <2>2, <2>3, <2>4, <2>5, <2>6, <2>7 DEF HoldInv
<1>14. \A t \in Slots : file[t].refresh \in Nat /\ hold[t].refresh \in Nat
  BY <1>4 DEF TokensTypeOK, Credential
<1>15. ApartInv'
  <2>1. \A t \in Slots : file'[t].refresh <= issued' /\ hold'[t].refresh <= issued'
    BY <1>1, <1>2, <1>4, <1>5, <1>6, <1>8, <1>10, <1>14 DEF ApartInv
  <2>2. \A t \in Slots : t # s =>
          new # file[t].refresh /\ new # hold[t].refresh
    BY <1>4, <1>5, <1>6, <1>14 DEF ApartInv
  <2>3. \A t, v \in Slots : t # v =>
         /\ file'[t].refresh # 0 => file'[t].refresh # file'[v].refresh
         /\ file'[t].refresh # 0 => file'[t].refresh # hold'[v].refresh
         /\ hold'[t].refresh # 0 => hold'[t].refresh # hold'[v].refresh
    BY <1>2, <1>4, <1>8, <1>10, <2>2 DEF ApartInv
  <2>4. \A c \in Posts : post'[c].pc = "store" =>
          got'[c] # new /\ \A t \in Slots : got'[c] # hold[t].refresh
    BY <1>1, <1>2, <1>3, <1>4, <1>5, <1>6 DEF ApartInv, HoldInv
  <2>5. \A c \in Posts : post'[c].pc = "store" =>
          /\ \A t \in Slots : got'[c] # file'[t].refresh
          /\ \A t \in Slots : got'[c] # hold'[t].refresh
          /\ \A d \in Posts : post'[d].pc = "store" /\ got'[d] = got'[c] => c = d
    BY <1>2, <1>3, <1>4, <1>8, <1>10, <2>4 DEF ApartInv
  <2>6. QED
    BY <2>1, <2>3, <2>5 DEF ApartInv
<1>16. AcceptedInv'
  <2>1. \A x \in accepted : x # old => x \in accepted'
    BY <1>1, <1>5
  <2>2. new \in accepted'
    BY <1>1, <1>5, <1>6
  <2>3. \A t \in Slots : t # s => hold[t].refresh # old
    BY <1>4, <1>5, <1>14 DEF ApartInv
  <2>4. \A t \in Slots \ broken' : hold'[t].access # 0 => hold'[t].refresh \in accepted'
    BY <1>1, <1>2, <1>4, <1>8, <1>10, <2>1, <2>2, <2>3 DEF AcceptedInv
  <2>5. \A c \in Posts : post'[c].pc = "store" => got'[c] \in accepted'
    BY <1>1, <1>2, <1>3, <1>4, <1>5, <2>1 DEF AcceptedInv, ApartInv
  <2>6. QED
    BY <1>1, <1>2, <1>4, <2>4, <2>5 DEF AcceptedInv
<1>17. QED
  BY <1>12, <1>13, <1>15, <1>16 DEF TokensInv

(* A rotation that gets lost takes no other slot's refresh token.          *)
LEMMA RefreshFailsKeeps ==
    ASSUME Working, NEW s \in Slots, NEW rotates \in BOOLEAN, RefreshFails(s, rotates)
    PROVE  TokensInv'
<1> USE TaskApart
<1>1. /\ lock = Task /\ s \in todo /\ todo' = todo \ {s}
      /\ accepted' = IF rotates THEN accepted \ {hold[s].refresh} ELSE accepted
      /\ broken' = IF rotates THEN broken \cup {s} ELSE broken
  BY DEF RefreshFails
<1>2. UNCHANGED <<file, tmp, torn, creds, lock, hold, step, got, issued, origin>>
  BY DEF RefreshFails
<1>3. UNCHANGED post
  BY DEF RefreshFails, relay
<1>4. TokensTypeOK /\ HoldInv /\ ApartInv /\ AcceptedInv
  BY DEF Working, TokensInv
<1>5. TokensTypeOK'
  BY <1>1, <1>2, <1>4 DEF TokensTypeOK
<1>6. HoldInv'
  BY <1>1, <1>2, <1>3, <1>4 DEF HoldInv, Bought
<1>7. ApartInv'
  BY <1>2, <1>3, <1>4 DEF ApartInv
<1>8. AcceptedInv'
  <2>1. 0 \notin accepted
    BY <1>4 DEF TokensTypeOK
  <2>2. \A t \in Slots : t # s /\ hold[t].refresh \in accepted => hold[t].refresh \in accepted'
    BY <1>1, <1>4, <2>1 DEF ApartInv
  <2>3. \A t \in Slots \ broken' : hold'[t].access # 0 => hold'[t].refresh \in accepted'
    BY <1>1, <1>2, <1>4, <2>2 DEF AcceptedInv
  <2>4. \A c \in Posts : post'[c].pc = "store" => got'[c] \in accepted'
    BY <1>1, <1>2, <1>3, <1>4 DEF AcceptedInv, ApartInv
  <2>5. QED
    BY <1>1, <1>2, <1>4, <2>3, <2>4 DEF AcceptedInv
<1>9. QED
  BY <1>5, <1>6, <1>7, <1>8 DEF TokensInv

LEMMA RefreshEndsKeeps == ASSUME Working, RefreshEnds PROVE TokensInv'
<1> USE TaskApart
<1>1. /\ lock = Task /\ step = "refresh" /\ todo = {}
      /\ \/ hold = file /\ lock' = "free" /\ step' = "idle"
         \/ lock' = Task /\ step' = "write"
  BY DEF RefreshEnds
<1>2. UNCHANGED <<file, tmp, torn, creds, hold, todo, got, issued, origin, accepted, broken>>
  BY DEF RefreshEnds
<1>3. UNCHANGED post
  BY DEF RefreshEnds, relay
<1>4. TokensTypeOK /\ HoldInv /\ ApartInv /\ AcceptedInv
  BY DEF Working, TokensInv
<1>5. TokensTypeOK'
  BY <1>1, <1>2, <1>4 DEF TokensTypeOK
<1>6. HoldInv'
  BY <1>1, <1>2, <1>3, <1>4 DEF HoldInv, Bought
<1>7. ApartInv'
  BY <1>1, <1>2, <1>3, <1>4 DEF ApartInv
<1>8. AcceptedInv'
  BY <1>1, <1>2, <1>3, <1>4 DEF AcceptedInv
<1>9. QED
  BY <1>5, <1>6, <1>7, <1>8 DEF TokensInv

(* A code's issue is nobody's but the post's.                              *)
LEMMA ExchangeIssuesKeeps ==
    ASSUME Working, NEW c \in Posts, ExchangeIssues(c)
    PROVE  TokensInv'
<1>1. /\ issued < MaxIssues /\ issued' = issued + 1
      /\ accepted' = accepted \cup {issued + 1}
      /\ got' = [got EXCEPT ![c] = issued + 1]
  BY DEF ExchangeIssues
<1>2. UNCHANGED <<file, tmp, torn, creds, lock, hold, todo, step, origin, broken>>
  BY DEF ExchangeIssues
<1>3. TokensTypeOK /\ HoldInv /\ ApartInv /\ AcceptedInv /\ issued \in Nat /\ MaxIssues \in Nat
  BY ProxyTokensAssumption DEF Working, TokensInv, TokensTypeOK
<1>4. post[c].pc = "exchange" /\ \A d \in Posts : d # c => post'[d] = post[d]
  BY DEF ExchangeIssues, exchange_code, Working, RelayTypeOK
<1>5. lock # c
  BY <1>3, <1>4 DEF HoldInv
<1>6. got'[c] = issued + 1 /\ \A d \in Posts : d # c => got'[d] = got[d]
  BY <1>1, <1>3 DEF TokensTypeOK
<1>7. TokensTypeOK'
  <2>1. accepted \subseteq 1..issued /\ 1..issued \subseteq 1..(issued + 1)
    BY <1>3 DEF TokensTypeOK
  <2>2. issued' \in 0..MaxIssues /\ accepted' \subseteq 1..issued'
    BY <1>1, <1>3, <2>1
  <2>3. got' \in [Posts -> Nat]
    BY <1>1, <1>3 DEF TokensTypeOK
  <2>4. QED
    BY <1>2, <1>3, <2>2, <2>3 DEF TokensTypeOK
<1>8. HoldInv'
  <2>1. lock # "free" => \A s \in Slots : Bought(hold[s], file[s])'
    BY <1>1, <1>2, <1>3 DEF HoldInv, Bought
  <2>2. \A d \in Posts : post'[d].pc = "store" => got'[d] \in 1..issued' /\ origin'[got'[d]] = 0
    <3>1. origin[issued + 1] = 0
      BY <1>1, <1>3 DEF HoldInv
    <3>2. QED
      BY <1>1, <1>2, <1>3, <1>4, <1>6, <3>1 DEF HoldInv
  <2>3. lock \in Posts => post'[lock].pc = "store"
    BY <1>3, <1>4, <1>5 DEF HoldInv
  <2>4. \A i \in 1..MaxIssues : i > issued' => origin'[i] = 0
    BY <1>1, <1>2, <1>3 DEF HoldInv
  <2>5. QED
    BY <1>2, <1>3, <2>1, <2>2, <2>3, <2>4 DEF HoldInv
<1>9. \A t \in Slots : file[t].refresh \in Nat /\ hold[t].refresh \in Nat
  BY <1>3 DEF TokensTypeOK, Credential
<1>10. \A s \in Slots : file'[s].refresh <= issued' /\ hold'[s].refresh <= issued'
  BY <1>1, <1>2, <1>3, <1>9 DEF ApartInv
<1>11. /\ \A s \in Slots : issued + 1 # file[s].refresh /\ issued + 1 # hold[s].refresh
       /\ \A d \in Posts : post[d].pc = "store" => issued + 1 # got[d]
  BY <1>3, <1>9 DEF ApartInv, HoldInv
<1>12. \A d \in Posts : post'[d].pc = "store" =>
         /\ \A s \in Slots : got'[d] # file'[s].refresh
         /\ lock' # d => \A s \in Slots : got'[d] # hold'[s].refresh
         /\ \A b \in Posts : post'[b].pc = "store" /\ got'[b] = got'[d] => d = b
  BY <1>2, <1>3, <1>4, <1>6, <1>11 DEF ApartInv
<1>13. ApartInv'
  BY <1>2, <1>3, <1>10, <1>12 DEF ApartInv
<1>14. AcceptedInv'
  BY <1>1, <1>2, <1>3, <1>4, <1>6 DEF AcceptedInv
<1>15. QED
  BY <1>7, <1>8, <1>13, <1>14 DEF TokensInv

LEMMA StoreBeginsKeeps ==
    ASSUME Working, NEW c \in Posts, StoreBegins(c)
    PROVE  TokensInv'
<1> USE TaskApart
<1>1. /\ post[c].pc = "store" /\ lock = "free"
      /\ lock' = c /\ step' = "write" /\ todo' = {}
  BY DEF StoreBegins
<1>2. UNCHANGED <<file, tmp, torn, creds, got, issued, origin, accepted>>
  BY DEF StoreBegins
<1>3. UNCHANGED post
  BY DEF StoreBegins, relay
<1>4. TokensTypeOK /\ HoldInv /\ ApartInv /\ AcceptedInv
  BY DEF Working, TokensInv
<1>5. PICK p \in Slots : p = post[c].provider
  BY <1>1 DEF Working, RelayInv, Slots
<1>6. PICK g : g = got[c] /\ g \in 1..issued /\ g \in Nat /\ origin[g] = 0
  BY <1>1, <1>4 DEF HoldInv, TokensTypeOK
<1>7. PICK e : e = Entry(g, g)
  OBVIOUS
<1>8. e \in Credential /\ e.access = g /\ e.refresh = g
  BY <1>6, <1>7, EntryIsCredential DEF Working, RelayTypeOK
<1>9. hold' = [file EXCEPT ![p] = e] /\ broken' = broken \ {p}
  BY <1>5, <1>6, <1>7 DEF StoreBegins
<1>10. hold'[p] = e /\ \A s \in Slots : s # p => hold'[s] = file[s]
  BY <1>4, <1>9 DEF TokensTypeOK
<1>11. TokensTypeOK'
  <2>1. hold' \in [Slots -> Credential]
    BY <1>4, <1>8, <1>9 DEF TokensTypeOK
  <2>2. QED
    BY <1>1, <1>2, <1>4, <1>9, <2>1 DEF TokensTypeOK
<1>12. HoldInv'
  <2>1. \A s \in Slots : Bought(hold[s], file[s])'
    BY <1>2, <1>6, <1>8, <1>10 DEF Bought
  <2>2. QED
    BY <1>1, <1>2, <1>3, <1>4, <2>1 DEF HoldInv
<1>13. ApartInv'
  <2>1. \A s \in Slots : g # file[s].refresh
    BY <1>1, <1>4, <1>6 DEF ApartInv
  <2>2. \A s \in Slots : file'[s].refresh <= issued' /\ hold'[s].refresh <= issued'
    BY <1>2, <1>4, <1>6, <1>8, <1>10 DEF ApartInv, TokensTypeOK
  <2>3. \A s, t \in Slots : s # t =>
         /\ file'[s].refresh # 0 => file'[s].refresh # file'[t].refresh
         /\ file'[s].refresh # 0 => file'[s].refresh # hold'[t].refresh
         /\ hold'[s].refresh # 0 => hold'[s].refresh # hold'[t].refresh
    BY <1>2, <1>4, <1>8, <1>10, <2>1 DEF ApartInv
  <2>4. \A d \in Posts : post'[d].pc = "store" =>
         /\ \A s \in Slots : got'[d] # file'[s].refresh
         /\ lock' # d => \A s \in Slots : got'[d] # hold'[s].refresh
         /\ \A b \in Posts : post'[b].pc = "store" /\ got'[b] = got'[d] => d = b
    BY <1>1, <1>2, <1>3, <1>4, <1>6, <1>8, <1>10 DEF ApartInv
  <2>5. QED
    BY <2>2, <2>3, <2>4 DEF ApartInv
<1>14. AcceptedInv'
  <2>1. g \in accepted
    BY <1>1, <1>4, <1>6 DEF AcceptedInv
  <2>2. \A s \in Slots \ broken' : hold'[s].access # 0 => hold'[s].refresh \in accepted'
    BY <1>1, <1>2, <1>4, <1>8, <1>9, <1>10, <2>1 DEF AcceptedInv
  <2>3. QED
    BY <1>1, <1>2, <1>3, <1>4, <2>2 DEF AcceptedInv
<1>15. QED
  BY <1>11, <1>12, <1>13, <1>14 DEF TokensInv

LEMMA WriteTmpKeeps == ASSUME Working, WriteTmp PROVE TokensInv'
<1>1. step = "write" /\ tmp' = hold /\ step' = "rename"
  BY DEF WriteTmp
<1>2. UNCHANGED <<file, torn, creds, lock, hold, todo, got, issued, origin, accepted, broken>>
  BY DEF WriteTmp
<1>3. UNCHANGED post
  BY DEF WriteTmp, relay
<1>4. TokensTypeOK /\ HoldInv /\ ApartInv /\ AcceptedInv
  BY DEF Working, TokensInv
<1>5. TokensTypeOK'
  BY <1>1, <1>2, <1>4 DEF TokensTypeOK
<1>6. HoldInv'
  BY <1>1, <1>2, <1>3, <1>4 DEF HoldInv, Bought
<1>7. ApartInv'
  BY <1>2, <1>3, <1>4 DEF ApartInv
<1>8. AcceptedInv'
  BY <1>2, <1>3, <1>4 DEF AcceptedInv
<1>9. QED
  BY <1>5, <1>6, <1>7, <1>8 DEF TokensInv

(* Letting go of file_lock ends the post that held it.                     *)
LEMMA Released ==
    ASSUME Working, Release, step \in {"write", "rename"}
    PROVE  /\ lock' = "free" /\ step' = "idle" /\ lock # "free"
           /\ post' \in [Posts -> Post]
           /\ \A c \in Posts : post'[c] \in {post[c], NoPost}
           /\ \A c \in Posts : post'[c].pc = "store" => post[c].pc = "store" /\ lock # c
           /\ todo = {}
           /\ UNCHANGED <<pending, relays, connecting, exchanged, clock>>
<1> USE TaskApart
<1>1. /\ lock' = "free" /\ step' = "idle"
      /\ UNCHANGED <<pending, relays, connecting, exchanged, clock>>
      /\ IF lock = Task THEN post' = post ELSE post' = [post EXCEPT ![lock] = NoPost]
  BY DEF Release
<1>2. lock # "free" /\ todo = {} /\ lock \in Posts \cup {Task}
  BY DEF Working, TokensInv, HoldInv, TokensTypeOK
<1>3. NoPost.pc = "idle"
  BY DEF NoPost
<1>4. CASE lock = Task
  BY <1>1, <1>2, <1>4 DEF Working, RelayTypeOK
<1>5. CASE lock \in Posts
  BY <1>1, <1>2, <1>3, <1>5, PostEnds DEF Working, RelayTypeOK
<1>6. QED
  BY <1>2, <1>4, <1>5

(* What the posts that are about to store hold stays as it is when no more *)
(* of them do.                                                             *)
LEMMA FewerStore ==
    ASSUME Working, lock' = "free", UNCHANGED <<file, hold, got, issued, origin>>,
           \A c \in Posts : post'[c].pc = "store" => post[c].pc = "store" /\ lock # c
    PROVE  ApartInv'
<1>1. ApartInv
  BY DEF Working, TokensInv
<1>2. QED
  BY <1>1 DEF ApartInv

LEMMA RenameKeeps == ASSUME Working, Rename PROVE TokensInv'
<1> USE TaskApart
<1>1. /\ step = "rename" /\ file' = tmp /\ torn' = FALSE /\ Release
      /\ creds' = update_credentials(creds, hold)
  BY DEF Rename
<1>2. UNCHANGED <<tmp, hold, todo, got, issued, origin, accepted, broken>>
  BY DEF Rename
<1>3. TokensTypeOK /\ HoldInv /\ ApartInv /\ AcceptedInv
  BY DEF Working, TokensInv
<1>4. /\ lock' = "free" /\ step' = "idle" /\ lock # "free" /\ todo = {}
      /\ \A c \in Posts : post'[c].pc = "store" => post[c].pc = "store" /\ lock # c
  BY <1>1, Released
<1>5. file' = hold
  BY <1>1, <1>3 DEF HoldInv
<1>6. \A s \in Slots : creds'[s] = IF hold[s].access = 0 THEN creds[s]
                                   ELSE IF hold[s].expires > clock THEN hold[s].access ELSE 0
  BY <1>1 DEF update_credentials
<1>7. TokensTypeOK'
  <2>1. creds' \in [Slots -> Nat]
    BY <1>1, <1>3 DEF update_credentials, TokensTypeOK, Credential
  <2>2. QED
    BY <1>2, <1>3, <1>4, <1>5, <2>1 DEF TokensTypeOK
<1>8. HoldInv'
  BY <1>2, <1>3, <1>4 DEF HoldInv
<1>9. ApartInv'
  BY <1>2, <1>3, <1>4, <1>5 DEF ApartInv
<1>10. AcceptedInv'
  BY <1>1, <1>2, <1>3, <1>4, <1>5, <1>6 DEF AcceptedInv
<1>11. QED
  BY <1>7, <1>8, <1>9, <1>10 DEF TokensInv

(* What was in the file is accepted still where the holder got no other    *)
(* refresh token for it.                                                   *)
LEMMA FileAccepted ==
    ASSUME Working, NEW s \in Slots \ broken, file[s].access # 0,
           lock = "free" \/ hold[s].refresh = file[s].refresh
    PROVE  file[s].refresh \in accepted
<1>1. TokensTypeOK /\ HoldInv /\ AcceptedInv
  BY DEF Working, TokensInv
<1>2. CASE lock = "free"
  BY <1>1, <1>2 DEF AcceptedInv
<1>3. CASE lock # "free" /\ hold[s].refresh = file[s].refresh
  <2>1. Bought(hold[s], file[s])
    BY <1>1, <1>3 DEF HoldInv
  <2>2. hold[s].access # 0
    BY <2>1, <1>1 DEF Bought
  <2>3. QED
    BY <1>1, <1>3, <2>2 DEF AcceptedInv
<1>4. QED
  BY <1>2, <1>3

LEMMA WriteFailsKeeps == ASSUME Working, WriteFails PROVE TokensInv'
<1> USE TaskApart
<1>1. /\ step \in {"write", "rename"} /\ Release
      /\ broken' = broken \cup {s \in Slots : hold[s].refresh # file[s].refresh}
  BY DEF WriteFails
<1>2. UNCHANGED <<file, tmp, torn, creds, hold, todo, got, issued, origin, accepted>>
  BY DEF WriteFails
<1>3. TokensTypeOK /\ HoldInv /\ ApartInv /\ AcceptedInv
  BY DEF Working, TokensInv
<1>4. /\ lock' = "free" /\ step' = "idle" /\ todo = {}
      /\ \A c \in Posts : post'[c].pc = "store" => post[c].pc = "store" /\ lock # c
  BY <1>1, Released
<1>5. TokensTypeOK'
  BY <1>1, <1>2, <1>3, <1>4 DEF TokensTypeOK
<1>6. HoldInv'
  BY <1>2, <1>3, <1>4 DEF HoldInv
<1>7. ApartInv'
  BY <1>2, <1>4, FewerStore
<1>8. \A s \in Slots \ broken' : file'[s].access # 0 => file'[s].refresh \in accepted'
  BY <1>1, <1>2, FileAccepted
<1>9. AcceptedInv'
  BY <1>2, <1>3, <1>4, <1>8 DEF AcceptedInv
<1>10. QED
  BY <1>5, <1>6, <1>7, <1>9 DEF TokensInv

LEMMA CrashRestartKeeps == ASSUME Working, CrashRestart PROVE TokensInv'
<1> USE TaskApart
<1>1. /\ lock' = "free" /\ step' = "idle" /\ post' = [c \in Posts |-> NoPost]
      /\ broken' = broken \cup (IF lock = "free" THEN {}
                                ELSE {s \in Slots : hold[s].refresh # file[s].refresh})
  BY DEF CrashRestart
<1>2. UNCHANGED <<file, tmp, torn, hold, todo, got, issued, origin, accepted>>
  BY DEF CrashRestart
<1>3. TokensTypeOK /\ HoldInv /\ ApartInv /\ AcceptedInv
  BY DEF Working, TokensInv
<1>4. \A c \in Posts : post'[c].pc # "store"
  BY <1>1 DEF NoPost
<1>5. creds' = update_credentials([s \in Slots |-> 0], file)
  BY <1>3 DEF CrashRestart, AcceptedInv
<1>6. \A s \in Slots : creds'[s] \in {0, file[s].access}
  BY <1>5 DEF update_credentials
<1>7. TokensTypeOK'
  <2>1. creds' \in [Slots -> Nat]
    BY <1>3, <1>5 DEF update_credentials, TokensTypeOK, Credential
  <2>2. QED
    BY <1>1, <1>2, <1>3, <2>1 DEF TokensTypeOK
<1>8. HoldInv'
  BY <1>1, <1>2, <1>3, <1>4 DEF HoldInv
<1>9. ApartInv'
  BY <1>2, <1>3, <1>4 DEF ApartInv
<1>10. \A s \in Slots \ broken' : file'[s].access # 0 => file'[s].refresh \in accepted'
  BY <1>1, <1>2, FileAccepted
<1>11. AcceptedInv'
  BY <1>1, <1>2, <1>3, <1>4, <1>6, <1>10 DEF AcceptedInv
<1>12. QED
  BY <1>7, <1>8, <1>9, <1>11 DEF TokensInv

(* The relay's part of a step of the proxy.                                *)
LEMMA ProxyRelayStep ==
    ASSUME Working, [TokensNext]_<<tokens, relay>>
    PROVE  RelayTypeOK' /\ RelayInv'
<1> USE DEF Working
<1>1. CASE \E p \in Slots : proxy_provider_connect(p)
  BY <1>1, ProxyTokensAssumption, RelayQuietActions DEF proxy_provider_connect, Slots
<1>2. CASE ProxyConnectInsert
  BY <1>2, ProxyTokensAssumption, InsertKeeps DEF ProxyConnectInsert
<1>3. CASE (\E r \in Relays : proxy_relay_script(r)) \/ (\E c \in Posts : ExchangeRefused(c)) \/ Tick
  BY <1>3, RelayQuietActions DEF proxy_relay_script
<1>4. CASE \E c \in Posts, r \in Relays, p \in Slots, s \in Relays : proxy_relay_callback(c, r, p, s)
  BY <1>4, CallbackKeeps DEF proxy_relay_callback, Slots
<1>5. CASE \E c \in Posts : ExchangeIssues(c)
  BY <1>5, ExchangeKeeps DEF ExchangeIssues
<1>6. CASE UNCHANGED relay
  BY <1>6, RelayUnchanged
<1>7. CASE Rename \/ WriteFails
  <2>1. Release /\ step \in {"write", "rename"}
    BY <1>7 DEF Rename, WriteFails
  <2>2. /\ post' \in [Posts -> Post]
        /\ \A c \in Posts : post'[c] \in {post[c], NoPost}
        /\ UNCHANGED <<pending, relays, connecting, exchanged, clock>>
    BY <2>1, Released
  <2>3. QED
    BY <2>2, RelayQuiet DEF RelayTypeOK
<1>8. CASE CrashRestart
  <2>1. /\ pending' = <<>> /\ connecting' = [u \in Users |-> "none"]
        /\ post' = [c \in Posts |-> NoPost]
        /\ UNCHANGED <<relays, exchanged, clock>>
    BY <1>8 DEF CrashRestart
  <2>2. DOMAIN pending' = {}
    BY <2>1
  <2>3. post' \in [Posts -> Post] /\ \A c \in Posts : post'[c] = NoPost
    BY <2>1, NoPostIsPost
  <2>4. connecting' \in [Users -> RelayProviders \cup {"none"}]
    BY <2>1
  <2>5. QED
    BY <2>1, <2>2, <2>3, <2>4, RelayQuiet DEF RelayTypeOK
<1>9. QED
  BY <1>1, <1>2, <1>3, <1>4, <1>5, <1>6, <1>7, <1>8
     DEF TokensNext, RefreshBegins, RefreshEnds, WriteTmp, RefreshGranted, RefreshFails, StoreBegins

(* The relay's own steps leave the posts that are about to store.          *)
LEMMA StoringStays ==
    ASSUME Working,
           \/ \E p \in Slots : proxy_provider_connect(p)
           \/ ProxyConnectInsert
           \/ \E r \in Relays : proxy_relay_script(r)
           \/ \E c \in Posts, r \in Relays, p \in Slots, s \in Relays : proxy_relay_callback(c, r, p, s)
           \/ \E c \in Posts : ExchangeRefused(c) /\ UNCHANGED tokens
           \/ Tick /\ UNCHANGED tokens
    PROVE  /\ UNCHANGED tokens
           /\ \A c \in Posts : post[c].pc = "store" \/ post'[c].pc = "store" => post'[c] = post[c]
<1>1. CASE UNCHANGED <<tokens, post>>
  BY <1>1
<1>2. CASE \E c \in Posts, r \in Relays, p \in Slots, s \in Relays : proxy_relay_callback(c, r, p, s)
  <2>1. PICK c \in Posts, r \in Relays, p \in Slots, s \in Relays : proxy_relay_callback(c, r, p, s)
    BY <1>2
  <2>2. PICK e : post' = [post EXCEPT ![c] = e] /\ e.pc # "store"
    <3>1. PICK e : /\ post' = [post EXCEPT ![c] = e]
                   /\ \/ e = NoPost
                      \/ e = [pc |-> "exchange", relay |-> r, user |-> pending[r].user, provider |-> p,
                              born |-> pending[r].born, at |-> clock]
      BY <2>1 DEF proxy_relay_callback, relay_callback
    <3>2. e.pc # "store"
      BY <3>1 DEF NoPost
    <3>3. QED
      BY <3>1, <3>2
  <2>3. UNCHANGED tokens /\ post[c].pc = "idle"
    BY <2>1 DEF proxy_relay_callback, relay_callback
  <2>4. QED
    BY <2>2, <2>3 DEF Working, RelayTypeOK
<1>3. CASE \E c \in Posts : ExchangeRefused(c) /\ UNCHANGED tokens
  <2>1. PICK c \in Posts : ExchangeRefused(c) /\ UNCHANGED tokens
    BY <1>3
  <2>2. post' = [post EXCEPT ![c] = NoPost] /\ post[c].pc = "exchange" /\ NoPost.pc # "store"
    BY <2>1 DEF ExchangeRefused, NoPost
  <2>3. QED
    BY <2>1, <2>2 DEF Working, RelayTypeOK
<1>4. QED
  BY <1>1, <1>2, <1>3 DEF proxy_provider_connect, provider_connect, ProxyConnectInsert, Insert,
     proxy_relay_script, relay_script, Tick

LEMMA ProxyStep == Working /\ [TokensNext]_<<tokens, relay>> => Working'
<1> SUFFICES ASSUME Working, [TokensNext]_<<tokens, relay>> PROVE Working'
  OBVIOUS
<1>1. RelayTypeOK' /\ RelayInv'
  BY ProxyRelayStep
<1>2. TokensInv'
  <2>1. CASE UNCHANGED <<tokens, relay>>
    BY <2>1, RelayAlone DEF relay
  <2>2. CASE \/ \E p \in Slots : proxy_provider_connect(p)
             \/ ProxyConnectInsert
             \/ \E r \in Relays : proxy_relay_script(r)
             \/ \E c \in Posts, r \in Relays, p \in Slots, s \in Relays :
                   proxy_relay_callback(c, r, p, s)
             \/ \E c \in Posts : ExchangeRefused(c) /\ UNCHANGED tokens
             \/ Tick /\ UNCHANGED tokens
    BY <2>2, StoringStays, RelayAlone
  <2>3. CASE \E s \in Slots, rotates \in BOOLEAN :
               RefreshGranted(s, rotates) \/ RefreshFails(s, rotates)
    BY <2>3, RefreshGrantedKeeps, RefreshFailsKeeps
  <2>4. CASE \E c \in Posts : ExchangeIssues(c) \/ StoreBegins(c)
    BY <2>4, ExchangeIssuesKeeps, StoreBeginsKeeps
  <2>5. CASE RefreshBegins \/ RefreshEnds \/ WriteTmp \/ Rename \/ WriteFails \/ CrashRestart
    BY <2>5, RefreshBeginsKeeps, RefreshEndsKeeps, WriteTmpKeeps, RenameKeeps, WriteFailsKeeps,
       CrashRestartKeeps
  <2>6. QED
    BY <2>1, <2>2, <2>3, <2>4, <2>5 DEF TokensNext
<1>3. QED
  BY <1>1, <1>2 DEF Working

LEMMA ProxyInitHolds == TokensInit => Working
<1> SUFFICES ASSUME TokensInit PROVE Working
  OBVIOUS
<1> USE ProxyTokensAssumption DEF TokensInit
<1>1. RelayTypeOK /\ RelayInv
  BY RelayInitHolds
<1>2. \A c \in Posts : post[c].pc = "idle"
  BY DEF RelayInit, NoPost
<1>3. \A s \in Slots : file[s] = NoEntry /\ hold[s] = NoEntry
  BY DEF NoFile
<1>4. NoEntry \in Credential /\ NoEntry.access = 0 /\ NoEntry.refresh = 0
  BY DEF NoEntry, Credential
<1>5. TokensTypeOK
  BY <1>4, TaskApart DEF TokensTypeOK, NoFile
<1>6. HoldInv
  BY <1>2, TaskApart DEF HoldInv
<1>7. ApartInv
  BY <1>2, <1>3, <1>4 DEF ApartInv
<1>8. AcceptedInv
  BY <1>2, <1>3, <1>4 DEF AcceptedInv
<1>9. QED
  BY <1>1, <1>5, <1>6, <1>7, <1>8 DEF Working, TokensInv

(* The relay in front of the token file keeps the promise too, crashes     *)
(* included: a crash forgets the relay tokens.                             *)
THEOREM ProxyRelayOnce == TokensSpec => []RelaySound
<1>1. Working => RelaySound
  BY DEF Working, RelayInv
<1>2. QED
  BY <1>1, ProxyInitHolds, ProxyStep, PTL DEF TokensSpec

(* Between two writes the file is whole, what it holds is accepted by the  *)
(* providers unless an answer, a write or a process got lost, and what     *)
(* requests are sent with is in it ("Atomically write the token file").    *)
THEOREM ProxyAtRest == TokensSpec => []TokensAtRest
<1>1. Working => TokensAtRest
  BY DEF Working, TokensInv, AcceptedInv, TokensAtRest, FileWhole, RefreshTokenAccepted, LiveIsStored
<1>2. QED
  BY <1>1, ProxyInitHolds, ProxyStep, PTL DEF TokensSpec

(* The background refresh and a relay's store never undo each other: an    *)
(* entry changes by a code or by renewing what the file held.              *)
THEOREM ProxyLosesNoEntry == TokensSpec => NoLostEntry
<1>1. ASSUME Working, [TokensNext]_<<tokens, relay>>
      PROVE  [\A s \in Slots : file'[s] # file[s] =>
                 LET i == file'[s].access
                 IN i # 0 /\ (origin[i] = 0 \/ origin[i] = file[s].refresh)]_<<tokens, relay>>
  <2>1. CASE UNCHANGED file
    BY <2>1
  <2>2. CASE Rename
    <3>1. step = "rename" /\ file' = tmp
      BY <2>2 DEF Rename
    <3>2. file' = hold /\ \A s \in Slots : Bought(hold[s], file[s])
      BY <1>1, <3>1 DEF Working, TokensInv, HoldInv
    <3>3. ASSUME NEW s \in Slots, file'[s] # file[s]
          PROVE  LET i == file'[s].access
                 IN i # 0 /\ (origin[i] = 0 \/ origin[i] = file[s].refresh)
      <4>1. /\ hold[s].access \in 1..issued
            /\ origin[hold[s].access] = 0 \/ origin[hold[s].access] = file[s].refresh
        BY <3>2, <3>3 DEF Bought
      <4>2. QED
        BY <3>2, <4>1
    <3>4. QED
      BY <3>3
  <2>3. QED
    BY <1>1, <2>1, <2>2 DEF TokensNext, tokens, proxy_provider_connect, ProxyConnectInsert,
       proxy_relay_script, proxy_relay_callback, RefreshBegins, RefreshEnds, WriteTmp, WriteFails,
       CrashRestart, RefreshGranted, RefreshFails, ExchangeIssues, StoreBegins
<1>2. QED
  BY <1>1, ProxyInitHolds, ProxyStep, PTL DEF TokensSpec, NoLostEntry

-----------------------------------------------------------------------------
(***************************************************************************)
(* The Copilot connection.                                                 *)
(***************************************************************************)
CopilotRow == [code : 0..MaxCodes, token : BOOLEAN, expires : Nat]

DevicePoll ==
    [pc : {"idle", "github", "store"}, user : CopilotUsers \cup {"none"}, code : 0..MaxCodes]

CopilotTypeOK ==
    /\ now \in Nat /\ codes \in 0..MaxCodes
    /\ owner \in [Codes -> CopilotUsers \cup {"none"}]
    /\ poll \in [Polls -> DevicePoll]
    /\ row \in [CopilotUsers -> CopilotRow]
    /\ asked \in [CopilotUsers -> 0..MaxCodes]
    /\ raced \subseteq CopilotUsers
    /\ DOMAIN renewing \subseteq CopilotUsers

(* The code is one of those issued, and was issued to u.                   *)
IssuedTo(d, u) == d \in 1..codes /\ owner[d] = u

(* Whoever holds a device code, or the token it was granted for, is the    *)
(* user it was issued to.                                                  *)
OwnerInv ==
    /\ \A d \in DOMAIN devices : devices[d].user \in CopilotUsers /\ IssuedTo(d, devices[d].user)
    /\ \A q \in Polls : poll[q].pc # "idle" =>
         poll[q].user \in CopilotUsers /\ IssuedTo(poll[q].code, poll[q].user)
    /\ \A u \in CopilotUsers : row[u] # NoRow => IssuedTo(row[u].code, u)
    /\ \A u \in DOMAIN renewing : IssuedTo(renewing[u].code, u)

(* Of a user the refresh task did not race, the row and the task's copy of *)
(* it are of the last connect.                                             *)
FollowInv ==
    \A u \in CopilotUsers \ raced :
        /\ row[u].code = asked[u]
        /\ u \in DOMAIN renewing => renewing[u].code = asked[u]

CopilotInv == CopilotTypeOK /\ OwnerInv /\ FollowInv

LEMMA FetchedIsRow ==
    ASSUME CopilotTypeOK, NEW d \in 0..MaxCodes, NEW ok \in BOOLEAN
    PROVE  Fetched(d, ok) \in CopilotRow /\ Fetched(d, ok).code = d
<1>1. (IF ok THEN now + CopilotLifetime ELSE 0) \in Nat
  BY CopilotTokensAssumption DEF CopilotTypeOK
<1>2. QED
  BY <1>1 DEF Fetched, CopilotRow

LEMMA NoRowIsRow == NoRow \in CopilotRow /\ NoRow.code = 0 /\ NoRow.token = FALSE
  BY CopilotTokensAssumption DEF NoRow, CopilotRow

LEMMA NoPollIsPoll == NoPoll \in DevicePoll /\ NoPoll.pc = "idle"
  BY CopilotTokensAssumption DEF NoPoll, DevicePoll

(* A step that issues nothing and touches no row: devices and copies may   *)
(* go, polls may end.                                                      *)
LEMMA CopilotQuiet ==
    ASSUME CopilotInv,
           DOMAIN devices' \subseteq DOMAIN devices,
           \A d \in DOMAIN devices' : devices'[d] = devices[d],
           poll' \in [Polls -> DevicePoll],
           \A q \in Polls : \/ poll'[q] \in {poll[q], NoPoll}
                            \/ poll[q].pc # "idle" /\ poll'[q].user = poll[q].user
                                                  /\ poll'[q].code = poll[q].code,
           DOMAIN renewing' \subseteq DOMAIN renewing,
           \A u \in DOMAIN renewing' : renewing'[u] = renewing[u],
           now' \in Nat,
           UNCHANGED <<codes, owner, row, asked, raced>>
    PROVE  CopilotInv'
<1>1. CopilotTypeOK /\ OwnerInv /\ FollowInv
  BY DEF CopilotInv
<1>2. CopilotTypeOK'
  BY <1>1 DEF CopilotTypeOK
<1>3. \A d, u : IssuedTo(d, u)' <=> IssuedTo(d, u)
  BY DEF IssuedTo
<1>4. \A q \in Polls : poll'[q].pc # "idle" =>
        poll[q].pc # "idle" /\ poll'[q].user = poll[q].user /\ poll'[q].code = poll[q].code
  BY NoPollIsPoll
<1>5. \A q \in Polls : poll'[q].pc # "idle" =>
        poll'[q].user \in CopilotUsers /\ IssuedTo(poll[q].code, poll[q].user)'
  BY <1>1, <1>4 DEF OwnerInv, IssuedTo
<1>6. OwnerInv'
  BY <1>1, <1>5 DEF OwnerInv, IssuedTo
<1>7. FollowInv'
  BY <1>1 DEF FollowInv
<1>8. QED
  BY <1>2, <1>6, <1>7 DEF CopilotInv

LEMMA CopilotQuietActions ==
    ASSUME CopilotInv,
           \/ \E q \in Polls, b \in BOOLEAN : PollRefused(q, b)
           \/ \E q \in Polls : PollGranted(q) \/ PollLost(q)
           \/ \E u \in CopilotUsers : RefreshUnstored(u)
           \/ CopilotTick \/ UNCHANGED copilot
    PROVE  CopilotInv'
<1>1. CopilotTypeOK
  BY DEF CopilotInv
<1>2. CASE \E q \in Polls, b \in BOOLEAN : PollRefused(q, b)
  <2>1. PICK q \in Polls, b \in BOOLEAN : PollRefused(q, b)
    BY <1>2
  <2>2. /\ DOMAIN devices' \subseteq DOMAIN devices
        /\ \A d \in DOMAIN devices' : devices'[d] = devices[d]
    BY <2>1 DEF PollRefused, Drop, Restrict
  <2>3. /\ poll' \in [Polls -> DevicePoll]
        /\ \A x \in Polls : poll'[x] \in {poll[x], NoPoll}
    BY <1>1, <2>1, NoPollIsPoll DEF PollRefused, CopilotTypeOK
  <2>4. UNCHANGED <<codes, owner, row, renewing, asked, raced, now>>
    BY <2>1 DEF PollRefused
  <2>5. QED
    BY <1>1, <2>2, <2>3, <2>4, CopilotQuiet DEF CopilotTypeOK
<1>3. CASE \E q \in Polls : PollGranted(q)
  <2>1. PICK q \in Polls : PollGranted(q)
    BY <1>3
  <2>2. poll[q].pc = "github" /\ poll' = [poll EXCEPT ![q].pc = "store"]
    BY <2>1 DEF PollGranted
  <2>3. /\ poll' \in [Polls -> DevicePoll]
        /\ poll'[q].user = poll[q].user /\ poll'[q].code = poll[q].code
        /\ \A x \in Polls : x # q => poll'[x] = poll[x]
    BY <1>1, <2>2 DEF CopilotTypeOK, DevicePoll
  <2>4. UNCHANGED <<devices, codes, owner, row, renewing, asked, raced, now>>
    BY <2>1 DEF PollGranted
  <2>5. QED
    BY <1>1, <2>2, <2>3, <2>4, CopilotQuiet DEF CopilotTypeOK
<1>4. CASE \E q \in Polls : PollLost(q)
  <2>1. PICK q \in Polls : PollLost(q)
    BY <1>4
  <2>2. /\ poll' \in [Polls -> DevicePoll]
        /\ \A x \in Polls : poll'[x] \in {poll[x], NoPoll}
    BY <1>1, <2>1, NoPollIsPoll DEF PollLost, CopilotTypeOK
  <2>3. UNCHANGED <<devices, codes, owner, row, renewing, asked, raced, now>>
    BY <2>1 DEF PollLost
  <2>4. QED
    BY <1>1, <2>2, <2>3, CopilotQuiet DEF CopilotTypeOK
<1>5. CASE \E u \in CopilotUsers : RefreshUnstored(u)
  <2>1. PICK u \in CopilotUsers : RefreshUnstored(u)
    BY <1>5
  <2>2. /\ DOMAIN renewing' \subseteq DOMAIN renewing
        /\ \A x \in DOMAIN renewing' : renewing'[x] = renewing[x]
    BY <2>1 DEF RefreshUnstored, Drop, Restrict
  <2>3. UNCHANGED <<devices, codes, owner, row, poll, asked, raced, now>>
    BY <2>1 DEF RefreshUnstored
  <2>4. QED
    BY <1>1, <2>2, <2>3, CopilotQuiet DEF CopilotTypeOK
<1>6. CASE CopilotTick
  <2>1. UNCHANGED <<devices, codes, owner, row, poll, renewing, asked, raced>> /\ now' = now + 1
    BY <1>6 DEF CopilotTick
  <2>2. QED
    BY <1>1, <2>1, CopilotQuiet DEF CopilotTypeOK
<1>7. CASE UNCHANGED copilot
  <2>1. UNCHANGED <<devices, codes, owner, row, poll, renewing, asked, raced, now>>
    BY <1>7 DEF copilot
  <2>2. QED
    BY <1>1, <2>1, CopilotQuiet DEF CopilotTypeOK
<1>8. QED
  BY <1>2, <1>3, <1>4, <1>5, <1>6, <1>7

LEMMA DeviceCodeKeeps ==
    ASSUME CopilotInv, NEW u \in CopilotUsers, copilot_device_code(u)
    PROVE  CopilotInv'
<1> USE CopilotTokensAssumption
<1>1. CopilotTypeOK /\ OwnerInv /\ FollowInv /\ codes \in Nat /\ MaxCodes \in Nat
  BY DEF CopilotInv, CopilotTypeOK
<1>2. PICK kept :
        kept = Drop(devices, {d \in DOMAIN devices : now - devices[d].born >= DeviceTtl})
  OBVIOUS
<1>3. /\ DOMAIN kept \subseteq DOMAIN devices
      /\ \A d \in DOMAIN kept : kept[d] = devices[d]
  BY <1>2 DEF Drop, Restrict
<1>4. UNCHANGED <<granted, row, poll, renewing, asked, raced, now>> /\ codes < MaxCodes
  BY DEF copilot_device_code
<1>5. CASE devices' = kept /\ UNCHANGED <<codes, owner>>
  BY <1>1, <1>3, <1>4, <1>5, CopilotQuiet DEF CopilotTypeOK
<1>6. CASE ~(devices' = kept /\ UNCHANGED <<codes, owner>>)
  <2>1. PICK c : c = codes + 1 /\ c \in Codes /\ c \in Nat
    BY <1>1, <1>4 DEF Codes
  <2>2. /\ codes' = c /\ owner' = [owner EXCEPT ![c] = u]
        /\ devices' = [x \in DOMAIN kept \cup {c} |->
                          IF x = c THEN [user |-> u, born |-> now] ELSE kept[x]]
    BY <1>2, <1>6, <2>1 DEF copilot_device_code
  <2>3. owner' \in [Codes -> CopilotUsers \cup {"none"}] /\ owner'[c] = u
        /\ \A d \in 1..codes : owner'[d] = owner[d]
    BY <1>1, <1>4, <2>1, <2>2 DEF CopilotTypeOK, Codes
  <2>4. \A d, v : IssuedTo(d, v) => d \in 1..codes' /\ owner'[d] = v
    BY <1>1, <2>1, <2>2, <2>3 DEF IssuedTo
  <2>5. /\ DOMAIN devices' = DOMAIN kept \cup {c} /\ devices'[c].user = u
        /\ \A d \in DOMAIN devices' : d # c => d \in DOMAIN devices /\ devices'[d] = devices[d]
    BY <1>3, <2>2
  <2>6. CopilotTypeOK'
    BY <1>1, <1>4, <2>1, <2>2, <2>3 DEF CopilotTypeOK, Codes
  <2>7. \A d \in DOMAIN devices' :
          /\ devices'[d].user \in CopilotUsers
          /\ d \in 1..codes' /\ owner'[d] = devices'[d].user
    <3>1. c \in 1..codes'
      BY <1>1, <2>1, <2>2
    <3>2. ASSUME NEW d \in DOMAIN devices', d # c
          PROVE  devices'[d].user \in CopilotUsers /\ IssuedTo(d, devices'[d].user)
      BY <1>1, <2>5, <3>2 DEF OwnerInv
    <3>3. QED
      BY <2>3, <2>4, <2>5, <3>1, <3>2
  <2>8. OwnerInv'
    BY <1>1, <1>4, <2>4, <2>7 DEF OwnerInv, IssuedTo
  <2>9. FollowInv'
    BY <1>1, <1>4 DEF FollowInv
  <2>10. QED
    BY <2>6, <2>8, <2>9 DEF CopilotInv
<1>7. QED
  BY <1>5, <1>6

(* Nobody polls another's code.                                            *)
LEMMA PollBeginsKeeps ==
    ASSUME CopilotInv, NEW q \in Polls, NEW u \in CopilotUsers, NEW d \in Codes, PollBegins(q, u, d)
    PROVE  CopilotInv'
<1>1. CopilotTypeOK /\ OwnerInv /\ FollowInv
  BY DEF CopilotInv
<1>2. UNCHANGED <<codes, owner, granted, row, renewing, asked, raced, now>>
  BY DEF PollBegins
<1>3. CASE devices' = Drop(devices, {d}) /\ UNCHANGED poll
  <2>1. /\ DOMAIN devices' \subseteq DOMAIN devices
        /\ \A x \in DOMAIN devices' : devices'[x] = devices[x]
    BY <1>3 DEF Drop, Restrict
  <2>2. QED
    BY <1>1, <1>2, <1>3, <2>1, CopilotQuiet DEF CopilotTypeOK
<1>4. CASE UNCHANGED devices /\ poll' = [poll EXCEPT ![q] = [pc |-> "github", user |-> u, code |-> d]]
  <2>1. IssuedTo(d, u)
    BY <1>1 DEF PollBegins, OwnerInv
  <2>2. PICK e : e = [pc |-> "github", user |-> u, code |-> d]
    OBVIOUS
  <2>3. e \in DevicePoll /\ e.user = u /\ e.code = d
    BY <2>2, CopilotTokensAssumption DEF DevicePoll, Codes
  <2>4. /\ poll' \in [Polls -> DevicePoll] /\ poll'[q] = e
        /\ \A x \in Polls : x # q => poll'[x] = poll[x]
    BY <1>1, <1>4, <2>2, <2>3 DEF CopilotTypeOK
  <2>5. CopilotTypeOK'
    BY <1>1, <1>2, <2>4 DEF CopilotTypeOK
  <2>6. OwnerInv'
    BY <1>1, <1>2, <1>4, <2>1, <2>3, <2>4 DEF OwnerInv, IssuedTo
  <2>7. FollowInv'
    BY <1>1, <1>2 DEF FollowInv
  <2>8. QED
    BY <2>5, <2>6, <2>7 DEF CopilotInv
<1>5. QED
  BY <1>3, <1>4 DEF PollBegins

(* A row written for u with a code that was issued to u, as the last       *)
(* connect or under the eyes of the refresh task.                          *)
LEMMA RowWritten ==
    ASSUME CopilotInv, NEW u \in CopilotUsers, NEW r \in CopilotRow,
           row' = [row EXCEPT ![u] = r],
           r # NoRow => IssuedTo(r.code, u),
           DOMAIN devices' \subseteq DOMAIN devices,
           \A d \in DOMAIN devices' : devices'[d] = devices[d],
           poll' \in [Polls -> DevicePoll],
           \A q \in Polls : poll'[q] \in {poll[q], NoPoll},
           asked' = [asked EXCEPT ![u] = r.code], Race(u),
           UNCHANGED <<codes, owner, renewing, now>>
    PROVE  CopilotInv'
<1>1. CopilotTypeOK /\ OwnerInv /\ FollowInv
  BY DEF CopilotInv
<1>2. row'[u] = r /\ \A v \in CopilotUsers : v # u => row'[v] = row[v]
  BY <1>1 DEF CopilotTypeOK
<1>3. asked'[u] = r.code /\ \A v \in CopilotUsers : v # u => asked'[v] = asked[v]
  BY <1>1 DEF CopilotTypeOK
<1>4. r.code \in 0..MaxCodes
  BY DEF CopilotRow
<1>5. CopilotTypeOK'
  BY <1>1, <1>4 DEF CopilotTypeOK, Race
<1>6. \A q \in Polls : poll'[q].pc # "idle" => poll'[q] = poll[q]
  BY NoPollIsPoll
<1>7. OwnerInv'
  BY <1>1, <1>2, <1>6 DEF OwnerInv, IssuedTo
<1>8. FollowInv'
  BY <1>1, <1>2, <1>3 DEF FollowInv, Race
<1>9. QED
  BY <1>5, <1>7, <1>8 DEF CopilotInv

LEMMA PollStoresKeeps ==
    ASSUME CopilotInv, NEW q \in Polls, NEW ok \in BOOLEAN, PollStores(q, ok)
    PROVE  CopilotInv'
<1>1. CopilotTypeOK /\ OwnerInv
  BY DEF CopilotInv
<1>2. PICK u \in CopilotUsers, d \in 0..MaxCodes :
        u = poll[q].user /\ d = poll[q].code /\ IssuedTo(d, u)
  BY <1>1 DEF PollStores, OwnerInv, CopilotTypeOK, DevicePoll
<1>3. PICK r \in CopilotRow : r = Fetched(d, ok) /\ r.code = d
  BY <1>1, FetchedIsRow
<1>4. /\ row' = [row EXCEPT ![u] = r] /\ devices' = Drop(devices, {d})
      /\ asked' = [asked EXCEPT ![u] = d] /\ Race(u)
      /\ poll' = [poll EXCEPT ![q] = NoPoll]
      /\ UNCHANGED <<codes, owner, renewing, now>>
  BY <1>2, <1>3 DEF PollStores, upsert_copilot_tokens
<1>5. /\ DOMAIN devices' \subseteq DOMAIN devices
      /\ \A x \in DOMAIN devices' : devices'[x] = devices[x]
  BY <1>4 DEF Drop, Restrict
<1>6. /\ poll' \in [Polls -> DevicePoll]
      /\ \A x \in Polls : poll'[x] \in {poll[x], NoPoll}
  BY <1>1, <1>4, NoPollIsPoll DEF CopilotTypeOK
<1>7. QED
  BY <1>2, <1>3, <1>4, <1>5, <1>6, RowWritten

LEMMA DisconnectKeeps ==
    ASSUME CopilotInv, NEW u \in CopilotUsers, copilot_disconnect(u)
    PROVE  CopilotInv'
<1>1. CopilotTypeOK
  BY DEF CopilotInv
<1>2. /\ row' = [row EXCEPT ![u] = NoRow] /\ asked' = [asked EXCEPT ![u] = NoRow.code] /\ Race(u)
      /\ UNCHANGED <<devices, poll, codes, owner, renewing, now>>
  BY NoRowIsRow DEF copilot_disconnect
<1>3. QED
  BY <1>1, <1>2, NoRowIsRow, RowWritten DEF CopilotTypeOK

LEMMA RefreshCycleKeeps == ASSUME CopilotInv, RefreshCycle PROVE CopilotInv'
<1>1. CopilotTypeOK /\ OwnerInv /\ FollowInv
  BY DEF CopilotInv
<1>2. UNCHANGED <<devices, codes, owner, granted, row, poll, asked, raced, now>>
  BY DEF RefreshCycle
<1>3. /\ DOMAIN renewing' = Expiring
      /\ \A u \in Expiring : renewing'[u] = row[u]
  BY <1>1 DEF RefreshCycle, Restrict, Expiring, CopilotTypeOK
<1>4. \A u \in Expiring : u \in CopilotUsers /\ row[u] # NoRow
  BY NoRowIsRow DEF Expiring
<1>5. CopilotTypeOK'
  BY <1>1, <1>2, <1>3, <1>4 DEF CopilotTypeOK
<1>6. OwnerInv'
  BY <1>1, <1>2, <1>3, <1>4 DEF OwnerInv, IssuedTo
<1>7. FollowInv'
  BY <1>1, <1>2, <1>3 DEF FollowInv
<1>8. QED
  BY <1>5, <1>6, <1>7 DEF CopilotInv

(* The task writes back the account it had read.                           *)
LEMMA RefreshRowKeeps ==
    ASSUME CopilotInv, NEW u \in CopilotUsers, NEW ok \in BOOLEAN, RefreshRow(u, ok)
    PROVE  CopilotInv'
<1>1. CopilotTypeOK /\ OwnerInv /\ FollowInv
  BY DEF CopilotInv
<1>2. PICK d \in 0..MaxCodes : d = renewing[u].code /\ IssuedTo(d, u)
  BY <1>1, CopilotTokensAssumption DEF RefreshRow, OwnerInv, IssuedTo, CopilotTypeOK
<1>3. PICK r \in CopilotRow : r = Fetched(d, ok) /\ r.code = d
  BY <1>1, FetchedIsRow
<1>4. /\ row' = [row EXCEPT ![u] = r] /\ u \in DOMAIN renewing
      /\ UNCHANGED <<devices, codes, owner, granted, poll, asked, raced, now>>
  BY <1>2, <1>3 DEF RefreshRow, upsert_copilot_tokens
<1>5. /\ DOMAIN renewing' \subseteq DOMAIN renewing
      /\ \A v \in DOMAIN renewing' : renewing'[v] = renewing[v]
  BY DEF RefreshRow, Drop, Restrict
<1>6. row'[u] = r /\ \A v \in CopilotUsers : v # u => row'[v] = row[v]
  BY <1>1, <1>4 DEF CopilotTypeOK
<1>7. CopilotTypeOK'
  BY <1>1, <1>4, <1>5 DEF CopilotTypeOK
<1>8. OwnerInv'
  BY <1>1, <1>2, <1>3, <1>4, <1>5, <1>6 DEF OwnerInv, IssuedTo
<1>9. FollowInv'
  BY <1>1, <1>2, <1>3, <1>4, <1>5, <1>6 DEF FollowInv
<1>10. QED
  BY <1>7, <1>8, <1>9 DEF CopilotInv

LEMMA CopilotInitHolds == CopilotInit => CopilotInv
<1> SUFFICES ASSUME CopilotInit PROVE CopilotInv
  OBVIOUS
<1> USE CopilotTokensAssumption DEF CopilotInit
<1>1. DOMAIN devices = {} /\ DOMAIN renewing = {}
  OBVIOUS
<1>2. CopilotTypeOK
  BY <1>1, NoRowIsRow, NoPollIsPoll DEF CopilotTypeOK
<1>3. OwnerInv
  BY <1>1, NoPollIsPoll DEF OwnerInv
<1>4. FollowInv
  BY <1>1, NoRowIsRow DEF FollowInv
<1>5. QED
  BY <1>2, <1>3, <1>4 DEF CopilotInv

(* A user is connected with an account the user approved a code for, and,  *)
(* where the refresh task did not have the row in hand at that moment,     *)
(* with the one of the last connect, or with none after a disconnect.      *)
THEOREM CopilotConnection == CopilotSpec => []ConnectionFollowsUser
<1>1. CopilotInv /\ [CopilotNext]_copilot => CopilotInv'
  BY CopilotQuietActions, DeviceCodeKeeps, PollBeginsKeeps, PollStoresKeeps, DisconnectKeeps,
     RefreshCycleKeeps, RefreshRowKeeps DEF CopilotNext
<1>2. CopilotInv => ConnectionFollowsUser
  BY DEF CopilotInv, OwnerInv, IssuedTo, FollowInv, ConnectionFollowsUser, StoredForOwner,
         AccountFollowsUser
<1>3. QED
  BY <1>1, <1>2, CopilotInitHolds, PTL DEF CopilotSpec

-----------------------------------------------------------------------------
(***************************************************************************)
(* The model registry.                                                     *)
(***************************************************************************)
Row == [enabled : BOOLEAN]

ActorFields == {"pc", "providers", "rows", "shown", "wrote"}

CatalogTypeOK ==
    /\ DOMAIN registry \subseteq Models
    /\ \A m \in DOMAIN registry : registry[m] \in Row
    /\ defaults \subseteq Models
    /\ DOMAIN actor = Actors
    /\ \A a \in Actors : DOMAIN actor[a] = ActorFields /\ actor[a].wrote \in BOOLEAN
    /\ hidden \subseteq Models

Busy(a) == actor[a].pc \in {"populate", "apply", "applying", "rename", "fetch"}
Loading(a) == actor[a].pc \in {"clear", "insert"}
Wrote(a) == actor[a].wrote

(* While nothing went wrong with a reload, whatever the copy in memory     *)
(* misses is on its way: a handler that changed the table has still to     *)
(* reload, or the one that does has read the table as it is.               *)
ReloadOnItsWay ==
    /\ \A a, b \in Actors : Loading(a) /\ Loading(b) => a = b
    /\ \/ \E a \in Actors : Wrote(a)
       \/ \E a \in Actors :
            /\ actor[a].pc = "clear"
            /\ DOMAIN actor[a].rows = DOMAIN registry
            /\ \A m \in DOMAIN registry : actor[a].rows[m] = registry[m]
       \/ \E a \in Actors :
            /\ actor[a].pc = "insert"
            /\ DOMAIN registry = DOMAIN cached \cup DOMAIN actor[a].rows
            /\ \A m \in DOMAIN actor[a].rows : actor[a].rows[m] = registry[m]
            /\ \A m \in DOMAIN cached : cached[m] = registry[m]
       \/ /\ \A a \in Actors : ~Loading(a)
          /\ DOMAIN registry = DOMAIN cached
          /\ \A m \in DOMAIN cached : cached[m] = registry[m]

ReloadInv ==
    /\ \A a \in Actors : Wrote(a) => Busy(a)
    /\ missed = {} => ReloadOnItsWay

HiddenInv == hidden \subseteq DOMAIN registry /\ HiddenStaysHidden

CatalogInv == CatalogTypeOK /\ ReloadInv /\ HiddenInv

(* Where a handler is after a step that changes it alone.                  *)
Moved(a) ==
    /\ DOMAIN actor' = Actors
    /\ \A b \in Actors : b # a => actor'[b] = actor[b]
    /\ DOMAIN actor'[a] = ActorFields /\ actor'[a].wrote \in BOOLEAN

LEMMA ActorSet ==
    ASSUME CatalogTypeOK, NEW a \in Actors, NEW e,
           DOMAIN e = ActorFields, e.wrote \in BOOLEAN, actor' = [actor EXCEPT ![a] = e]
    PROVE  Moved(a) /\ actor'[a] = e
  BY DEF CatalogTypeOK, Moved

LEMMA ActorGoes ==
    ASSUME CatalogTypeOK, NEW a \in Actors, NEW pc, Goto(a, pc)
    PROVE  /\ Moved(a) /\ actor'[a].pc = pc /\ actor'[a].rows = actor[a].rows
           /\ actor'[a].wrote = actor[a].wrote
  BY DEF CatalogTypeOK, Moved, Goto, ActorFields

LEMMA ActorWrites ==
    ASSUME CatalogTypeOK, NEW a \in Actors, NEW pc, Writes(a, pc)
    PROVE  Moved(a) /\ actor'[a].pc = pc /\ actor'[a].wrote = TRUE
  BY DEF CatalogTypeOK, Moved, Writes, ActorFields

LEMMA ActorProviders ==
    ASSUME CatalogTypeOK, NEW a \in Actors, NEW P, actor' = [actor EXCEPT ![a].providers = P]
    PROVE  Moved(a) /\ actor'[a].pc = actor[a].pc /\ actor'[a].wrote = actor[a].wrote
  BY DEF CatalogTypeOK, Moved, ActorFields

LEMMA ActorRows ==
    ASSUME CatalogTypeOK, NEW a \in Actors, NEW f, actor' = [actor EXCEPT ![a].rows = f]
    PROVE  /\ Moved(a) /\ actor'[a].pc = actor[a].pc /\ actor'[a].rows = f
           /\ actor'[a].wrote = actor[a].wrote
  BY DEF CatalogTypeOK, Moved, ActorFields

LEMMA AtRestShape ==
    /\ DOMAIN AtRest = ActorFields /\ AtRest.pc = "idle" /\ AtRest.wrote = FALSE
    /\ \A P, pc : /\ DOMAIN [AtRest EXCEPT !.pc = pc, !.providers = P] = ActorFields
                  /\ [AtRest EXCEPT !.pc = pc, !.providers = P].pc = pc
                  /\ [AtRest EXCEPT !.pc = pc, !.providers = P].wrote = FALSE
  BY DEF AtRest, ActorFields

(* A handler that changed the table will reload: whatever it changed is    *)
(* seen.  One that changed nothing leaves things as they are.              *)
Settled(a) ==
    \/ Wrote(a)'
    \/ ~Wrote(a) /\ ~Wrote(a)' /\ UNCHANGED <<registry, cached>>

LEMMA StillBusy ==
    ASSUME ReloadInv, NEW a \in Actors, ~Loading(a), Moved(a), ~Loading(a)',
           Wrote(a)' => Busy(a)', missed' = missed, Settled(a)
    PROVE  ReloadInv'
<1>1. \A b \in Actors : b # a => actor'[b] = actor[b]
  BY DEF Moved
<1>2. \A b \in Actors : Wrote(b)' => Busy(b)'
  BY <1>1 DEF ReloadInv, Wrote, Busy
<1>3. \A b, c \in Actors : Loading(b)' /\ Loading(c)' => Loading(b) /\ Loading(c)
  BY <1>1 DEF Loading
<1>4. CASE Wrote(a)'
  BY <1>2, <1>3, <1>4 DEF ReloadInv, ReloadOnItsWay
<1>5. CASE ~Wrote(a) /\ ~Wrote(a)' /\ UNCHANGED <<registry, cached>>
  <2> SUFFICES ASSUME missed = {} PROVE ReloadOnItsWay'
    BY <1>2 DEF ReloadInv
  <2>1. ReloadOnItsWay
    BY DEF ReloadInv
  <2>2. \A b, c \in Actors : Loading(b)' /\ Loading(c)' => b = c
    BY <1>3, <2>1 DEF ReloadOnItsWay
  <2>3. CASE \E b \in Actors : Wrote(b)
    <3>1. PICK b \in Actors : Wrote(b)
      BY <2>3
    <3>2. Wrote(b)'
      BY <1>1, <1>5, <3>1 DEF Wrote
    <3>3. QED
      BY <2>2, <3>2 DEF ReloadOnItsWay
  <2>4. CASE \E b \in Actors : /\ actor[b].pc = "clear"
                               /\ DOMAIN actor[b].rows = DOMAIN registry
                               /\ \A m \in DOMAIN registry : actor[b].rows[m] = registry[m]
    <3>1. PICK b \in Actors : /\ actor[b].pc = "clear"
                              /\ DOMAIN actor[b].rows = DOMAIN registry
                              /\ \A m \in DOMAIN registry : actor[b].rows[m] = registry[m]
      BY <2>4
    <3>2. actor'[b] = actor[b]
      BY <1>1, <3>1 DEF Loading
    <3>3. QED
      BY <1>5, <2>2, <3>1, <3>2 DEF ReloadOnItsWay
  <2>5. CASE \E b \in Actors : /\ actor[b].pc = "insert"
                               /\ DOMAIN registry = DOMAIN cached \cup DOMAIN actor[b].rows
                               /\ \A m \in DOMAIN actor[b].rows : actor[b].rows[m] = registry[m]
                               /\ \A m \in DOMAIN cached : cached[m] = registry[m]
    <3>1. PICK b \in Actors : /\ actor[b].pc = "insert"
                              /\ DOMAIN registry = DOMAIN cached \cup DOMAIN actor[b].rows
                              /\ \A m \in DOMAIN actor[b].rows : actor[b].rows[m] = registry[m]
                              /\ \A m \in DOMAIN cached : cached[m] = registry[m]
      BY <2>5
    <3>2. actor'[b] = actor[b]
      BY <1>1, <3>1 DEF Loading
    <3>3. QED
      BY <1>5, <2>2, <3>1, <3>2 DEF ReloadOnItsWay
  <2>6. CASE /\ \A b \in Actors : ~Loading(b)
             /\ DOMAIN registry = DOMAIN cached
             /\ \A m \in DOMAIN cached : cached[m] = registry[m]
    <3>1. \A b \in Actors : ~Loading(b)'
      BY <1>1, <2>6 DEF Loading
    <3>2. QED
      BY <1>5, <2>2, <2>6, <3>1 DEF ReloadOnItsWay
  <2>7. QED
    BY <2>1, <2>3, <2>4, <2>5, <2>6 DEF ReloadOnItsWay
<1>6. QED
  BY <1>4, <1>5 DEF Settled

(* The actions after which a handler has still to reload.                  *)
Renames(a) == /\ actor[a].pc = "rename" /\ Goto(a, "fetch")
              /\ UNCHANGED <<registry, defaults, cached, hidden, missed>>

BusyAction(a) ==
    \/ \E P \in {CatalogProviders} \cup {{p} : p \in CatalogProviders} : PopulateBegins(a, P)
    \/ ApplyBegins(a)
    \/ \E p \in CatalogProviders :
          populate_provider(a, p) \/ PopulateFails(a, p) \/ HasDefaults(a, p)
    \/ \E m \in Models : delete_model(a, m) \/ \E on \in BOOLEAN : update_model(a, m, on)
    \/ Populated(a) \/ Renames(a) \/ apply_visibility_defaults(a) \/ Applied(a)

LEMMA BusyMoves ==
    ASSUME CatalogTypeOK, ReloadInv, NEW a \in Actors, BusyAction(a)
    PROVE  Moved(a) /\ ~Loading(a) /\ Busy(a)' /\ missed' = missed /\ Settled(a)
<1>0. actor[a].wrote \in BOOLEAN /\ (Wrote(a) => Busy(a))
  BY DEF CatalogTypeOK, ReloadInv
<1>1. CASE (\E P : PopulateBegins(a, P)) \/ ApplyBegins(a)
  <2>1. CASE \E P : PopulateBegins(a, P)
    <3>1. PICK P : PopulateBegins(a, P)
      BY <2>1
    <3>2. PICK e : e = [AtRest EXCEPT !.pc = "populate", !.providers = P]
      OBVIOUS
    <3>3. DOMAIN e = ActorFields /\ e.pc = "populate" /\ e.wrote = FALSE
      BY <3>2, AtRestShape
    <3>4. Moved(a) /\ actor'[a] = e
      BY <3>1, <3>2, <3>3, ActorSet DEF PopulateBegins
    <3>5. actor[a].pc = "idle" /\ UNCHANGED <<registry, cached, missed>>
      BY <3>1 DEF PopulateBegins
    <3>6. QED
      BY <1>0, <3>3, <3>4, <3>5 DEF Busy, Loading, Settled, Wrote
  <2>2. CASE ApplyBegins(a)
    <3>1. PICK P : actor' = [actor EXCEPT ![a] = [AtRest EXCEPT !.pc = "apply", !.providers = P]]
      BY <2>2, Zenon DEF ApplyBegins
    <3>2. PICK e : e = [AtRest EXCEPT !.pc = "apply", !.providers = P]
      OBVIOUS
    <3>3. DOMAIN e = ActorFields /\ e.pc = "apply" /\ e.wrote = FALSE
      BY <3>2, AtRestShape
    <3>4. Moved(a) /\ actor'[a] = e
      BY <3>1, <3>2, <3>3, ActorSet
    <3>5. actor[a].pc = "idle" /\ UNCHANGED <<registry, cached, missed>>
      BY <2>2 DEF ApplyBegins
    <3>6. QED
      BY <1>0, <3>3, <3>4, <3>5 DEF Busy, Loading, Settled, Wrote
  <2>3. QED
    BY <1>1, <2>1, <2>2
<1>2. CASE \E p : PopulateFails(a, p)
  <2>1. PICK P : /\ actor' = [actor EXCEPT ![a].providers = P] /\ actor[a].pc = "populate"
                 /\ UNCHANGED <<registry, cached, missed>>
    BY <1>2 DEF PopulateFails
  <2>2. QED
    BY <1>0, <2>1, ActorProviders DEF Busy, Loading, Settled, Wrote
<1>3. CASE \E p : populate_provider(a, p)
  <2>1. PICK P : /\ actor' = [actor EXCEPT ![a].providers = P, ![a].wrote = TRUE]
                 /\ actor[a].pc = "populate" /\ missed' = missed
    BY <1>3 DEF populate_provider
  <2>2. Moved(a) /\ actor'[a].pc = "populate" /\ actor'[a].wrote = TRUE
    BY <2>1 DEF Moved, CatalogTypeOK, ActorFields
  <2>3. QED
    BY <2>1, <2>2 DEF Busy, Loading, Settled, Wrote
<1>4. CASE \E p : HasDefaults(a, p)
  <2>1. actor[a].pc = "apply" /\ UNCHANGED <<registry, cached, missed>>
    BY <1>4 DEF HasDefaults
  <2>2. CASE \E P : actor' = [actor EXCEPT ![a].providers = P]
    BY <1>0, <2>1, <2>2, ActorProviders DEF Busy, Loading, Settled, Wrote
  <2>3. CASE \E S : actor' = [actor EXCEPT ![a].pc = "applying", ![a].shown = S]
    <3>1. /\ Moved(a) /\ actor'[a].pc = "applying" /\ actor'[a].wrote = actor[a].wrote
      BY <2>3 DEF Moved, CatalogTypeOK, ActorFields
    <3>2. QED
      BY <1>0, <2>1, <3>1 DEF Busy, Loading, Settled, Wrote
  <2>4. QED
    BY <1>4, <2>2, <2>3 DEF HasDefaults
<1>5. CASE (\E m : delete_model(a, m) \/ \E on : update_model(a, m, on))
  <2>1. \E pc \in {"rename", "fetch"} : Writes(a, pc)
    BY <1>5 DEF delete_model, update_model
  <2>2. actor[a].pc = "idle" /\ missed' = missed
    BY <1>5 DEF delete_model, update_model
  <2>3. QED
    BY <2>1, <2>2, ActorWrites DEF Busy, Loading, Settled, Wrote
<1>6. CASE Populated(a) \/ Renames(a) \/ Applied(a)
  <2>1. /\ Goto(a, "fetch") /\ UNCHANGED <<registry, cached, missed>>
        /\ actor[a].pc \in {"populate", "rename", "apply"}
    BY <1>6 DEF Populated, Renames, Applied
  <2>2. QED
    BY <1>0, <2>1, ActorGoes DEF Busy, Loading, Settled, Wrote
<1>7. CASE apply_visibility_defaults(a)
  <2>1. missed' = missed /\ actor[a].pc = "applying"
    BY <1>7 DEF apply_visibility_defaults
  <2>2. Moved(a) /\ actor'[a].pc = "apply" /\ actor'[a].wrote = TRUE
    BY <1>7 DEF apply_visibility_defaults, Moved, CatalogTypeOK, ActorFields
  <2>3. QED
    BY <2>1, <2>2 DEF Busy, Loading, Settled, Wrote
<1>8. QED
  BY <1>1, <1>2, <1>3, <1>4, <1>5, <1>6, <1>7 DEF BusyAction

LEMMA Types ==
    ASSUME CatalogTypeOK, NEW a \in Actors, Moved(a),
           DOMAIN registry' \subseteq Models,
           \A m \in DOMAIN registry' : registry'[m] \in Row,
           defaults' \subseteq Models, hidden' \subseteq Models
    PROVE  CatalogTypeOK'
  BY DEF CatalogTypeOK, Moved

(* What a population, an administrator's change or the defaults leave in   *)
(* the table.                                                              *)
LEMMA BusyRows ==
    ASSUME CatalogTypeOK, HiddenInv, NEW a \in Actors, BusyAction(a)
    PROVE  /\ DOMAIN registry' \subseteq Models
           /\ \A m \in DOMAIN registry' : registry'[m] \in Row
           /\ hidden' \subseteq Models /\ defaults' = defaults
           /\ HiddenInv'
<1>1. CASE \E p \in CatalogProviders : populate_provider(a, p)
  <2>0. PICK p \in CatalogProviders : populate_provider(a, p)
    BY <1>1
  <2>1. PICK fetched \in Fetchable(p) :
            bulk_upsert_registry_models(fetched) /\ UNCHANGED <<defaults, hidden>>
    BY <2>0 DEF populate_provider
  <2>2. DOMAIN fetched \subseteq Models /\ \A m \in DOMAIN fetched : fetched[m] = [enabled |-> TRUE]
    <3>1. PICK S : S \subseteq Models /\ fetched = [m \in S |-> [enabled |-> TRUE]]
      BY <2>1, ModelCatalogAssumption DEF Fetchable, Of
    <3>2. QED
      BY <3>1
  <2>3. DOMAIN registry' = DOMAIN registry \cup DOMAIN fetched
    BY <2>1 DEF bulk_upsert_registry_models
  <2>4. \A m \in DOMAIN registry : registry'[m] \in Row /\ registry'[m].enabled = registry[m].enabled
    <3> SUFFICES ASSUME NEW m \in DOMAIN registry
                 PROVE  registry'[m] \in Row /\ registry'[m].enabled = registry[m].enabled
      OBVIOUS
    <3>1. registry[m] \in Row
      BY DEF CatalogTypeOK
    <3>2. CASE m \notin DOMAIN fetched
      BY <2>1, <3>1, <3>2 DEF bulk_upsert_registry_models
    <3>3. CASE m \in DOMAIN fetched
      <4>1. registry'[m] = [[enabled |-> TRUE] EXCEPT !.enabled = registry[m].enabled]
        BY <2>1, <2>2, <3>3 DEF bulk_upsert_registry_models, Upserted
      <4>2. QED
        BY <3>1, <4>1 DEF Row
    <3>4. QED
      BY <3>2, <3>3
  <2>5. \A m \in DOMAIN fetched \ DOMAIN registry : registry'[m] \in Row
    <3>1. \A m \in DOMAIN fetched \ DOMAIN registry : registry'[m] = fetched[m]
      BY <2>1 DEF bulk_upsert_registry_models
    <3>2. [enabled |-> TRUE] \in Row
      BY DEF Row
    <3>3. QED
      BY <2>2, <3>1, <3>2
  <2>6. QED
    BY <2>1, <2>2, <2>3, <2>4, <2>5 DEF CatalogTypeOK, HiddenInv, HiddenStaysHidden
<1>2. CASE UNCHANGED <<registry, defaults, hidden>>
  BY <1>2 DEF CatalogTypeOK, HiddenInv, HiddenStaysHidden
<1>3. CASE \E m \in Models : delete_model(a, m)
  <2>1. PICK m \in Models : delete_model(a, m)
    BY <1>3
  <2>2. /\ DOMAIN registry' = DOMAIN registry \ {m}
        /\ \A x \in DOMAIN registry' : registry'[x] = registry[x]
        /\ hidden' = hidden \ {m} /\ defaults' = defaults
    BY <2>1 DEF delete_model, Less, Restrict
  <2>3. QED
    BY <2>2 DEF CatalogTypeOK, HiddenInv, HiddenStaysHidden
<1>4. CASE \E m \in Models, on \in BOOLEAN : update_model(a, m, on)
  <2>1. PICK m \in Models, on \in BOOLEAN : update_model(a, m, on)
    BY <1>4
  <2>2. /\ m \in DOMAIN registry /\ DOMAIN registry' = DOMAIN registry
        /\ \A x \in DOMAIN registry : x # m => registry'[x] = registry[x]
        /\ registry'[m] = [registry[m] EXCEPT !.enabled = on]
        /\ hidden' = (IF on THEN hidden \ {m} ELSE hidden \cup {m}) /\ defaults' = defaults
    BY <2>1 DEF update_model
  <2>3. registry'[m] \in Row /\ registry'[m].enabled = on
    BY <2>2 DEF CatalogTypeOK, Row
  <2>4. QED
    BY <2>2, <2>3 DEF CatalogTypeOK, HiddenInv, HiddenStaysHidden
<1>5. CASE apply_visibility_defaults(a)
  <2>1. PICK S : S = actor[a].shown
    OBVIOUS
  <2>2. /\ DOMAIN registry' = DOMAIN registry
        /\ \A m \in DOMAIN registry : m \notin S => registry'[m] = registry[m]
        /\ \A m \in DOMAIN registry \cap S :
              registry'[m] = [registry[m] EXCEPT !.enabled = (m \in defaults)]
    <3>1. registry' = [m \in DOMAIN registry |->
              IF m \in S THEN [registry[m] EXCEPT !.enabled = (m \in defaults)] ELSE registry[m]]
      BY <1>5, <2>1, Zenon DEF apply_visibility_defaults, Visible
    <3>2. QED
      BY <3>1, Zenon
  <2>3. /\ hidden' = (hidden \ S) \cup {m \in S \cap DOMAIN registry : m \notin defaults}
        /\ defaults' = defaults
    BY <1>5, <2>1, Zenon DEF apply_visibility_defaults
  <2>4. \A m \in DOMAIN registry \cap S :
          registry'[m] \in Row /\ registry'[m].enabled = (m \in defaults)
    <3> SUFFICES ASSUME NEW m \in DOMAIN registry \cap S
                 PROVE  registry'[m] \in Row /\ registry'[m].enabled = (m \in defaults)
      OBVIOUS
    <3>1. registry[m] \in Row /\ registry'[m] = [registry[m] EXCEPT !.enabled = (m \in defaults)]
      BY <2>2, Zenon DEF CatalogTypeOK
    <3>2. CASE m \in defaults
      <4>1. (m \in defaults) = TRUE
        BY <3>2
      <4>2. registry'[m] = [registry[m] EXCEPT !.enabled = TRUE]
        BY <3>1, <4>1, Zenon
      <4>3. registry'[m] \in Row /\ registry'[m].enabled = TRUE
        BY <3>1, <4>2 DEF Row
      <4>4. QED
        BY <4>1, <4>3, Zenon
    <3>3. CASE m \notin defaults
      <4>1. (m \in defaults) = FALSE
        BY <3>3
      <4>2. registry'[m] = [registry[m] EXCEPT !.enabled = FALSE]
        BY <3>1, <4>1, Zenon
      <4>3. registry'[m] \in Row /\ registry'[m].enabled = FALSE
        BY <3>1, <4>2 DEF Row
      <4>4. QED
        BY <4>1, <4>3, Zenon
    <3>4. QED
      BY <3>2, <3>3
  <2>5. QED
    BY <2>2, <2>4, <2>3 DEF CatalogTypeOK, HiddenInv, HiddenStaysHidden
<1>6. CASE \/ (\E P : PopulateBegins(a, P)) \/ ApplyBegins(a)
           \/ (\E p : PopulateFails(a, p) \/ HasDefaults(a, p))
           \/ Populated(a) \/ Applied(a) \/ Renames(a)
  <2>1. CASE ApplyBegins(a)
    BY <1>2, <2>1 DEF ApplyBegins
  <2>2. CASE \E P : PopulateBegins(a, P)
    BY <1>2, <2>2 DEF PopulateBegins
  <2>3. CASE \E p : PopulateFails(a, p) \/ HasDefaults(a, p)
    BY <1>2, <2>3 DEF PopulateFails, HasDefaults
  <2>4. CASE Populated(a) \/ Applied(a) \/ Renames(a)
    BY <1>2, <2>4 DEF Populated, Applied, Renames
  <2>5. QED
    BY <1>6, <2>1, <2>2, <2>3, <2>4
<1>7. QED
  BY <1>1, <1>3, <1>4, <1>5, <1>6 DEF BusyAction

LEMMA BusyKeeps ==
    ASSUME CatalogInv, NEW a \in Actors, BusyAction(a)
    PROVE  CatalogInv'
<1>1. CatalogTypeOK /\ ReloadInv /\ HiddenInv
  BY DEF CatalogInv
<1>2. Moved(a) /\ ~Loading(a) /\ Busy(a)' /\ missed' = missed /\ Settled(a)
  BY <1>1, BusyMoves
<1>3. ReloadInv'
  BY <1>1, <1>2, StillBusy DEF Busy, Loading
<1>4. /\ DOMAIN registry' \subseteq Models /\ \A m \in DOMAIN registry' : registry'[m] \in Row
      /\ hidden' \subseteq Models /\ defaults' = defaults /\ HiddenInv'
  BY <1>1, BusyRows
<1>5. CatalogTypeOK'
  BY <1>1, <1>2, <1>4, Types DEF CatalogTypeOK
<1>6. QED
  BY <1>3, <1>4, <1>5 DEF CatalogInv

(* The steps of a reload leave the table alone.                            *)
LEMMA LoadTypes ==
    ASSUME CatalogTypeOK, HiddenInv, NEW a \in Actors, Moved(a), UNCHANGED <<registry, defaults, hidden>>
    PROVE  CatalogTypeOK' /\ HiddenInv'
<1>1. CatalogTypeOK'
  BY Types DEF CatalogTypeOK
<1>2. QED
  BY <1>1 DEF HiddenInv, HiddenStaysHidden

(* A handler ends before its reload: if it changed the table, that is      *)
(* noted.                                                                  *)
LEMMA GivesUpKeeps ==
    ASSUME CatalogInv, NEW a \in Actors, NEW why, Busy(a), GivesUp(a, why) PROVE CatalogInv'
<1>1. CatalogTypeOK /\ ReloadInv /\ HiddenInv
  BY DEF CatalogInv
<1>2. UNCHANGED <<registry, defaults, cached, hidden>>
  BY DEF GivesUp
<1>3. Moved(a) /\ actor'[a].pc = "idle" /\ actor'[a].wrote = FALSE
  BY <1>1, ActorSet, AtRestShape DEF GivesUp
<1>4. ReloadInv'
  <2>1. CASE Wrote(a)
    <3>1. missed' # {}
      BY <2>1 DEF GivesUp, Wrote
    <3>2. \A b \in Actors : Wrote(b)' => Busy(b)'
      BY <1>1, <1>3 DEF ReloadInv, Wrote, Busy, Moved
    <3>3. QED
      BY <3>1, <3>2 DEF ReloadInv
  <2>2. CASE ~Wrote(a)
    <3>1. missed' = missed
      BY <2>2 DEF GivesUp, Wrote
    <3>2. ~Loading(a) /\ ~Loading(a)' /\ ~Wrote(a)'
      BY <1>3 DEF Busy, Loading, Wrote
    <3>3. QED
      BY <1>1, <1>2, <1>3, <2>2, <3>1, <3>2, StillBusy DEF Settled
  <2>3. QED
    BY <2>1, <2>2
<1>5. QED
  BY <1>1, <1>2, <1>3, <1>4, LoadTypes DEF CatalogInv

(* A reload that fails, or is given up with its rows on their way.         *)
LEMMA LostReload ==
    ASSUME CatalogInv, NEW a \in Actors, actor' = [actor EXCEPT ![a] = AtRest],
           NEW why, missed' = missed \cup {why}, UNCHANGED <<registry, defaults, cached, hidden>>
    PROVE  CatalogInv'
<1>1. CatalogTypeOK /\ ReloadInv /\ HiddenInv
  BY DEF CatalogInv
<1>2. Moved(a) /\ actor'[a].wrote = FALSE
  BY <1>1, ActorSet, AtRestShape
<1>3. \A b \in Actors : Wrote(b)' => Busy(b)'
  BY <1>1, <1>2 DEF ReloadInv, Wrote, Busy, Moved
<1>4. ReloadInv'
  BY <1>3 DEF ReloadInv
<1>5. QED
  BY <1>1, <1>2, <1>4, LoadTypes DEF CatalogInv

LEMMA LoadFetchKeeps == ASSUME CatalogInv, NEW a \in Actors, LoadFetch(a) PROVE CatalogInv'
<1>1. CatalogTypeOK /\ ReloadInv /\ HiddenInv
  BY DEF CatalogInv
<1>2. UNCHANGED <<registry, defaults, cached, hidden>>
  BY DEF LoadFetch
<1>3. /\ Moved(a) /\ actor'[a].pc = "clear" /\ actor'[a].rows = registry
      /\ actor'[a].wrote = FALSE
  BY <1>1 DEF LoadFetch, Moved, CatalogTypeOK, ActorFields
<1>4. \A b \in Actors : Wrote(b)' => Busy(b)'
  BY <1>1, <1>3 DEF ReloadInv, Wrote, Busy, Moved
<1>5. ReloadInv'
  <2> SUFFICES ASSUME missed' = {} PROVE ReloadOnItsWay'
    BY <1>4 DEF ReloadInv
  <2>1. \A b \in Actors \ {a} : actor[b].pc \notin {"clear", "insert"}
    BY DEF LoadFetch
  <2>2. \A b \in Actors : b # a => ~Loading(b)'
    BY <1>3, <2>1 DEF Loading, Moved
  <2>3. \A b, c \in Actors : Loading(b)' /\ Loading(c)' => b = c
    BY <2>2
  <2>4. /\ actor'[a].pc = "clear" /\ DOMAIN actor'[a].rows = DOMAIN registry'
        /\ \A m \in DOMAIN registry' : actor'[a].rows[m] = registry'[m]
    BY <1>2, <1>3
  <2>5. QED
    BY <2>3, <2>4 DEF ReloadOnItsWay
<1>6. QED
  BY <1>1, <1>2, <1>3, <1>5, LoadTypes DEF CatalogInv

LEMMA LoadClearKeeps == ASSUME CatalogInv, NEW a \in Actors, LoadClear(a) PROVE CatalogInv'
<1>1. CatalogTypeOK /\ ReloadInv /\ HiddenInv
  BY DEF CatalogInv
<1>2. UNCHANGED <<registry, defaults, hidden, missed>> /\ cached' = <<>>
  BY DEF LoadClear
<1>3. /\ Moved(a) /\ actor'[a].pc = "insert" /\ actor'[a].rows = actor[a].rows
      /\ actor'[a].wrote = actor[a].wrote
  BY <1>1, ActorGoes DEF LoadClear
<1>4. actor[a].pc = "clear" /\ DOMAIN cached' = {}
  BY <1>2 DEF LoadClear
<1>5. \A b \in Actors : (Wrote(b)' <=> Wrote(b)) /\ (Loading(b)' <=> Loading(b))
  BY <1>3, <1>4 DEF Wrote, Loading, Moved
<1>6. \A b \in Actors : Wrote(b)' => Busy(b)'
  BY <1>1, <1>3, <1>4 DEF ReloadInv, Wrote, Busy, Moved
<1>7. ReloadInv'
  <2> SUFFICES ASSUME missed' = {} PROVE ReloadOnItsWay'
    BY <1>6 DEF ReloadInv
  <2>1. ReloadOnItsWay
    BY <1>1, <1>2 DEF ReloadInv
  <2>2. \A b, c \in Actors : Loading(b)' /\ Loading(c)' => b = c
    BY <1>5, <2>1 DEF ReloadOnItsWay
  <2>3. CASE \E b \in Actors : Wrote(b)
    BY <1>5, <2>2, <2>3 DEF ReloadOnItsWay
  <2>4. CASE ~\E b \in Actors : Wrote(b)
    <3>1. \A b \in Actors : Loading(b) => b = a
      BY <1>4, <2>1 DEF ReloadOnItsWay, Loading
    <3>2. /\ DOMAIN actor[a].rows = DOMAIN registry
          /\ \A m \in DOMAIN registry : actor[a].rows[m] = registry[m]
      BY <1>4, <2>1, <2>4, <3>1 DEF ReloadOnItsWay, Loading
    <3>3. /\ actor'[a].pc = "insert"
          /\ DOMAIN registry' = DOMAIN cached' \cup DOMAIN actor'[a].rows
          /\ \A m \in DOMAIN actor'[a].rows : actor'[a].rows[m] = registry'[m]
          /\ \A m \in DOMAIN cached' : cached'[m] = registry'[m]
      BY <1>2, <1>3, <1>4, <3>2
    <3>4. QED
      BY <2>2, <3>3 DEF ReloadOnItsWay
  <2>5. QED
    BY <2>3, <2>4
<1>8. QED
  BY <1>1, <1>2, <1>3, <1>7, LoadTypes DEF CatalogInv

(* Of the one handler that fills the copy.                                 *)
LEMMA Filling ==
    ASSUME ReloadOnItsWay, NEW a \in Actors, actor[a].pc = "insert",
           ~\E b \in Actors : Wrote(b)
    PROVE  /\ DOMAIN registry = DOMAIN cached \cup DOMAIN actor[a].rows
           /\ \A m \in DOMAIN actor[a].rows : actor[a].rows[m] = registry[m]
           /\ \A m \in DOMAIN cached : cached[m] = registry[m]
<1>1. \A b \in Actors : Loading(b) => b = a
  BY DEF ReloadOnItsWay, Loading
<1>2. QED
  BY <1>1 DEF ReloadOnItsWay, Loading

LEMMA LoadInsertKeeps ==
    ASSUME CatalogInv, NEW a \in Actors, NEW m \in Models, LoadInsert(a, m) PROVE CatalogInv'
<1>1. CatalogTypeOK /\ ReloadInv /\ HiddenInv
  BY DEF CatalogInv
<1>2. UNCHANGED <<registry, defaults, hidden, missed>>
  BY DEF LoadInsert
<1>3. actor[a].pc = "insert" /\ m \in DOMAIN actor[a].rows
  BY DEF LoadInsert
<1>4. PICK left : left = Less(actor[a].rows, {m})
  OBVIOUS
<1>5. /\ Moved(a) /\ actor'[a].pc = "insert" /\ actor'[a].rows = left
      /\ actor'[a].wrote = actor[a].wrote
  BY <1>1, <1>3, <1>4, ActorRows DEF LoadInsert
<1>6. /\ DOMAIN left = DOMAIN actor[a].rows \ {m}
      /\ \A x \in DOMAIN left : left[x] = actor[a].rows[x]
  BY <1>4 DEF Less, Restrict
<1>7. /\ DOMAIN cached' = DOMAIN cached \cup {m} /\ cached'[m] = actor[a].rows[m]
      /\ \A x \in DOMAIN cached : x # m => cached'[x] = cached[x]
  BY DEF LoadInsert, Put
<1>8. \A b \in Actors : (Wrote(b)' <=> Wrote(b)) /\ (Loading(b)' <=> Loading(b))
  BY <1>3, <1>5 DEF Wrote, Loading, Moved
<1>9. \A b \in Actors : Wrote(b)' => Busy(b)'
  BY <1>1, <1>3, <1>5 DEF ReloadInv, Wrote, Busy, Moved
<1>10. ReloadInv'
  <2> SUFFICES ASSUME missed' = {} PROVE ReloadOnItsWay'
    BY <1>9 DEF ReloadInv
  <2>1. ReloadOnItsWay
    BY <1>1, <1>2 DEF ReloadInv
  <2>2. \A b, c \in Actors : Loading(b)' /\ Loading(c)' => b = c
    BY <1>8, <2>1 DEF ReloadOnItsWay
  <2>3. CASE \E b \in Actors : Wrote(b)
    BY <1>8, <2>2, <2>3 DEF ReloadOnItsWay
  <2>4. CASE ~\E b \in Actors : Wrote(b)
    <3>1. /\ DOMAIN registry = DOMAIN cached \cup DOMAIN actor[a].rows
          /\ \A x \in DOMAIN actor[a].rows : actor[a].rows[x] = registry[x]
          /\ \A x \in DOMAIN cached : cached[x] = registry[x]
      BY <1>3, <2>1, <2>4, Filling
    <3>2. /\ DOMAIN registry' = DOMAIN cached' \cup DOMAIN actor'[a].rows
          /\ \A x \in DOMAIN actor'[a].rows : actor'[a].rows[x] = registry'[x]
          /\ \A x \in DOMAIN cached' : cached'[x] = registry'[x]
      BY <1>2, <1>3, <1>5, <1>6, <1>7, <3>1
    <3>3. QED
      BY <1>5, <2>2, <3>2 DEF ReloadOnItsWay
  <2>5. QED
    BY <2>3, <2>4
<1>11. QED
  BY <1>1, <1>2, <1>5, <1>10, LoadTypes DEF CatalogInv

LEMMA LoadEndsKeeps == ASSUME CatalogInv, NEW a \in Actors, LoadEnds(a) PROVE CatalogInv'
<1>1. CatalogTypeOK /\ ReloadInv /\ HiddenInv
  BY DEF CatalogInv
<1>2. UNCHANGED <<registry, defaults, cached, hidden, missed>>
  BY DEF LoadEnds
<1>3. actor[a].pc = "insert" /\ DOMAIN actor[a].rows = {}
  BY DEF LoadEnds
<1>4. Moved(a) /\ actor'[a].pc = "idle" /\ actor'[a].wrote = FALSE
  BY <1>1, ActorSet, AtRestShape DEF LoadEnds
<1>5. ~Wrote(a)
  BY <1>1, <1>3 DEF ReloadInv, Busy
<1>6. \A b \in Actors : (Wrote(b)' <=> Wrote(b)) /\ (Wrote(b)' => Busy(b)')
  BY <1>1, <1>4, <1>5 DEF ReloadInv, Wrote, Busy, Moved
<1>7. ReloadInv'
  <2> SUFFICES ASSUME missed' = {} PROVE ReloadOnItsWay'
    BY <1>6 DEF ReloadInv
  <2>1. ReloadOnItsWay
    BY <1>1, <1>2 DEF ReloadInv
  <2>2. \A b \in Actors : ~Loading(b)'
    BY <1>3, <1>4, <2>1 DEF ReloadOnItsWay, Loading, Moved
  <2>3. CASE \E b \in Actors : Wrote(b)
    BY <1>6, <2>2, <2>3 DEF ReloadOnItsWay
  <2>4. CASE ~\E b \in Actors : Wrote(b)
    <3>1. DOMAIN registry = DOMAIN cached /\ \A x \in DOMAIN cached : cached[x] = registry[x]
      BY <1>3, <2>1, <2>4, Filling
    <3>2. QED
      BY <1>2, <2>2, <3>1 DEF ReloadOnItsWay
  <2>5. QED
    BY <2>3, <2>4
<1>8. QED
  BY <1>1, <1>2, <1>4, <1>7, LoadTypes DEF CatalogInv

LEMMA CatalogStep == CatalogInv /\ [CatalogNext]_catalog => CatalogInv'
<1> SUFFICES ASSUME CatalogInv, [CatalogNext]_catalog PROVE CatalogInv'
  OBVIOUS
<1>1. CatalogTypeOK /\ ReloadInv /\ HiddenInv
  BY DEF CatalogInv
<1>2. CASE \E a \in Actors : BusyAction(a)
  BY <1>2, BusyKeeps
<1>3. CASE \E p \in CatalogProviders : \E S \in SUBSET Of(p) : set_visibility_defaults(p, S)
  <2>1. UNCHANGED <<registry, cached, actor, hidden, missed>> /\ defaults' \subseteq Models
    BY <1>1, <1>3 DEF set_visibility_defaults, Of, CatalogTypeOK
  <2>2. QED
    BY <1>1, <2>1 DEF CatalogInv, CatalogTypeOK, ReloadInv, ReloadOnItsWay, HiddenInv,
                      HiddenStaysHidden, Busy, Loading, Wrote
<1>4. CASE UNCHANGED catalog
  BY <1>1, <1>4 DEF catalog, CatalogInv, CatalogTypeOK, ReloadInv, ReloadOnItsWay, HiddenInv,
                    HiddenStaysHidden, Busy, Loading, Wrote
<1>5. CASE \E a \in Actors : \/ LoadFetch(a) \/ LoadClear(a) \/ LoadEnds(a)
                             \/ \E m \in Models : LoadInsert(a, m)
  BY <1>5, LoadFetchKeeps, LoadClearKeeps, LoadEndsKeeps, LoadInsertKeeps
<1>6. CASE \E a \in Actors : update_model_display_name(a) \/ ApplyFails(a) \/ Dropped(a) \/ LoadFails(a)
  <2>1. PICK a \in Actors : update_model_display_name(a) \/ ApplyFails(a) \/ Dropped(a) \/ LoadFails(a)
    BY <1>6
  <2>2. CASE \E why : Busy(a) /\ GivesUp(a, why)
    BY <2>2, GivesUpKeeps
  <2>3. CASE Renames(a)
    BY <2>3, BusyKeeps DEF BusyAction
  <2>4. CASE \E why : /\ actor' = [actor EXCEPT ![a] = AtRest] /\ missed' = missed \cup {why}
                     /\ UNCHANGED <<registry, defaults, cached, hidden>>
    BY <2>4, LostReload
  <2>5. QED
    BY <2>1, <2>2, <2>3, <2>4
       DEF update_model_display_name, ApplyFails, Dropped, LoadFails, Renames, Busy
<1>7. QED
  BY <1>2, <1>3, <1>4, <1>5, <1>6 DEF CatalogNext, BusyAction

LEMMA CatalogInitHolds == CatalogInit => CatalogInv
<1> SUFFICES ASSUME CatalogInit PROVE CatalogInv
  OBVIOUS
<1> USE DEF CatalogInit
<1>1. DOMAIN registry = {} /\ DOMAIN cached = {}
  OBVIOUS
<1>2. \A a \in Actors : actor[a].pc = "idle" /\ actor[a].wrote = FALSE
  BY AtRestShape
<1>3. CatalogTypeOK
  BY <1>1, AtRestShape DEF CatalogTypeOK
<1>4. ReloadInv
  BY <1>1, <1>2 DEF ReloadInv, ReloadOnItsWay, Loading, Wrote
<1>5. HiddenInv
  BY <1>1 DEF HiddenInv, HiddenStaysHidden
<1>6. QED
  BY <1>3, <1>4, <1>5 DEF CatalogInv

(* Once every handler is done, what requests are checked against is what   *)
(* the table says, whatever handlers and reloads met in between: unless,   *)
(* since the last reload alone, two overlapped, one failed or was given    *)
(* up, or a handler ended after its change and before its reload (an error *)
(* at the name or at a later provider, or its client gone).  And a model   *)
(* an administrator hid stays hidden through every population              *)
(* (config_db.rs: the upsert keeps the flag).                              *)
THEOREM CatalogFollowsTable == CatalogSpec => []CatalogMirrored
<1>1. CatalogInv => CatalogMirrored
  <2> SUFFICES ASSUME CatalogInv PROVE CatalogMirrored
    OBVIOUS
  <2>1. HiddenStaysHidden /\ CatalogTypeOK /\ ReloadInv
    BY DEF CatalogInv, HiddenInv
  <2>2. ASSUME missed = {}, AllDone
        PROVE  DOMAIN registry = DOMAIN cached /\ \A m \in DOMAIN cached : cached[m] = registry[m]
    BY <2>1, <2>2 DEF ReloadInv, ReloadOnItsWay, Busy, AllDone
  <2>3. RequestsSeeTable
    BY <2>2 DEF RequestsSeeTable, Mirrored, Listed, is_model_disabled
  <2>4. QED
    BY <2>1, <2>3 DEF CatalogMirrored
<1>2. QED
  BY <1>1, CatalogStep, CatalogInitHolds, PTL DEF CatalogSpec

-----------------------------------------------------------------------------
(***************************************************************************)
(* The usage of a response.                                                *)
(***************************************************************************)
(* A set of natural numbers that is not empty has a least member.          *)
LEMMA LeastNumber ==
    ASSUME NEW S, S \subseteq Nat, S # {}
    PROVE  \E n \in S : \A m \in S : n <= m
<1>1. PICK n \in S : \A m \in S : <<m, n>> \notin OpToRel(<, Nat)
  BY NatLessThanWellFounded, WFMin
<1>2. \A m \in S : ~(m < n)
  BY <1>1, Zenon DEF OpToRel
<1> QED
  BY <1>2

Fields == {"input", "output"}

(* Lines are sent as three symbols each; a JSON response is one line.      *)
BodyInv ==
    /\ body \in Seq(Symbol)
    /\ \A i \in 1..Len(body) : body[i][2] = ((i - 1) % 3) + 1
    /\ \A i \in 1..Len(body) : body[i][2] = 2 => body[i][1] = body[i - 1][1]
    /\ consumer = "json" => Len(body) = 3 /\ ~Silent(body[1][1])

(* v is the last value of a counter among the first n symbols.             *)
LastValue(field, n, v) ==
    \/ v = 0 /\ \A i \in Counted(field) : i > n
    \/ \E i \in Counted(field) :
         i <= n /\ v = body[i][1][field] /\ \A j \in Counted(field) : j <= n => j <= i

(* A line starts after m symbols.                                          *)
LineStart(m) == m \in Nat /\ m % 3 = 0

(* text is what there is of the line that starts after m symbols.          *)
LineFrom(m, text) ==
    /\ LineStart(m)
    /\ text \in Seq(Symbol) /\ Len(text) \in 0..2
    /\ m + Len(text) <= Len(body)
    /\ \A i \in 1..Len(text) : text[i] = body[m + i]

(* The counters are the last ones among the first n symbols.               *)
LastValues(snapshot, n) ==
    /\ snapshot \in Snapshot
    /\ \A field \in Fields : LastValue(field, n, snapshot[field])

(* The state after n symbols: the unfinished line, and the last counters   *)
(* of the lines before it.                                                 *)
Follows(state, n) ==
    /\ state = [buffer |-> state.buffer, snapshot |-> state.snapshot]
    /\ LineFrom(n - Len(state.buffer), state.buffer)
    /\ LastValues(state.snapshot, n - Len(state.buffer))

Unused == [input |-> 0, output |-> 0]

(* A metric that is what was reported.                                     *)
Worth(metric) ==
    /\ metric = [input |-> LastAtTop("input"), output |-> LastAtTop("output")]
    /\ has_usage(metric)

(* While the tracked stream is open nothing is recorded, and its state is  *)
(* the one its symbols so far lead to.                                     *)
UsageInv ==
    /\ pos \in 0..Len(body)
    /\ consumer = "json" => usage.snapshot = Unused
    /\ stream = "open" => job = None /\ rows = <<>>
    /\ stream = "open" /\ tracked /\ consumer # "json" => Follows(usage, pos)
    /\ rows \in Seq(Metric) /\ job \in Metric \cup {None}
    /\ Len(rows) + (IF job = None THEN 0 ELSE 1) <= 1
    /\ \A i \in 1..Len(rows) : Worth(rows[i])
    /\ job # None => Worth(job)

-----------------------------------------------------------------------------
(* A chunk is taken symbol by symbol.                                      *)
LEMMA ChunkTaken ==
    ASSUME NEW state, NEW chunk, Len(chunk) \in Nat
    PROVE  \E f :
              /\ f[0] = state
              /\ \A i \in 1..Len(chunk) : f[i] = take_symbol(f[i - 1], chunk[i])
              /\ update_stream_usage_from_chunk(state, chunk) = f[Len(chunk)]
<1> DEFINE After(g, n) == [i \in 0..n |-> IF i = 0 THEN state ELSE take_symbol(g[i - 1], chunk[i])]
           Bad == {n \in Nat : ~\E g : g = After(g, n)}
           f == CHOOSE g : g = After(g, Len(chunk))
<1>1. Bad = {}
  <2>1. SUFFICES ASSUME Bad # {} PROVE FALSE
    OBVIOUS
  <2>2. PICK n \in Bad : \A m \in Bad : n <= m
    BY <2>1, LeastNumber
  <2>3. CASE n = 0
    <3> DEFINE g == [i \in 0..0 |-> state]
    <3>1. g = After(g, 0)
      OBVIOUS
    <3> QED
      BY <2>2, <2>3, <3>1
  <2>4. CASE n # 0
    <3>1. n - 1 \in Nat /\ n - 1 \notin Bad /\ n \in Nat
      <4>1. n \in Nat
        OBVIOUS
      <4>2. n - 1 \in Nat /\ ~(n <= n - 1)
        BY <2>4, <4>1
      <4> QED
        BY <2>2, <4>1, <4>2
    <3>2. PICK h : h = After(h, n - 1)
      BY <3>1
    <3> DEFINE g == [i \in 0..n |-> IF i = n THEN take_symbol(h[n - 1], chunk[n]) ELSE h[i]]
    <3> HIDE DEF Bad
    <3>3. \A i \in 0..n : g[i] = After(g, n)[i]
      <4>1. SUFFICES ASSUME NEW i \in 0..n PROVE g[i] = After(g, n)[i]
        OBVIOUS
      <4>2. CASE i = n
        <5>1. g[i - 1] = h[n - 1]
          BY <2>4, <3>1, <4>2
        <5> QED
          BY <2>4, <3>1, <4>2, <5>1
      <4>3. CASE i # n
        <5>1. i \in 0..(n - 1)
          BY <3>1, <4>3
        <5>2. g[i] = h[i]
          BY <4>3
        <5>3. h[i] = IF i = 0 THEN state ELSE take_symbol(h[i - 1], chunk[i])
          BY <3>2, <5>1
        <5>4. CASE i = 0
          BY <5>2, <5>3, <5>4
        <5>5. CASE i # 0
          <6>1. g[i - 1] = h[i - 1]
            BY <3>1, <5>1, <5>5
          <6> QED
            BY <5>2, <5>3, <5>5, <6>1
        <5> QED
          BY <5>4, <5>5
      <4> QED
        BY <4>2, <4>3
    <3>4. g = After(g, n)
      BY <3>3
    <3> QED
      BY <2>2, <3>4 DEF Bad
  <2> QED
    BY <2>3, <2>4
<1>2. f = After(f, Len(chunk))
  <2>1. \E g : g = After(g, Len(chunk))
    BY <1>1
  <2> QED
    BY <2>1, Zenon
<1>3. update_stream_usage_from_chunk(state, chunk) = f[Len(chunk)]
  BY Zenon DEF update_stream_usage_from_chunk
<1>4. \A i \in 0..Len(chunk) :
         f[i] = IF i = 0 THEN state ELSE take_symbol(f[i - 1], chunk[i])
  <2> HIDE DEF f
  <2> QED
    BY <1>2
<1> HIDE DEF f
<1>5. f[0] = state /\ \A i \in 1..Len(chunk) : f[i] = take_symbol(f[i - 1], chunk[i])
  BY <1>4
<1> QED
  BY <1>3, <1>5

-----------------------------------------------------------------------------
LEMMA CountedPlaces ==
    ASSUME BodyInv, NEW field \in Fields
    PROVE  /\ Counted(field) \subseteq 1..Len(body)
           /\ \A i \in Counted(field) : i % 3 = 2 /\ body[i][1][field] \in Int
<1>1. Len(body) \in Nat /\ DOMAIN body = 1..Len(body)
  BY DEF BodyInv
<1>2. Counted(field) \subseteq 1..Len(body)
  BY <1>1 DEF Counted
<1>3. ASSUME NEW i \in Counted(field) PROVE i % 3 = 2 /\ body[i][1][field] \in Int
  <2>1. i \in 1..Len(body) /\ body[i][2] = 2 /\ body[i][1][field] # None
    BY <1>2 DEF Counted
  <2>2. i % 3 = 2
    <3>1. ((i - 1) % 3) + 1 = 2
      BY <2>1 DEF BodyInv
    <3> QED
      BY <1>1, <2>1, <3>1
  <2>3. body[i][1] \in Line
    BY <2>1, <1>1 DEF BodyInv, Symbol
  <2>4. body[i][1][field] \in Int \cup {None}
    BY <2>3 DEF Line, Fields
  <2> QED
    BY <2>1, <2>2, <2>4
<1> QED
  BY <1>2, <1>3

LEMMA Thirds ==
    ASSUME NEW m, LineStart(m)
    PROVE  /\ m \in Nat /\ LineStart(m + 3)
           /\ \A i \in Nat : i % 3 = 2 => i <= m \/ i = m + 2 \/ i > m + 3
           /\ \A k \in 1..3 : ((m + k - 1) % 3) + 1 = k
BY DEF LineStart

(* The symbols of a line, as far as they are there.                        *)
LEMMA LineSymbols ==
    ASSUME BodyInv, NEW m, LineStart(m), NEW k \in 1..3, m + k <= Len(body)
    PROVE  /\ m + k \in 1..Len(body)
           /\ body[m + k] \in Symbol /\ body[m + k][2] = k
           /\ k = 2 => body[m + 2][1] = body[m + 1][1]
<1>1. m \in Nat /\ Len(body) \in Nat /\ ((m + k - 1) % 3) + 1 = k
  <2>1. Len(body) \in Nat
    BY DEF BodyInv
  <2> QED
    BY <2>1, Thirds
<1>2. m + k \in 1..Len(body)
  BY <1>1
<1>3. body[m + k] \in Symbol /\ body[m + k][2] = k
  BY <1>1, <1>2 DEF BodyInv
<1>4. k = 2 => body[m + 2][1] = body[m + 2 - 1][1] /\ m + 2 - 1 = m + 1
  BY <1>1, <1>2, <1>3 DEF BodyInv
<1> QED
  BY <1>2, <1>3, <1>4

LEMMA LineFromType ==
    ASSUME BodyInv, NEW m, NEW text, LineFrom(m, text)
    PROVE  /\ LineStart(m) /\ m \in Nat /\ Len(text) \in 0..2 /\ Len(body) \in Nat
           /\ m + Len(text) <= Len(body)
BY DEF LineFrom, LineStart, BodyInv

(* Where the counters of the line that starts after m symbols are.         *)
LEMMA CountedInLine ==
    ASSUME BodyInv, NEW m, LineStart(m), NEW field \in Fields
    PROVE  \A i \in Counted(field) : i \in Nat /\ (i <= m \/ i = m + 2 \/ i > m + 3)
<1>1. Len(body) \in Nat
  BY DEF BodyInv
<1>2. \A i \in Counted(field) : i \in Nat /\ i % 3 = 2
  BY <1>1, CountedPlaces
<1>3. \A i \in Nat : i % 3 = 2 => i <= m \/ i = m + 2 \/ i > m + 3
  BY Thirds
<1> QED
  BY <1>2, <1>3

(* Symbols that hold no counter change no last value.                      *)
LEMMA NothingCounted ==
    ASSUME NEW field, NEW m \in Nat, NEW n \in Nat, m <= n, NEW v, LastValue(field, m, v),
           \A i \in Counted(field) : i \in Nat /\ (i <= m \/ i > n)
    PROVE  LastValue(field, n, v)
BY DEF LastValue

(* A line adds its counters to those before it.                            *)
LEMMA LineTaken ==
    ASSUME BodyInv, NEW snapshot, NEW text, NEW m, LineFrom(m, text), LastValues(snapshot, m),
           NEW n \in {m + Len(text), m + 3}, n = m + 3 => Len(text) = 2
    PROVE  LastValues(update_stream_usage_from_line(snapshot, text), n)
<1> DEFINE result == update_stream_usage_from_line(snapshot, text)
           line == text[1][1]
<1>1. /\ LineStart(m) /\ m \in Nat /\ Len(text) \in 0..2 /\ Len(body) \in Nat
      /\ m + Len(text) <= Len(body)
  BY LineFromType
<1>2. n \in Nat /\ m <= n /\ n <= m + 3
  <2>1. CASE n = m + 3
    BY <1>1, <2>1
  <2>2. CASE n = m + Len(text)
    <3>1. PICK l \in 0..2 : l = Len(text)
      BY <1>1
    <3>2. n = m + l /\ m \in Nat
      BY <1>1, <2>2, <3>1
    <3> QED
      BY <3>2
  <2> QED
    BY <2>1, <2>2
<1>3. \A field \in Fields : \A i \in Counted(field) :
         i \in Nat /\ (i <= m \/ i = m + 2 \/ i > m + 3)
  BY <1>1, <1>2, CountedInLine
<1>4. CASE ~Complete(text)
  <2>1. result = snapshot /\ n <= m + 1
    BY <1>1, <1>4 DEF update_stream_usage_from_line, Complete
  <2>2. ASSUME NEW field \in Fields PROVE LastValue(field, n, snapshot[field])
    <3>1. LastValue(field, m, snapshot[field])
      BY DEF LastValues
    <3>2. \A i \in Counted(field) : i \in Nat /\ (i <= m \/ i > n)
      BY <1>1, <1>2, <1>3, <2>1
    <3> QED
      BY <1>1, <1>2, <3>1, <3>2, NothingCounted
  <2> QED
    BY <2>1, <2>2 DEF LastValues
<1>5. CASE Complete(text)
  <2>1. Len(text) = 2 /\ m + 1 \in 1..Len(body) /\ m + 2 \in 1..Len(body) /\ m + 2 <= n
    BY <1>1, <1>5 DEF Complete
  <2>2. line = body[m + 1][1] /\ line \in Line
    <3>1. text[1] = body[m + 1]
      BY <2>1 DEF LineFrom
    <3>2. body[m + 1] \in Symbol
      BY <1>1, <2>1, LineSymbols
    <3> QED
      BY <3>1, <3>2 DEF Symbol
  <2>3. body[m + 2][2] = 2 /\ body[m + 2][1] = line
    BY <1>1, <2>1, <2>2, LineSymbols
  <2>4. \A field \in Fields : m + 2 \in Counted(field) <=> ~Silent(line) /\ line[field] # None
    BY <2>1, <2>3 DEF Counted, BodyInv
  <2>5. /\ result \in Snapshot
        /\ \A field \in Fields :
              result[field] = IF Silent(line) \/ line[field] = None THEN snapshot[field] ELSE line[field]
    BY <1>5, <2>2
    DEF update_stream_usage_from_line, Silent, apply_fields, LastValues, Snapshot, Line, Fields
  <2> HIDE DEF result, line
  <2>6. ASSUME NEW field \in Fields PROVE LastValue(field, n, result[field])
    <3>1. CASE Silent(line) \/ line[field] = None
      <4>1. LastValue(field, m, result[field])
        BY <2>5, <3>1 DEF LastValues
      <4>2. \A i \in Counted(field) : i \in Nat /\ (i <= m \/ i > n)
        BY <1>1, <1>2, <1>3, <2>4, <3>1
      <4> QED
        BY <1>1, <1>2, <4>1, <4>2, NothingCounted
    <3>2. CASE ~Silent(line) /\ line[field] # None
      <4>1. m + 2 \in Counted(field) /\ body[m + 2][1][field] = result[field]
        BY <2>3, <2>4, <2>5, <3>2
      <4>2. \A j \in Counted(field) : j <= n => j <= m + 2
        BY <1>1, <1>2, <1>3
      <4> QED
        BY <2>1, <4>1, <4>2 DEF LastValue
    <3> QED
      BY <3>1, <3>2
  <2> QED
    BY <2>5, <2>6 DEF LastValues, result
<1> QED
  BY <1>4, <1>5

LEMMA FollowsFrom ==
    ASSUME NEW buffer, NEW snapshot, NEW n, NEW m, n - Len(buffer) = m,
           LineFrom(m, buffer), LastValues(snapshot, m)
    PROVE  Follows([buffer |-> buffer, snapshot |-> snapshot], n)
BY DEF Follows

(* The next symbol of the body is taken.                                   *)
LEMMA SymbolTaken ==
    ASSUME BodyInv, NEW state, NEW n \in 0..Len(body), n < Len(body), Follows(state, n)
    PROVE  Follows(take_symbol(state, body[n + 1]), n + 1)
<1> DEFINE text == state.buffer
           next == take_symbol(state, body[n + 1])
<1>1. PICK m \in Nat, l \in 0..2 :
        /\ l = Len(text) /\ n = m + l /\ n - Len(text) = m /\ LineStart(m)
        /\ LineFrom(m, text) /\ LastValues(state.snapshot, m)
  <2>1. LineFrom(n - Len(text), text) /\ LastValues(state.snapshot, n - Len(text))
    BY DEF Follows
  <2>2. n - Len(text) \in Nat /\ Len(text) \in 0..2 /\ LineStart(n - Len(text))
    BY <2>1, LineFromType
  <2>3. n \in Nat
    BY DEF BodyInv
  <2>4. n = (n - Len(text)) + Len(text)
    BY <2>2, <2>3
  <2> QED
    BY <2>1, <2>2, <2>4
<1> HIDE DEF text
<1>2. n + 1 = m + (l + 1) /\ l + 1 \in 1..3 /\ Len(body) \in Nat /\ m + (l + 1) <= Len(body)
  <2>1. Len(body) \in Nat
    BY DEF BodyInv
  <2>2. n = m + l
    BY <1>1
  <2> QED
    BY <2>1, <2>2
<1>3. body[n + 1][2] = l + 1 /\ body[n + 1] \in Symbol
  BY <1>1, <1>2, LineSymbols
<1>4. CASE l = 2
  <2>1. n + 1 = m + 3 /\ LineStart(m + 3) /\ m + 3 <= Len(body) /\ m + 3 \in Nat
    BY <1>1, <1>2, <1>4, Thirds
  <2>2. next = [buffer |-> <<>>,
                snapshot |-> update_stream_usage_from_line(state.snapshot, text)]
    BY <1>3, <1>4 DEF take_symbol, text
  <2>3. LastValues(update_stream_usage_from_line(state.snapshot, text), m + 3)
    BY <1>1, <1>4, LineTaken
  <2> HIDE DEF next
  <2>4. /\ next.buffer = <<>> /\ Len(next.buffer) = 0
        /\ next.snapshot = update_stream_usage_from_line(state.snapshot, text)
    BY <2>2
  <2>5. n + 1 - Len(next.buffer) = m + 3
    BY <2>1, <2>4
  <2>6. LineFrom(m + 3, next.buffer)
    BY <1>2, <2>1, <2>4 DEF LineFrom
  <2>7. Follows(next, n + 1)
    BY <2>2, <2>3, <2>4, <2>5, <2>6 DEF Follows
  <2> QED
    BY <2>7 DEF next
<1>5. CASE l # 2
  <2>1. next = [buffer |-> Append(text, body[n + 1]), snapshot |-> state.snapshot]
    <3>1. next = [state EXCEPT !.buffer = Append(text, body[n + 1])]
      BY <1>3, <1>5 DEF take_symbol, text
    <3>2. state = [buffer |-> text, snapshot |-> state.snapshot]
      BY DEF Follows, text
    <3> QED
      BY <3>1, <3>2
  <2> HIDE DEF next
  <2>2. next.buffer = Append(text, body[n + 1]) /\ next.snapshot = state.snapshot
    BY <2>1
  <2>3. /\ text \in Seq(Symbol) /\ \A i \in 1..l : text[i] = body[m + i]
        /\ next.buffer \in Seq(Symbol) /\ Len(next.buffer) = l + 1
    BY <1>1, <1>3, <2>2 DEF LineFrom
  <2>4. n + 1 - Len(next.buffer) = m
    BY <1>2, <2>3
  <2>5. ASSUME NEW i \in 1..(l + 1) PROVE next.buffer[i] = body[m + i]
    <3>1. CASE i = l + 1
      BY <1>1, <1>2, <2>2, <2>3, <3>1
    <3>2. CASE i # l + 1
      <4>1. i \in 1..l
        BY <3>2
      <4>2. next.buffer[i] = text[i]
        BY <1>1, <2>2, <2>3, <4>1
      <4> QED
        BY <2>3, <4>1, <4>2
    <3> QED
      BY <3>1, <3>2
  <2>6. LineFrom(m, next.buffer)
    BY <1>1, <1>2, <1>5, <2>3, <2>5 DEF LineFrom
  <2>7. Follows([buffer |-> next.buffer, snapshot |-> next.snapshot], n + 1)
    <3>1. LastValues(next.snapshot, m)
      BY <1>1, <2>2
    <3> QED
      BY <2>4, <2>6, <3>1, FollowsFrom
  <2>8. next = [buffer |-> next.buffer, snapshot |-> next.snapshot]
    BY <2>1, <2>2
  <2> QED
    BY <2>7, <2>8 DEF next
<1> QED
  BY <1>4, <1>5

(* What the state holds does not depend on how the body was cut.           *)
LEMMA CutAnywhere ==
    ASSUME BodyInv, NEW state, NEW p \in 0..Len(body), Follows(state, p),
           NEW n \in 1..(Len(body) - p)
    PROVE  Follows(update_stream_usage_from_chunk(state, SubSeq(body, p + 1, p + n)), p + n)
<1> DEFINE chunk == SubSeq(body, p + 1, p + n)
<1>1. Len(body) \in Nat /\ p \in Nat /\ n \in Nat /\ p + n <= Len(body)
  BY DEF BodyInv
<1>2. Len(chunk) = n /\ \A i \in 1..n : chunk[i] = body[p + i]
  BY <1>1 DEF BodyInv
<1> HIDE DEF chunk
<1>l. Len(chunk) \in Nat /\ Len(chunk) = n
  BY <1>1, <1>2
<1>f. PICK f : /\ f[0] = state
               /\ \A i \in 1..Len(chunk) : f[i] = take_symbol(f[i - 1], chunk[i])
               /\ update_stream_usage_from_chunk(state, chunk) = f[Len(chunk)]
  BY <1>l, ChunkTaken, Zenon, ZenonT(60)
<1>3. /\ f[0] = state
      /\ \A i \in 1..n : f[i] = take_symbol(f[i - 1], chunk[i])
      /\ update_stream_usage_from_chunk(state, chunk) = f[n]
  <2>1. Len(chunk) = n
    BY <1>l
  <2> QED
    BY <1>f, <2>1
<1> DEFINE Bad == {k \in 0..n : ~Follows(f[k], p + k)}
<1>4. Bad = {}
  <2>1. SUFFICES ASSUME Bad # {} PROVE FALSE
    OBVIOUS
  <2>2. PICK k \in Bad : \A j \in Bad : k <= j
    <3>1. Bad \subseteq Nat
      OBVIOUS
    <3> QED
      BY <2>1, <3>1, LeastNumber
  <2>3. k # 0
    BY <1>1, <1>3, <2>2
  <2>4. k - 1 \in 0..n /\ k \in 1..n /\ k - 1 \notin Bad
    BY <1>1, <2>2, <2>3
  <2>5. Follows(f[k - 1], p + k - 1) /\ p + (k - 1) = p + k - 1
    BY <1>1, <2>4
  <2>6. p + k - 1 \in 0..Len(body) /\ p + k - 1 < Len(body) /\ p + k - 1 + 1 = p + k
    BY <1>1, <2>4
  <2>7. Follows(take_symbol(f[k - 1], body[p + k]), p + k)
    BY <2>5, <2>6, SymbolTaken
  <2>8. f[k] = take_symbol(f[k - 1], body[p + k])
    BY <1>2, <1>3, <2>4
  <2> QED
    BY <2>2, <2>7, <2>8
<1>5. n \in 0..n
  BY <1>1
<1>6. Follows(f[n], p + n)
  BY <1>4, <1>5
<1> QED
  BY <1>3, <1>6 DEF chunk

-----------------------------------------------------------------------------
(* The bodies a provider sends.                                            *)
LEMMA Places ==
    ASSUME NEW n \in Nat, NEW i \in 1..(3 * n)
    PROVE  /\ ((i - 1) \div 3) + 1 \in 1..n
           /\ ((i - 1) % 3) + 1 \in 1..3
           /\ ((i - 1) % 3) + 1 = 2 =>
                 i - 1 \in 1..(3 * n) /\ (i - 1) \div 3 = (i - 1 - 1) \div 3
<1>1. i \in Int /\ 1 <= i /\ i <= 3 * n
  OBVIOUS
<1>2. ((i - 1) \div 3) + 1 \in 1..n
  BY <1>1
<1>3. ((i - 1) % 3) + 1 \in 1..3
  BY <1>1
<1>4. ((i - 1) % 3) + 1 = 2 => 2 <= i /\ (i - 1) \div 3 = (i - 1 - 1) \div 3
  BY <1>1
<1> QED
  BY <1>1, <1>2, <1>3, <1>4

LEMMA TextLines ==
    ASSUME NEW ls \in Seq(Line)
    PROVE  /\ Text(ls) \in Seq(Symbol) /\ Len(Text(ls)) = 3 * Len(ls)
           /\ \A i \in 1..(3 * Len(ls)) :
                 /\ Text(ls)[i][2] = ((i - 1) % 3) + 1
                 /\ Text(ls)[i][2] = 2 =>
                       i - 1 \in 1..(3 * Len(ls)) /\ Text(ls)[i][1] = Text(ls)[i - 1][1]
<1>1. Len(ls) \in Nat /\ 3 * Len(ls) \in Nat /\ \A k \in 1..Len(ls) : ls[k] \in Line
  OBVIOUS
<1>2. \A i \in 1..(3 * Len(ls)) :
         Text(ls)[i] = <<ls[((i - 1) \div 3) + 1], ((i - 1) % 3) + 1>>
  BY DEF Text
<1>3. ASSUME NEW i \in 1..(3 * Len(ls)) PROVE Text(ls)[i] \in Symbol
  <2>1. ((i - 1) \div 3) + 1 \in 1..Len(ls) /\ ((i - 1) % 3) + 1 \in 1..3
    BY <1>1, Places
  <2>2. ls[((i - 1) \div 3) + 1] \in Line
    BY <1>1, <2>1
  <2>3. Text(ls)[i] = <<ls[((i - 1) \div 3) + 1], ((i - 1) % 3) + 1>>
    BY <1>2
  <2>4. \A l \in Line, k \in 1..3 : <<l, k>> \in Symbol
    BY DEF Symbol
  <2>5. <<ls[((i - 1) \div 3) + 1], ((i - 1) % 3) + 1>> \in Symbol
    BY <2>1, <2>2, <2>4, Zenon
  <2> QED
    BY <2>3, <2>5
<1>4. Text(ls) \in [1..(3 * Len(ls)) -> Symbol]
  BY <1>3 DEF Text
<1>5. Text(ls) \in Seq(Symbol) /\ Len(Text(ls)) = 3 * Len(ls)
  BY <1>1, <1>4
<1>6. ASSUME NEW i \in 1..(3 * Len(ls)), Text(ls)[i][2] = 2
      PROVE  i - 1 \in 1..(3 * Len(ls)) /\ Text(ls)[i][1] = Text(ls)[i - 1][1]
  <2>1. ((i - 1) % 3) + 1 = 2
    BY <1>2, <1>6
  <2>2. i - 1 \in 1..(3 * Len(ls)) /\ (i - 1) \div 3 = (i - 1 - 1) \div 3
    BY <1>1, <2>1, Places
  <2>3. Text(ls)[i] = <<ls[((i - 1) \div 3) + 1], ((i - 1) % 3) + 1>>
    BY <1>2
  <2>4. Text(ls)[i - 1] = <<ls[((i - 1 - 1) \div 3) + 1], ((i - 1 - 1) % 3) + 1>>
    BY <1>2, <2>2
  <2>5. Text(ls)[i][1] = ls[((i - 1) \div 3) + 1] /\ Text(ls)[i - 1][1] = ls[((i - 1 - 1) \div 3) + 1]
    BY <2>3, <2>4
  <2> QED
    BY <2>2, <2>5, Zenon
<1>7. \A i \in 1..(3 * Len(ls)) : Text(ls)[i][2] = ((i - 1) % 3) + 1
  BY <1>2
<1> QED
  BY <1>5, <1>6, <1>7

LEMMA BodiesInLines ==
    ASSUME NEW c, NEW b \in Bodies(c)
    PROVE  /\ b \in Seq(Symbol)
           /\ \A i \in 1..Len(b) : b[i][2] = ((i - 1) % 3) + 1
           /\ \A i \in 1..Len(b) : b[i][2] = 2 => b[i][1] = b[i - 1][1]
           /\ c = "json" => Len(b) = 3 /\ ~Silent(b[1][1])
<1>1. CASE c = "json"
  <2>1. PICK l \in Lines : ~Silent(l) /\ b = Text(<<l>>)
    BY <1>1 DEF Bodies
  <2>2. l \in Line /\ <<l>> \in Seq(Line) /\ Len(<<l>>) = 1
    BY LinesAssumption
  <2>3. b[1][1] = l
    BY <2>1, <2>2 DEF Text
  <2>4. /\ b \in Seq(Symbol) /\ Len(b) = 3
        /\ \A i \in 1..3 : b[i][2] = ((i - 1) % 3) + 1
        /\ \A i \in 1..3 : b[i][2] = 2 => b[i][1] = b[i - 1][1]
    <3>1. 3 * Len(<<l>>) = 3
      BY <2>2
    <3> QED
      BY <2>1, <2>2, <3>1, TextLines
  <2> QED
    BY <2>1, <2>3, <2>4
<1>2. CASE c # "json"
  <2>1. PICK ls \in SeqOf(Lines, MaxLines) :
           \E n \in 0..(3 * Len(ls)) : b = SubSeq(Text(ls), 1, n)
    BY <1>2 DEF Bodies
  <2>2. ls \in Seq(Line)
    <3>1. PICK m \in 0..MaxLines : ls \in [1..m -> Lines]
      BY <2>1 DEF SeqOf
    <3>2. m \in Nat /\ ls \in [1..m -> Line]
      BY <3>1, LinesAssumption, CountersAssumption
    <3> QED
      BY <3>2
  <2>3. /\ Text(ls) \in Seq(Symbol) /\ Len(Text(ls)) = 3 * Len(ls)
        /\ Len(ls) \in Nat /\ 3 * Len(ls) \in Nat
    BY <2>2, TextLines
  <2>m. PICK n \in 0..(3 * Len(ls)) : b = SubSeq(Text(ls), 1, n)
    BY <2>1
  <2>n. n \in Nat /\ n <= 3 * Len(ls)
    BY <2>3
  <2>4. b \in Seq(Symbol) /\ Len(b) = n /\ \A i \in 1..n : b[i] = Text(ls)[i]
    BY <2>3, <2>m, <2>n
  <2>5. ASSUME NEW i \in 1..n
        PROVE  b[i][2] = ((i - 1) % 3) + 1 /\ (b[i][2] = 2 => b[i][1] = b[i - 1][1])
    <3>1. i \in 1..(3 * Len(ls))
      BY <2>3, <2>n
    <3>2. /\ Text(ls)[i][2] = ((i - 1) % 3) + 1
          /\ Text(ls)[i][2] = 2 =>
                i - 1 \in 1..(3 * Len(ls)) /\ Text(ls)[i][1] = Text(ls)[i - 1][1]
      BY <2>2, <3>1, TextLines
    <3>3. i - 1 \in 1..(3 * Len(ls)) => i - 1 \in 1..n
      BY <2>3, <2>n
    <3> QED
      BY <2>4, <3>2, <3>3
  <2> QED
    BY <1>2, <2>4, <2>5
<1> QED
  BY <1>1, <1>2

(* Before the first symbol nothing is reported.                            *)
LEMMA UnusedAtStart ==
    ASSUME BodyInv PROVE LastValues(Unused, 0)
<1>1. ASSUME NEW field \in Fields PROVE LastValue(field, 0, Unused[field])
  <2>1. Len(body) \in Nat
    BY DEF BodyInv
  <2>2. \A i \in Counted(field) : i > 0
    BY <2>1, CountedPlaces
  <2> QED
    BY <2>2 DEF LastValue, Unused, Fields
<1> QED
  BY <1>1 DEF LastValues, Unused, Snapshot

LEMMA UsageStarts ==
    UsageInit => BodyInv /\ UsageInv
<1> SUFFICES ASSUME UsageInit PROVE BodyInv /\ UsageInv
  OBVIOUS
<1>1. BodyInv
  BY BodiesInLines DEF UsageInit, BodyInv
<1>2. Len(body) \in Nat /\ pos \in 0..Len(body)
  <2>1. Len(body) \in Nat
    BY <1>1 DEF BodyInv
  <2> QED
    BY <2>1 DEF UsageInit
<1>3. Follows(usage, pos)
  <2> DEFINE nothing == <<>>
  <2>1. usage = [buffer |-> nothing, snapshot |-> Unused] /\ pos = 0
    BY DEF UsageInit, Unused
  <2>2. nothing \in Seq(Symbol) /\ Len(nothing) = 0
    OBVIOUS
  <2>3. LineFrom(0, nothing)
    BY <1>2, <2>2 DEF LineFrom, LineStart
  <2>4. LastValues(Unused, 0)
    BY <1>1, UnusedAtStart
  <2> HIDE DEF nothing
  <2>5. pos - Len(nothing) = 0
    BY <2>1, <2>2
  <2> QED
    BY <2>1, <2>3, <2>4, <2>5, FollowsFrom
<1>4. rows = <<>> /\ job = None /\ usage.snapshot = Unused
  BY DEF UsageInit, Unused
<1> QED
  BY <1>1, <1>2, <1>3, <1>4 DEF UsageInv

-----------------------------------------------------------------------------
(* What is recorded.                                                       *)
LEMMA ReportedLast ==
    ASSUME BodyInv, NEW field \in Fields, NEW v, LastValue(field, Len(body), v)
    PROVE  v = LastAtTop(field)
<1>1. Len(body) \in Nat /\ Counted(field) \subseteq 1..Len(body)
  BY CountedPlaces DEF BodyInv
<1>2. CASE Counted(field) = {}
  BY <1>2 DEF LastValue, LastAtTop
<1>3. CASE Counted(field) # {}
  <2>1. PICK i \in Counted(field) :
          v = body[i][1][field] /\ \A j \in Counted(field) : j <= Len(body) => j <= i
    BY <1>1, <1>3 DEF LastValue
  <2>2. \A j \in Counted(field) : j <= i
    BY <1>1, <2>1
  <2> DEFINE Highest(k) == k \in Counted(field) /\ \A j \in Counted(field) : j <= k
             last == CHOOSE k \in Counted(field) : \A j \in Counted(field) : j <= k
  <2>3. Highest(i) /\ Highest(last)
    BY <2>2
  <2>4. last = i
    <3> HIDE DEF last
    <3> QED
      BY <1>1, <2>3
  <2>5. LastAtTop(field) = body[last][1][field]
    BY <1>3 DEF LastAtTop
  <2> HIDE DEF last
  <2> QED
    BY <2>1, <2>4, <2>5
<1> QED
  BY <1>2, <1>3

LEMMA PersistWorth ==
    ASSUME BodyInv, NEW snapshot, LastValues(snapshot, Len(body)), persist(snapshot) # None
    PROVE  persist(snapshot) \in Metric /\ Worth(persist(snapshot))
<1>1. /\ has_usage(snapshot) /\ persist(snapshot) = snapshot
      /\ snapshot.input \in 0..MaxI32 /\ snapshot.output \in 0..MaxI32
  BY DEF persist, normalize_for_persistence
<1>2. snapshot = [input |-> snapshot.input, output |-> snapshot.output]
  BY DEF LastValues, Snapshot
<1>3. snapshot.input = LastAtTop("input") /\ snapshot.output = LastAtTop("output")
  BY ReportedLast DEF LastValues, Fields
<1>4. snapshot \in Metric
  BY <1>1, <1>2 DEF Metric
<1> QED
  BY <1>1, <1>2, <1>3, <1>4 DEF Worth

(* Steps leave the body alone, and with it what was reported.              *)
LEMMA BodyKept ==
    ASSUME BodyInv, UNCHANGED <<consumer, body>>
    PROVE  BodyInv'
BY DEF BodyInv

LEMMA ReportedKept ==
    ASSUME UNCHANGED body
    PROVE  \A field : Counted(field)' = Counted(field) /\ LastAtTop(field)' = LastAtTop(field)
<1>1. ASSUME NEW field PROVE Counted(field)' = Counted(field)
  BY DEF Counted
<1>2. ASSUME NEW field PROVE LastAtTop(field)' = LastAtTop(field)
  BY DEF Counted, LastAtTop
<1> QED
  BY <1>1, <1>2

LEMMA WorthKept ==
    ASSUME UNCHANGED body
    PROVE  /\ Worth(job') => Worth(job)'
           /\ \A i : Worth(rows'[i]) => Worth(rows[i])'
<1>1. LastAtTop("input")' = LastAtTop("input") /\ LastAtTop("output")' = LastAtTop("output")
  BY ReportedKept
<1> QED
  BY <1>1, Zenon DEF Worth, has_usage

LEMMA FollowsKept ==
    ASSUME UNCHANGED body, Follows(usage', pos')
    PROVE  Follows(usage, pos)'
<1>1. \A field : Counted(field)' = Counted(field)
  BY ReportedKept
<1>2. LineFrom(pos' - Len(usage'.buffer), usage'.buffer)
      => LineFrom(pos - Len(usage.buffer), usage.buffer)'
  BY Zenon DEF LineFrom
<1>3. LastValues(usage'.snapshot, pos' - Len(usage'.buffer))
      => LastValues(usage.snapshot, pos - Len(usage.buffer))'
  BY <1>1, Zenon DEF LastValues, LastValue
<1> QED
  BY <1>2, <1>3, Zenon DEF Follows

(* Steps that leave the tracked stream as it is, or close it, and record   *)
(* nothing new.                                                            *)
LEMMA StreamKept ==
    ASSUME BodyInv, UsageInv, UNCHANGED <<consumer, tracked, body, usage, job, rows>>,
           pos' \in 0..Len(body), stream' = "open" => stream = "open" /\ pos' = pos
    PROVE  UsageInv'
<1> USE DEF UsageInv
<1>1. /\ job # None => Worth(job)'
      /\ \A i \in 1..Len(rows) : Worth(rows[i])'
  BY WorthKept
<1>2. stream' = "open" /\ tracked /\ consumer # "json" => Follows(usage, pos)'
  BY FollowsKept
<1> QED
  BY <1>1, <1>2

(* A chunk goes through the tracked stream.                                *)
LEMMA ReceiveKeeps ==
    ASSUME BodyInv, UsageInv, UNCHANGED <<consumer, tracked, body, job, rows>>, consumer # "json",
           NEW n \in 1..(Len(body) - pos), Receive(n)
    PROVE  UsageInv'
<1>1. Len(body) \in Nat /\ pos \in 0..Len(body) /\ pos' = pos + n /\ pos' \in 0..Len(body)
  <2>1. Len(body) \in Nat
    BY DEF BodyInv
  <2> QED
    BY <2>1 DEF UsageInv, Receive
<1>2. tracked => Follows(usage', pos')
  <2>1. SUFFICES ASSUME tracked PROVE Follows(usage', pos')
    OBVIOUS
  <2>2. Follows(usage, pos)
    BY <2>1 DEF UsageInv, Receive
  <2>3. usage' = update_stream_usage_from_chunk(usage, SubSeq(body, pos + 1, pos + n))
    BY <2>1 DEF Receive, Observe
  <2> QED
    BY <1>1, <2>2, <2>3, CutAnywhere
<1>3. stream = "open" /\ job = None /\ rows = <<>>
  BY DEF UsageInv, Receive
<1>4. tracked => Follows(usage, pos)'
  BY <1>2, FollowsKept
<1> QED
  BY <1>1, <1>3, <1>4 DEF UsageInv

(* The stream is over, and what its state holds is recorded.               *)
LEMMA StreamEndsKeeps ==
    ASSUME BodyInv, UsageInv, StreamEnds
    PROVE  UsageInv'
<1>1. /\ consumer # "json" /\ stream = "open" /\ stream' = "ended" /\ pos = Len(body)
      /\ UNCHANGED <<consumer, tracked, body, pos, rows>>
      /\ rows = <<>> /\ pos \in 0..Len(body)
  BY DEF StreamEnds, UsageInv
<1>2. job' # None => job' \in Metric /\ Worth(job')
  <2>1. SUFFICES ASSUME job' # None PROVE job' \in Metric /\ Worth(job')
    OBVIOUS
  <2>2. tracked /\ job' = persist(usage'.snapshot)
    BY <2>1 DEF StreamEnds
  <2>3. Follows(usage, Len(body))
    BY <1>1, <2>2 DEF UsageInv
  <2>4. LastValues(update_stream_usage_from_line(usage.snapshot, usage.buffer), Len(body))
    <3> DEFINE m == Len(body) - Len(usage.buffer)
    <3>1. LineFrom(m, usage.buffer) /\ LastValues(usage.snapshot, m)
      BY <2>3 DEF Follows
    <3>2. m \in Nat /\ Len(usage.buffer) \in 0..2 /\ Len(body) \in Nat
      BY <3>1, LineFromType
    <3>3. m + Len(usage.buffer) = Len(body) /\ m + Len(usage.buffer) # m + 3
      <4>1. PICK l \in 0..2 : l = Len(usage.buffer)
        BY <3>2
      <4>2. PICK k \in Nat : k = Len(body)
        BY <3>2
      <4>3. m = k - l
        BY <4>1, <4>2
      <4>4. (k - l) + l = k /\ (k - l) + l # (k - l) + 3
        OBVIOUS
      <4> QED
        BY <4>1, <4>2, <4>3, <4>4, Zenon
    <3> HIDE DEF m
    <3> QED
      BY <3>1, <3>3, LineTaken
  <2>5. usage'.snapshot = update_stream_usage_from_line(usage.snapshot, usage.buffer)
    BY DEF StreamEnds, finalize_stream_usage
  <2> QED
    BY <2>1, <2>2, <2>4, <2>5, PersistWorth
<1>3. job' # None => Worth(job)'
  BY <1>1, <1>2, WorthKept
<1> QED
  BY <1>1, <1>2, <1>3 DEF UsageInv

(* A JSON response is a body of one line.                                  *)
LEMMA JsonResponseKeeps ==
    ASSUME BodyInv, UsageInv, JsonResponse
    PROVE  UsageInv'
<1>1. /\ consumer = "json" /\ stream = "open" /\ stream' = "ended" /\ pos' = Len(body)
      /\ UNCHANGED <<consumer, tracked, body, usage, rows>>
      /\ rows = <<>> /\ usage.snapshot = Unused
  BY DEF JsonResponse, UsageInv
<1>2. Len(body) = 3 /\ ~Silent(body[1][1]) /\ body[1] \in Symbol /\ body[2] \in Symbol
  <2>1. Len(body) = 3 /\ ~Silent(body[1][1]) /\ body \in Seq(Symbol)
    BY <1>1, Zenon DEF BodyInv
  <2> QED
    BY <2>1
<1> DEFINE text == <<body[1], body[2]>>
<1>3. LineStart(0) /\ LineFrom(0, text)
  <2>1. LineStart(0)
    BY DEF LineStart
  <2>2. text \in Seq(Symbol) /\ Len(text) = 2 /\ text[1] = body[1] /\ text[2] = body[2]
    BY <1>2
  <2> HIDE DEF text
  <2>3. \A i \in 1..2 : text[i] = body[0 + i]
    BY <2>2
  <2> QED
    BY <1>2, <2>1, <2>2, <2>3 DEF LineFrom
<1>4. LastValues(Unused, 0)
  BY UnusedAtStart
<1>5. LastValues(update_stream_usage_from_line(Unused, text), 3)
  <2>1. Len(text) = 2
    OBVIOUS
  <2> HIDE DEF text
  <2> QED
    BY <1>3, <1>4, <2>1, LineTaken
<1>6. update_stream_usage_from_line(Unused, text) = apply_fields(Unused, body[1][1])
  BY <1>2 DEF update_stream_usage_from_line, Complete
<1>7. job' # None => job' \in Metric /\ Worth(job')
  <2>1. job' # None => job' = persist(apply_fields(Unused, body[1][1]))
    BY <1>1 DEF JsonResponse
  <2> QED
    BY <1>2, <1>5, <1>6, <2>1, PersistWorth
<1>8. job' # None => Worth(job)'
  BY <1>1, <1>7, WorthKept
<1> QED
  BY <1>1, <1>2, <1>7, <1>8 DEF UsageInv

(* The spawned task inserts the row or fails.                              *)
LEMMA InsertUsageKeeps ==
    ASSUME BodyInv, UsageInv, InsertUsage
    PROVE  UsageInv'
<1>1. /\ job # None /\ job \in Metric /\ Worth(job) /\ job' = None /\ stream # "open"
      /\ UNCHANGED <<consumer, tracked, body, pos, usage, stream>>
      /\ pos \in 0..Len(body) /\ (consumer = "json" => usage.snapshot = Unused)
  BY DEF UsageInv, InsertUsage
<1>2. rows \in Seq(Metric) /\ Len(rows) = 0
  <2>1. rows \in Seq(Metric) /\ Len(rows) \in Nat /\ Len(rows) + 1 <= 1
    BY <1>1 DEF UsageInv
  <2> QED
    BY <2>1
<1>3. CASE rows' = Append(rows, job)
  <2>1. rows' \in Seq(Metric) /\ Len(rows') = 1 /\ rows'[1] = job
    BY <1>1, <1>2, <1>3
  <2>2. \A i \in 1..Len(rows') : Worth(rows[i])'
    BY <1>1, <2>1, WorthKept
  <2> QED
    BY <1>1, <2>1, <2>2 DEF UsageInv
<1>4. CASE rows' = rows
  <2>1. \A i \in 1..Len(rows) : Worth(rows[i])'
    BY <1>2
  <2> QED
    BY <1>1, <1>2, <1>4, <2>1 DEF UsageInv
<1> QED
  BY <1>3, <1>4 DEF InsertUsage

LEMMA UsageSteps ==
    BodyInv /\ UsageInv /\ [UsageNext]_usageVars => BodyInv' /\ UsageInv'
<1> SUFFICES ASSUME BodyInv, UsageInv, [UsageNext]_usageVars PROVE BodyInv' /\ UsageInv'
  OBVIOUS
<1>1. BodyInv'
  BY BodyKept DEF UsageNext, usageVars, Poll, DirectChunk, ResponsesChunk, ResponsesBadChunk, StreamEnds,
                  JsonResponse, StreamFails, HangUp, InsertUsage
<1>p. pos \in 0..Len(body)
  BY DEF UsageInv
<1>2. CASE DirectChunk
  BY <1>1, <1>2, ReceiveKeeps DEF DirectChunk
<1>3. CASE ResponsesChunk
  BY <1>1, <1>3, ReceiveKeeps DEF ResponsesChunk
<1>4. CASE ResponsesBadChunk
  BY <1>1, <1>4, ReceiveKeeps DEF ResponsesBadChunk
<1>5. CASE StreamEnds
  BY <1>1, <1>5, StreamEndsKeeps
<1>6. CASE JsonResponse
  BY <1>1, <1>6, JsonResponseKeeps
<1>7. CASE StreamFails
  BY <1>1, <1>7, <1>p, StreamKept DEF StreamFails
<1>8. CASE HangUp
  BY <1>1, <1>8, <1>p, StreamKept DEF HangUp
<1>9. CASE InsertUsage
  BY <1>1, <1>9, InsertUsageKeeps
<1>10. CASE UNCHANGED usageVars
  BY <1>1, <1>10, <1>p, StreamKept DEF usageVars
<1> QED
  BY <1>1, <1>2, <1>3, <1>4, <1>5, <1>6, <1>7, <1>8, <1>9, <1>10 DEF UsageNext, Poll

(* What is in usage_records, or on its way there, is what the provider     *)
(* reported last in usage objects at the top of its lines, whatever the    *)
(* lines, those with nested objects included, and however the body is cut  *)
(* into chunks (update_stream_usage_from_chunk, finalize_stream_usage),    *)
(* and there is at most one row for a response.                            *)
THEOREM RecordedOnce == UsageSpec => []TopLevelRecorded
<1>1. BodyInv /\ UsageInv => TopLevelRecorded
  <2> SUFFICES ASSUME BodyInv, UsageInv PROVE TopLevelRecorded
    OBVIOUS
  <2>1. \A metric \in ToSet(rows) : Worth(metric)
    BY DEF UsageInv, ToSet
  <2> QED
    BY <2>1 DEF UsageInv, TopLevelRecorded, Worth
<1> QED
  BY <1>1, UsageStarts, UsageSteps, PTL DEF UsageSpec
=============================================================================
