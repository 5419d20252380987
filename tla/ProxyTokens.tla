----------------------------- MODULE ProxyTokens ----------------------------
(***************************************************************************)
(* ProxyTokenManager (proxy_token_manager.rs): the tokens of a gateway     *)
(* without a database, kept in one file, renewed by a background task and  *)
(* replaced by the relay, with the live credentials in memory.             *)
(*                                                                         *)
(* A token is the number of its issue.  The file is written to a temporary *)
(* one that is then renamed, under file_lock, which a refresh keeps        *)
(* through its requests.  A provider whose refresh token stays (GitHub's   *)
(* for Copilot) is one that does not rotate.                               *)
(***************************************************************************)
EXTENDS OAuthRelay

CONSTANTS
    PROXY_USER_ID,   \* the one user of a gateway without a database
    RefreshBuffer,   \* REFRESH_BUFFER_SECS
    Lifetime,        \* expires_in of an issue
    MaxIssues,       \* bound on the tokens issued
    MaxStops         \* bound on the crashes

Task == "task"

ASSUME ProxyTokensAssumption ==
    /\ RefreshBuffer \in Nat /\ Lifetime \in Nat /\ MaxIssues \in Nat /\ MaxStops \in Nat
    /\ PROXY_USER_ID \in Users
    /\ Posts \cap {Task, "free"} = {}

Slots == RelayProviders

VARIABLES
    file,        \* the token file: an entry by provider
    tmp,         \* the temporary file
    torn,        \* the file was left half-written
    creds,       \* the live credentials: the access token, 0 without
    lock,        \* holder of file_lock, or "free"
    hold,        \* what the holder read and changed
    todo,        \* entries the holder has still to renew
    step,        \* where the holder is
    got,         \* the issue each post's exchange returned
    issued,      \* issues so far
    origin,      \* history: the refresh token each issue was bought with, 0 for a code
    accepted,    \* refresh tokens the providers accept
    broken,      \* history: providers whose newest refresh token got lost on the way
    stops        \* crashes so far

tokens == <<file, tmp, torn, creds, lock, hold, todo, step, got, issued, origin, accepted,
            broken, stops>>

NoEntry == [access |-> 0, refresh |-> 0, expires |-> 0]
NoFile == [s \in Slots |-> NoEntry]

Due(e) == e.refresh # 0 /\ e.expires - clock < RefreshBuffer

(* update_credentials_from_tokens: what has expired goes, a slot without   *)
(* an entry keeps what it had.                                             *)
update_credentials(cr, f) ==
    [s \in Slots |-> IF f[s].access = 0 THEN cr[s]
                     ELSE IF f[s].expires > clock THEN f[s].access ELSE 0]

Entry(access, refresh) == [access |-> access, refresh |-> refresh, expires |-> clock + Lifetime]

-----------------------------------------------------------------------------
(* The proxy's relay handlers: those of OAuthRelay for one user, without   *)
(* the cap.                                                                *)
proxy_provider_connect(p) ==
    provider_connect(PROXY_USER_ID, p) /\ UNCHANGED tokens

ProxyConnectInsert == Insert(PROXY_USER_ID, pending) /\ UNCHANGED tokens

proxy_relay_script(r) == relay_script(r) /\ UNCHANGED tokens

proxy_relay_callback(c, r, p, s) == relay_callback(c, r, p, s) /\ UNCHANGED tokens

(* refresh_expiring_tokens: the background task takes the lock, reads the  *)
(* file, and goes through the entries that are due.                        *)
RefreshBegins ==
    /\ lock = "free"
    /\ lock' = Task /\ hold' = file /\ step' = "refresh"
    /\ todo' = {s \in Slots : Due(file[s])}
    /\ todo' # {}
    /\ UNCHANGED <<file, tmp, torn, creds, got, issued, origin, accepted, broken, stops>>
    /\ UNCHANGED relay

(* An answer without a refresh token keeps the old one.                    *)
Renewed(e, rotates) ==
    Entry(issued + 1, IF rotates THEN issued + 1 ELSE e.refresh)

RefreshGranted(s, rotates) ==
    /\ lock = Task /\ s \in todo /\ issued < MaxIssues
    /\ hold[s].refresh \in accepted
    /\ issued' = issued + 1
    /\ origin' = [origin EXCEPT ![issued + 1] = hold[s].refresh]
    /\ accepted' = IF rotates THEN (accepted \ {hold[s].refresh}) \cup {issued + 1}
                   ELSE accepted
    /\ hold' = [hold EXCEPT ![s] = Renewed(@, rotates)]
    /\ todo' = todo \ {s}
    /\ UNCHANGED <<file, tmp, torn, creds, lock, step, got, broken, stops>>
    /\ UNCHANGED relay

(* The provider refuses, or its answer gets lost after it has rotated.     *)
RefreshFails(s, rotates) ==
    /\ lock = Task /\ s \in todo
    /\ todo' = todo \ {s}
    /\ accepted' = IF rotates THEN accepted \ {hold[s].refresh} ELSE accepted
    /\ broken' = IF rotates THEN broken \cup {s} ELSE broken
    /\ UNCHANGED <<file, tmp, torn, creds, lock, hold, step, got, issued, origin, stops>>
    /\ UNCHANGED relay

(* With nothing renewed nothing is written.                                *)
RefreshEnds ==
    /\ lock = Task /\ step = "refresh" /\ todo = {}
    /\ IF hold = file THEN lock' = "free" /\ step' = "idle" ELSE step' = "write" /\ UNCHANGED lock
    /\ UNCHANGED <<file, tmp, torn, creds, hold, todo, got, issued, origin, accepted, broken, stops>>
    /\ UNCHANGED relay

(* proxy_relay_callback goes on: the exchange of the code for a new issue  *)
(* ...                                                                     *)
ExchangeIssues(c) ==
    /\ issued < MaxIssues
    /\ exchange_code(c)
    /\ issued' = issued + 1
    /\ accepted' = accepted \cup {issued + 1}
    /\ got' = [got EXCEPT ![c] = issued + 1]
    /\ UNCHANGED <<file, tmp, torn, creds, lock, hold, todo, step, origin, broken, stops>>

(* Slip: the other entries are not read back first.                        *)
StoreAlone(c) ==
    /\ post[c].pc = "store" /\ lock = "free"
    /\ lock' = c /\ step' = "write" /\ todo' = {}
    /\ hold' = [NoFile EXCEPT ![post[c].provider] = Entry(got[c], got[c])]
    /\ broken' = broken \ {post[c].provider}
    /\ UNCHANGED <<file, tmp, torn, creds, got, issued, origin, accepted, stops>>
    /\ UNCHANGED relay

(* ... and store_oauth_tokens.                                             *)
StoreBegins(c) ==
    /\ post[c].pc = "store" /\ lock = "free"
    /\ lock' = c /\ step' = "write" /\ todo' = {}
    /\ hold' = [file EXCEPT ![post[c].provider] = Entry(got[c], got[c])]
    /\ broken' = broken \ {post[c].provider}
    /\ UNCHANGED <<file, tmp, torn, creds, got, issued, origin, accepted, stops>>
    /\ UNCHANGED relay

(* Slip: the file itself is overwritten.                                   *)
WriteInPlace ==
    /\ step = "write"
    /\ tmp' = hold /\ torn' = TRUE
    /\ step' = "rename"
    /\ UNCHANGED <<file, creds, lock, hold, todo, got, issued, origin, accepted, broken, stops>>
    /\ UNCHANGED relay

(* write_token_file_unlocked: the temporary file, then the rename.         *)
WriteTmp ==
    /\ step = "write"
    /\ tmp' = hold
    /\ step' = "rename"
    /\ UNCHANGED <<file, torn, creds, lock, hold, todo, got, issued, origin, accepted, broken, stops>>
    /\ UNCHANGED relay

Release ==
    /\ lock' = "free" /\ step' = "idle"
    /\ IF lock = Task THEN UNCHANGED post ELSE post' = [post EXCEPT ![lock] = NoPost]
    /\ UNCHANGED <<pending, relays, connecting, exchanged, clock>>

Rename ==
    /\ step = "rename"
    /\ file' = tmp
    /\ torn' = FALSE
    /\ creds' = update_credentials(creds, hold)
    /\ Release
    /\ UNCHANGED <<tmp, hold, todo, got, issued, origin, accepted, broken, stops>>

(* The disk refuses the write or the rename: memory keeps what it had.     *)
WriteFails ==
    /\ step \in {"write", "rename"}
    /\ Release
    /\ broken' = broken \cup {s \in Slots : hold[s].refresh # file[s].refresh}
    /\ UNCHANGED <<file, tmp, torn, creds, hold, todo, got, issued, origin, accepted, stops>>

(* A crash: the disk stays.  load_from_file fills the credentials when the *)
(* gateway starts again.                                                   *)
CrashRestart ==
    /\ stops < MaxStops
    /\ stops' = stops + 1
    /\ creds' = IF torn THEN [s \in Slots |-> 0]
                ELSE update_credentials([s \in Slots |-> 0], file)
    /\ broken' = broken \cup (IF lock = "free" THEN {}
                              ELSE {s \in Slots : hold[s].refresh # file[s].refresh})
    /\ lock' = "free" /\ step' = "idle"
    /\ pending' = <<>>
    /\ connecting' = [u \in Users |-> "none"]
    /\ post' = [c \in Posts |-> NoPost]
    /\ UNCHANGED <<file, tmp, torn, hold, todo, got, issued, origin, accepted>>
    /\ UNCHANGED <<relays, exchanged, clock>>

TokensNext ==
    \/ \E p \in Slots : proxy_provider_connect(p)
    \/ ProxyConnectInsert
    \/ \E r \in Relays : proxy_relay_script(r)
    \/ \E c \in Posts, r \in Relays, p \in Slots, s \in Relays : proxy_relay_callback(c, r, p, s)
    \/ \E c \in Posts : ExchangeRefused(c) /\ UNCHANGED tokens
    \/ Tick /\ UNCHANGED tokens
    \/ RefreshBegins \/ RefreshEnds \/ WriteTmp \/ Rename \/ WriteFails \/ CrashRestart
    \/ \E s \in Slots, rotates \in BOOLEAN : RefreshGranted(s, rotates) \/ RefreshFails(s, rotates)
    \/ \E c \in Posts : ExchangeIssues(c) \/ StoreBegins(c)

TokensInit ==
    /\ RelayInit
    /\ file = NoFile /\ tmp = NoFile /\ torn = FALSE
    /\ creds = [s \in Slots |-> 0]
    /\ lock = "free" /\ hold = NoFile /\ todo = {} /\ step = "idle"
    /\ got = [c \in Posts |-> 0]
    /\ issued = 0
    /\ origin = [i \in 1..MaxIssues |-> 0]
    /\ accepted = {}
    /\ broken = {}
    /\ stops = 0

TokensSpec == TokensInit /\ [][TokensNext]_<<tokens, relay>>

-----------------------------------------------------------------------------
(* A start never meets a half-written file: a crash leaves the old one or  *)
(* the new one whole ("Atomically write the token file").                  *)
FileWhole == lock = "free" => ~torn

(* Every writer rewrites all entries, yet one changes only by an exchange  *)
(* or by renewing what the file held: the background refresh and a relay's *)
(* store never undo each other.                                            *)
NoLostEntry ==
    [][\A s \in Slots : file'[s] # file[s] =>
          LET i == file'[s].access
          IN i # 0 /\ (origin[i] = 0 \/ origin[i] = file[s].refresh)]_<<tokens, relay>>

(* While nobody writes, the refresh token on the disk is one the provider  *)
(* still accepts, unless an answer, a write or a whole process got lost    *)
(* between the provider's rotation and the rename.                         *)
RefreshTokenAccepted ==
    lock = "free" => \A s \in Slots \ broken :
        file[s].access # 0 => file[s].refresh \in accepted

(* What requests are sent with is what the file holds, while nobody        *)
(* writes: a failed write leaves both as they were.                        *)
LiveIsStored ==
    lock = "free" => \A s \in Slots :
        file[s].access # 0 => creds[s] \in {0, file[s].access}

(* The proxy between two writes, crashes and failed writes included: the   *)
(* file is whole, what it holds is accepted, and what requests use is in   *)
(* it.                                                                     *)
TokensAtRest == FileWhole /\ RefreshTokenAccepted /\ LiveIsStored
=============================================================================
