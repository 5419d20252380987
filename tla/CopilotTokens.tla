---------------------------- MODULE CopilotTokens ---------------------------
(***************************************************************************)
(* A user's Copilot connection (web_ui/copilot_auth.rs and the rows of     *)
(* user_copilot_tokens in web_ui/config_db.rs): the GitHub device flow,    *)
(* disconnect, and the background task that renews Copilot tokens from a   *)
(* snapshot of the rows that expire.                                       *)
(*                                                                         *)
(* A GitHub token is the device code it was granted for: GitHub grants one *)
(* once.  The plan, the user name and the base URL go with it.             *)
(***************************************************************************)
EXTENDS Naturals, FiniteSets, Functions

CONSTANTS
    CopilotUsers,
    Polls,           \* device polls that can be under way at once
    DeviceTtl,       \* 10 minutes
    MaxPendingCodes, \* 10_000
    CopilotBuffer,   \* the 5 minutes before the expiry
    CopilotLifetime, \* expires_at of a Copilot token
    MaxCodes,        \* bound on the device codes issued
    MaxNow           \* bound on the clock

ASSUME CopilotTokensAssumption ==
    \A n \in {DeviceTtl, MaxPendingCodes, CopilotBuffer, CopilotLifetime, MaxCodes, MaxNow} :
        n \in Nat

Codes == 1..MaxCodes

VARIABLES
    devices,     \* device_pending: the user and age of each device code
    codes,       \* device codes issued so far
    owner,       \* history: the user each code was issued to
    granted,     \* codes whose GitHub token has been handed out
    row,         \* user_copilot_tokens
    poll,        \* each device poll
    renewing,    \* the refresh task's rows still to renew, by user
    asked,       \* history: the code of the user's last connect, 0 after a disconnect
    raced,       \* history: users who connected or disconnected under the task's feet
    now

copilot == <<devices, codes, owner, granted, row, poll, renewing, asked, raced, now>>

NoRow == [code |-> 0, token |-> FALSE, expires |-> 0]
NoPoll == [pc |-> "idle", user |-> "none", code |-> 0]

Drop(f, S) == Restrict(f, DOMAIN f \ S)

(* A Copilot token fetched now, or none: the account may have no access.   *)
Fetched(code, ok) == [code |-> code, token |-> ok, expires |-> IF ok THEN now + CopilotLifetime ELSE 0]

-----------------------------------------------------------------------------
(* copilot_device_code: expired codes go, the cap refuses, GitHub issues.  *)
copilot_device_code(u) ==
    /\ codes < MaxCodes
    /\ LET kept == Drop(devices, {d \in DOMAIN devices : now - devices[d].born >= DeviceTtl})
           d == codes + 1
       IN IF Cardinality(DOMAIN kept) >= MaxPendingCodes
          THEN devices' = kept /\ UNCHANGED <<codes, owner>>
          ELSE /\ codes' = d
               /\ owner' = [owner EXCEPT ![d] = u]
               /\ devices' = [x \in DOMAIN kept \cup {d} |->
                                 IF x = d THEN [user |-> u, born |-> now] ELSE kept[x]]
    /\ UNCHANGED <<granted, row, poll, renewing, asked, raced, now>>

(* copilot_device_poll up to the request to GitHub: the code must be the   *)
(* user's own and fresh.                                                   *)
PollBegins(q, u, d) ==
    /\ poll[q].pc = "idle" /\ d \in DOMAIN devices
    /\ devices[d].user = u
    /\ IF now - devices[d].born >= DeviceTtl
       THEN devices' = Drop(devices, {d}) /\ UNCHANGED poll
       ELSE poll' = [poll EXCEPT ![q] = [pc |-> "github", user |-> u, code |-> d]] /\ UNCHANGED devices
    /\ UNCHANGED <<codes, owner, granted, row, renewing, asked, raced, now>>

(* GitHub waits, asks to slow down or fails (the code stays), or has       *)
(* expired, denied or already granted the code (it goes).                  *)
PollRefused(q, final) ==
    /\ poll[q].pc = "github"
    /\ poll[q].code \in granted => final
    /\ devices' = IF final THEN Drop(devices, {poll[q].code}) ELSE devices
    /\ poll' = [poll EXCEPT ![q] = NoPoll]
    /\ UNCHANGED <<codes, owner, granted, row, renewing, asked, raced, now>>

(* GitHub grants the token: it does so once ...                            *)
PollGranted(q) ==
    /\ poll[q].pc = "github" /\ poll[q].code \notin granted
    /\ granted' = granted \cup {poll[q].code}
    /\ poll' = [poll EXCEPT ![q].pc = "store"]
    /\ UNCHANGED <<devices, codes, owner, row, renewing, asked, raced, now>>

(* ... and when the user name cannot be fetched, or the row stored, the    *)
(* token is lost and the code stays.                                       *)
PollLost(q) ==
    /\ poll[q].pc = "store"
    /\ poll' = [poll EXCEPT ![q] = NoPoll]
    /\ UNCHANGED <<devices, codes, owner, granted, row, renewing, asked, raced, now>>

(* Slip: a conflict updates the Copilot token alone.                       *)
upsert_keeps_account(u, r) ==
    row' = [row EXCEPT ![u] = IF @ = NoRow THEN r ELSE [r EXCEPT !.code = row[u].code]]

(* upsert_copilot_tokens: the whole row is replaced.                       *)
upsert_copilot_tokens(u, r) == row' = [row EXCEPT ![u] = r]

Race(u) == raced' = IF u \in DOMAIN renewing THEN raced \cup {u} ELSE raced \ {u}

(* The end of copilot_device_poll: the row, then the code goes.            *)
PollStores(q, ok) ==
    /\ poll[q].pc = "store"
    /\ LET u == poll[q].user
           d == poll[q].code
       IN /\ upsert_copilot_tokens(u, Fetched(d, ok))
          /\ devices' = Drop(devices, {d})
          /\ asked' = [asked EXCEPT ![u] = d]
          /\ Race(u)
    /\ poll' = [poll EXCEPT ![q] = NoPoll]
    /\ UNCHANGED <<codes, owner, granted, renewing, now>>

copilot_disconnect(u) ==
    /\ row[u] # NoRow
    /\ row' = [row EXCEPT ![u] = NoRow]
    /\ asked' = [asked EXCEPT ![u] = 0]
    /\ Race(u)
    /\ UNCHANGED <<devices, codes, owner, granted, poll, renewing, now>>

-----------------------------------------------------------------------------
(* get_expiring_copilot_tokens: a row without a token is never renewed.    *)
Expiring == {u \in CopilotUsers : row[u].token /\ row[u].expires < now + CopilotBuffer}

RefreshCycle ==
    /\ DOMAIN renewing = {} /\ Expiring # {}
    /\ renewing' = Restrict(row, Expiring)
    /\ UNCHANGED <<devices, codes, owner, granted, row, poll, asked, raced, now>>

(* One row of the cycle: renewed, or marked as disconnected.  Either way   *)
(* the row of the snapshot is written whole.                               *)
RefreshRow(u, ok) ==
    /\ u \in DOMAIN renewing
    /\ upsert_copilot_tokens(u, Fetched(renewing[u].code, ok))
    /\ renewing' = Drop(renewing, {u})
    /\ UNCHANGED <<devices, codes, owner, granted, poll, asked, raced, now>>

RefreshUnstored(u) ==
    /\ u \in DOMAIN renewing
    /\ renewing' = Drop(renewing, {u})
    /\ UNCHANGED <<devices, codes, owner, granted, row, poll, asked, raced, now>>

CopilotTick ==
    /\ now < MaxNow
    /\ now' = now + 1
    /\ UNCHANGED <<devices, codes, owner, granted, row, poll, renewing, asked, raced>>

CopilotNext ==
    \/ \E u \in CopilotUsers : copilot_device_code(u) \/ copilot_disconnect(u) \/ RefreshUnstored(u)
    \/ \E q \in Polls, u \in CopilotUsers, d \in Codes : PollBegins(q, u, d)
    \/ \E q \in Polls : PollGranted(q) \/ PollLost(q)
    \/ \E q \in Polls, b \in BOOLEAN : PollRefused(q, b) \/ PollStores(q, b)
    \/ RefreshCycle
    \/ \E u \in CopilotUsers, ok \in BOOLEAN : RefreshRow(u, ok)
    \/ CopilotTick

CopilotInit ==
    /\ devices = <<>> /\ codes = 0
    /\ owner = [d \in Codes |-> "none"]
    /\ granted = {}
    /\ row = [u \in CopilotUsers |-> NoRow]
    /\ poll = [q \in Polls |-> NoPoll]
    /\ renewing = <<>>
    /\ asked = [u \in CopilotUsers |-> 0]
    /\ raced = {}
    /\ now = 0

CopilotSpec == CopilotInit /\ [][CopilotNext]_copilot

-----------------------------------------------------------------------------
(* A user is connected with the GitHub account that approved a code the    *)
(* user started, through every refresh: nobody polls another's code.       *)
StoredForOwner == \A u \in CopilotUsers : row[u] # NoRow => owner[row[u].code] = u

(* The account connected is the one of the user's last connect, and none   *)
(* after a disconnect.  The one exception is a row the refresh task had in *)
(* its snapshot at that moment: the task writes it back.                   *)
AccountFollowsUser ==
    \A u \in CopilotUsers \ raced : row[u].code = asked[u]

(* The Copilot account of a user is the one the user connected.            *)
ConnectionFollowsUser == StoredForOwner /\ AccountFollowsUser
=============================================================================
