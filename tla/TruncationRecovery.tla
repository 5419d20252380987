------------------------- MODULE TruncationRecovery -------------------------
(***************************************************************************)
(* What happens to an answer of Kiro that was cut short: the formatters    *)
(* note it in TRUNCATION_STATE (truncation.rs), and the next request that  *)
(* replays it gets a notice for the model, before the guardrails and the   *)
(* retries of KiroHttpClient (http_client.rs, providers/kiro.rs).          *)
(*                                                                         *)
(* Clients replay their whole history.  Texts are sequences of symbols and *)
(* a hash is the first HashLength of them; a call is named by its id.  The *)
(* client gives a tool's result as a string or as a list of parts; what it *)
(* says is always <<"r">>.  An answer is replayed as the text it was; one  *)
(* replayed in parts has no string for as_str, so that no notice follows.  *)
(* The delay between two attempts is left out.                             *)
(***************************************************************************)
EXTENDS Naturals, Sequences, SequencesExt, FiniteSets, Optional

CONSTANTS
    Chats,       \* clients, each with one conversation
    Texts,       \* texts of answers
    HashLength,  \* 500 characters
    MaxRetries,  \* http_max_retries
    MaxAnswers,  \* bound on the answers of a conversation
    MaxAsked     \* bound on the requests of all clients

ASSUME RecoveryAssumption ==
    /\ HashLength \in Nat /\ MaxRetries \in Nat
    /\ MaxAnswers \in Nat /\ MaxAsked \in Nat

VARIABLES
    chat,           \* the messages of each conversation
    tool_cache,     \* ids of cut calls
    content_cache,  \* hashes of cut texts
    ongoing,        \* the request of each client
    asked,          \* requests and calls so far: the source of call ids
    noted,          \* history: truncations noted, by key
    announced       \* history: notices given, by key

recoveryVars == <<chat, tool_cache, content_cache, ongoing, asked, noted, announced>>

NotAsking == [pc |-> "idle", messages |-> <<>>, attempt |-> 0]

Turn(role, text, id) == [role |-> role, text |-> text, id |-> id, parts |-> FALSE, notice |-> FALSE]

Result(id, parts) == [Turn("tool", <<"r">>, id) EXCEPT !.parts = parts]

(* The synthetic user message.                                             *)
Notice == [Turn("user", <<>>, 0) EXCEPT !.notice = TRUE]

content_hash(text) == SubSeq(text, 1, IF Len(text) < HashLength THEN Len(text) ELSE HashLength)

ToolKey(id) == [id |-> id, hash |-> <<>>]
ContentKey(text) == [id |-> 0, hash |-> content_hash(text)]

key_of(m) == IF m.role = "tool" THEN ToolKey(m.id) ELSE ContentKey(m.text)

-----------------------------------------------------------------------------
(* Entries are removed on read, so of two messages with one key the first  *)
(* gets the notice.                                                        *)
Hits(ms, tools, contents) ==
    {i \in 1..Len(ms) :
        /\ \/ ms[i].role = "tool" /\ key_of(ms[i]) \in tools
           \/ ms[i].role = "assistant" /\ ms[i].text # <<>> /\ key_of(ms[i]) \in contents
        /\ ~\E j \in 1..(i - 1) : ms[j].role = ms[i].role /\ key_of(ms[j]) = key_of(ms[i])}

(* What as_str().unwrap_or("") finds of a result, as a string again.       *)
Reread(m) == IF m.parts THEN [m EXCEPT !.text = <<>>, !.parts = FALSE] ELSE m

(* A tool's result gets the notice as its first words.                     *)
Prepended(ms, hits) ==
    [i \in 1..Len(ms) |->
        IF i \in hits /\ ms[i].role = "tool" THEN [Reread(ms[i]) EXCEPT !.notice = TRUE] ELSE ms[i]]

(* Slip: the insertions are made from the front, at the old positions.     *)
InsertedForwards(ms, hits) ==
    LET front[i \in 0..Len(ms)] ==
          IF i = 0 THEN ms
          ELSE IF i \in hits THEN InsertAt(front[i - 1], i + 1, Notice) ELSE front[i - 1]
    IN front[Len(ms)]

(* The insertions, from the back: back[k] has those of the last k messages.*)
Inserted(ms, hits) ==
    LET back[k \in 0..Len(ms)] ==
          LET i == Len(ms) + 1 - k IN
          IF k = 0 THEN ms
          ELSE IF i \in hits THEN InsertAt(back[k - 1], i + 1, Notice) ELSE back[k - 1]
    IN back[Len(ms)]

(* inject_openai_truncation_recovery, and inject_anthropic_... which finds *)
(* the results in the blocks of a user message.                            *)
inject_truncation_recovery(ms, hits) ==
    Inserted(Prepended(ms, hits), {i \in hits : ms[i].role = "assistant"})

(* get_tool_truncation, get_content_truncation.                            *)
get_truncation(cache, keys) == cache \ keys

Counted(f, keys) == [k \in DOMAIN f \cup keys |->
                        (IF k \in DOMAIN f THEN f[k] ELSE 0) + (IF k \in keys THEN 1 ELSE 0)]

(* What the client sends: its history and a new message, the result of the *)
(* call when the last answer was one.                                      *)
Replayed(c, parts) ==
    LET last == chat[c][Len(chat[c])] IN
    IF chat[c] = <<>> THEN <<Turn("user", <<>>, 0)>>
    ELSE IF last.role # "assistant" THEN chat[c]
    ELSE Append(chat[c], IF last.id # 0 THEN Result(last.id, parts) ELSE Turn("user", <<>>, 0))

(* chat_completions_handler up to the guardrails, the request being routed *)
(* to Kiro with truncation_recovery on.                                    *)
Ask(c, parts) ==
    /\ ongoing[c] = NotAsking /\ asked < MaxAsked /\ Len(chat[c]) < 2 * MaxAnswers
    /\ asked' = asked + 1
    /\ LET ms == Replayed(c, parts)
           hits == Hits(ms, tool_cache, content_cache)
           keys == {key_of(ms[i]) : i \in hits}
       IN /\ chat' = [chat EXCEPT ![c] = ms]
          /\ ongoing' = [ongoing EXCEPT ![c] = [NotAsking EXCEPT !.pc = "check",
                                            !.messages = inject_truncation_recovery(ms, hits)]]
          /\ tool_cache' = get_truncation(tool_cache, keys)
          /\ content_cache' = get_truncation(content_cache, keys)
          /\ announced' = Counted(announced, keys)
    /\ UNCHANGED noted

(* run_input_guardrail_check.                                              *)
CheckPassed(c) ==
    /\ ongoing[c].pc = "check"
    /\ ongoing' = [ongoing EXCEPT ![c].pc = "send"]
    /\ UNCHANGED <<chat, tool_cache, content_cache, asked, noted, announced>>

(* The check blocks, Kiro refuses for good, or the client gives up.  The   *)
(* notices of the request are gone.                                        *)
GivenUp(c) ==
    /\ ongoing[c].pc # "idle"
    /\ ongoing' = [ongoing EXCEPT ![c] = NotAsking]
    /\ UNCHANGED <<chat, tool_cache, content_cache, asked, noted, announced>>

(* request_with_retry: 429, 5xx or a network error, with a retry left ...  *)
RetryLater(c) ==
    /\ ongoing[c].pc = "send" /\ ongoing[c].attempt < MaxRetries
    /\ ongoing' = [ongoing EXCEPT ![c].attempt = @ + 1]
    /\ UNCHANGED <<chat, tool_cache, content_cache, asked, noted, announced>>

(* ... and without.                                                        *)
RetriesSpent(c) ==
    /\ ongoing[c].pc = "send" /\ ongoing[c].attempt >= MaxRetries
    /\ ongoing' = [ongoing EXCEPT ![c] = NotAsking]
    /\ UNCHANGED <<chat, tool_cache, content_cache, asked, noted, announced>>

Note(c, answer, key, cut) ==
    /\ chat' = [chat EXCEPT ![c] = Append(@, answer)]
    /\ noted' = IF cut THEN Counted(noted, {key}) ELSE noted
    /\ ongoing' = [ongoing EXCEPT ![c] = NotAsking]
    /\ UNCHANGED announced

(* save_content_truncation: the streams hash the thinking with the text,   *)
(* the collected answers the text alone.                                   *)
AnswerText(c, text, thinking, cut) ==
    /\ ongoing[c].pc = "send"
    /\ LET key == ContentKey(thinking \o text) IN
       /\ content_cache' = IF cut THEN content_cache \cup {key} ELSE content_cache
       /\ Note(c, Turn("assistant", text, 0), key, cut)
    /\ UNCHANGED <<tool_cache, asked>>

(* save_tool_truncation.                                                   *)
AnswerCall(c, cut) ==
    /\ ongoing[c].pc = "send" /\ asked < MaxAsked
    /\ asked' = asked + 1
    /\ tool_cache' = IF cut THEN tool_cache \cup {ToolKey(asked + 1)} ELSE tool_cache
    /\ Note(c, Turn("assistant", <<>>, asked + 1), ToolKey(asked + 1), cut)
    /\ UNCHANGED content_cache

(* Another provider answers: no notes and no notices.                      *)
AnswerElsewhere(c, text, parts) ==
    /\ ongoing[c] = NotAsking /\ asked < MaxAsked /\ Len(chat[c]) < 2 * MaxAnswers
    /\ asked' = asked + 1
    /\ chat' = [chat EXCEPT ![c] = Append(Replayed(c, parts), Turn("assistant", text, 0))]
    /\ UNCHANGED <<tool_cache, content_cache, ongoing, noted, announced>>

(* The store is memory of the process.                                     *)
RestartRecovery ==
    /\ tool_cache \cup content_cache # {}
    /\ tool_cache' = {} /\ content_cache' = {}
    /\ ongoing' = [c \in Chats |-> NotAsking]
    /\ UNCHANGED <<chat, asked, noted, announced>>

RecoveryNext ==
    \/ \E c \in Chats :
          \/ CheckPassed(c) \/ GivenUp(c) \/ RetryLater(c) \/ RetriesSpent(c)
          \/ \E parts \in BOOLEAN :
                \/ Ask(c, parts)
                \/ \E text \in Texts : AnswerElsewhere(c, text, parts)
          \/ \E cut \in BOOLEAN :
                \/ AnswerCall(c, cut)
                \/ \E text \in Texts, thinking \in {<<>>, <<"t">>} : AnswerText(c, text, thinking, cut)
    \/ RestartRecovery

RecoveryInit ==
    /\ chat = [c \in Chats |-> <<>>]
    /\ tool_cache = {} /\ content_cache = {}
    /\ ongoing = [c \in Chats |-> NotAsking]
    /\ asked = 0
    /\ noted = <<>> /\ announced = <<>>

RecoverySpec == RecoveryInit /\ [][RecoveryNext]_recoveryVars

-----------------------------------------------------------------------------
(* A request's messages with the notices taken out again.                  *)
WithoutNotices(ms) ==
    LET plain[i \in 0..Len(ms)] ==
          IF i = 0 THEN <<>>
          ELSE IF ms[i] = Notice THEN plain[i - 1]
               ELSE Append(plain[i - 1], [ms[i] EXCEPT !.notice = FALSE])
    IN plain[Len(ms)]

(* The client's messages as Kiro reads them, given that those with these   *)
(* keys may have got a notice: word for word, or for a result in parts that*)
(* got one, as that notice alone.                                          *)
ReadAs(told, ms, keys) ==
    /\ Len(told) = Len(ms)
    /\ \A i \in 1..Len(ms) :
          told[i] = ms[i] \/ (ms[i].role = "tool" /\ key_of(ms[i]) \in keys /\ told[i] = Reread(ms[i]))

(* Wherever the notices are put, the model still reads the conversation as *)
(* the client has it, but for the results in parts of calls noted as cut,  *)
(* and each notice belongs to something that was noted: a synthetic message*)
(* stands right after such an answer, a prefix in the result of such a call*)
(* (inject_*_truncation_recovery).                                         *)
NoticeInPlace ==
    \A c \in Chats : ongoing[c].pc # "idle" =>
        LET ms == ongoing[c].messages
        IN /\ ReadAs(WithoutNotices(ms), chat[c], DOMAIN noted)
           /\ \A i \in 1..Len(ms) : ms[i].notice =>
                IF ms[i] = Notice
                THEN i > 1 /\ ms[i - 1].role = "assistant" /\ key_of(ms[i - 1]) \in DOMAIN noted
                ELSE key_of(ms[i]) \in DOMAIN noted

(* No truncation is announced twice, over conversations that replay the    *)
(* same answers, requests at once, errors and restarts: "Entries are       *)
(* removed on read (one-time retrieval)".                                  *)
NoticeOnce == \A k \in DOMAIN announced : k \in DOMAIN noted /\ announced[k] <= noted[k]

(* Notices about answers cut short stand in their place, and each is given *)
(* once.  (The notice replaces a result in parts, it does not precede it.) *)
NoticesRight == NoticeInPlace /\ NoticeOnce
=============================================================================
