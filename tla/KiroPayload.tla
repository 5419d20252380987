----------------------------- MODULE KiroPayload ----------------------------
(***************************************************************************)
(* The request that goes to Kiro: messages of an OpenAI or an Anthropic    *)
(* client are brought into one unified form, tool content that Kiro would  *)
(* refuse is stripped or turned into text, adjacent messages of one role   *)
(* are merged, and the result is cut into a history and a current message. *)
(*                                                                         *)
(* Text is a sequence of tokens: <<"text", i>> is what message i says,     *)
(* <<"call", id>> what the text form of a tool call says, <<"result", r>>  *)
(* what a tool result says, with its label or without, <<"system", 0>> the *)
(* system prompt with the additions of the configuration.  The fixed words *)
(* the gateway writes itself ("(empty)", "Continue") are the empty         *)
(* sequence.  A tool result is the id of its call and whether it says what *)
(* the tool said, or "(empty result)".  Images, tool schemas and the       *)
(* sampling parameters are left out.                                       *)
(***************************************************************************)
EXTENDS Naturals, FiniteSets, Sequences, SequencesExt, Optional

CONSTANTS
    CallIds,       \* the tool call ids of a conversation
    MaxMessages    \* bound: messages of a request

ASSUME PayloadAssumption ==
    /\ None \notin CallIds \cup Seq(CallIds) \cup Seq(CallIds \X BOOLEAN)
    /\ MaxMessages \in Nat

VARIABLES
    request,       \* what the client sent
    payload        \* what goes to Kiro, None before the conversion

payloadVars == <<request, payload>>

(***************************************************************************)
(* Requests, with no list of tools, an empty one or one of some.  Of an    *)
(* OpenAI client: tool results are messages of role tool, their text a     *)
(* string or, text FALSE, a list of parts; and a role the gateway does not *)
(* know (developer) may occur.  Of an Anthropic client: calls and results  *)
(* are content blocks, a result before the text of its message.            *)
(***************************************************************************)
Message(roles) == [role : roles, text : BOOLEAN, tool : CallIds \cup {None}]

OpenAIMessages ==
    {m \in Message({"user", "assistant", "tool", "developer"}) :
        /\ m.role = "tool" => m.tool # None
        /\ m.role \in {"user", "developer"} => m.tool = None /\ m.text
        /\ m.role = "assistant" => m.text \/ m.tool # None}

AnthropicMessages ==
    {m \in Message({"user", "assistant"}) : m.text \/ m.tool # None}

MessageLists(messages) == UNION {[1..n -> messages] : n \in 1..MaxMessages}

Requests(n) ==
    [api : {n}, tools : {"none", "empty", "some"}, system : BOOLEAN,
     messages : MessageLists(IF n = "openai" THEN OpenAIMessages ELSE AnthropicMessages)]

OpenAIRequests == Requests("openai")
AnthropicRequests == Requests("anthropic")

-----------------------------------------------------------------------------
(***************************************************************************)
(* Unified messages: the text, the tool_calls and tool_results fields (the *)
(* latter None or a sequence), and the tool blocks left in the content.    *)
(***************************************************************************)
Unified(role, text, calls, results, blocks) ==
    [role |-> role, text |-> text, calls |-> calls, results |-> results, blocks |-> blocks]

Spoken(m, i) == IF m.text THEN <<<<"text", i>>>> ELSE <<>>
Tool(m) == IF m.tool = None THEN <<>> ELSE <<m.tool>>

(* A run of tool messages becomes one user message with their results; the *)
(* tool's text is its result, if it is a string.                           *)
Flushed(done, pending) ==
    IF pending = <<>> THEN done ELSE Append(done, Unified("user", <<>>, <<>>, pending, <<>>))

Unify(acc, m, i) ==
    IF m.role = "tool" THEN [done |-> acc.done, pending |-> Append(acc.pending, <<m.tool, m.text>>)]
    ELSE [done |-> Append(Flushed(acc.done, acc.pending),
                          Unified(m.role, Spoken(m, i),
                                  IF m.role = "assistant" THEN Tool(m) ELSE <<>>, None, <<>>)),
          pending |-> <<>>]

convert_openai_messages_to_unified(messages) ==
    LET upto[i \in 0..Len(messages)] ==
          IF i = 0 THEN [done |-> <<>>, pending |-> <<>>]
          ELSE Unify(upto[i - 1], messages[i], i)
        all == upto[Len(messages)]
    IN Flushed(all.done, all.pending)

(* The results in content blocks; extract_text_content takes their text    *)
(* for the message's too.                                                  *)
ResultsOf(ids) == [i \in 1..Len(ids) |-> <<ids[i], TRUE>>]
tool_results_to_text(results) == [i \in 1..Len(results) |-> <<"result", results[i]>>]
extract_text_content(m, i) ==
    IF m.role = "user" THEN tool_results_to_text(ResultsOf(Tool(m))) \o Spoken(m, i) ELSE Spoken(m, i)

(* Tool blocks stay in the content and are copied to the fields as well.   *)
convert_anthropic_messages(messages) ==
    [i \in 1..Len(messages) |->
        LET m == messages[i] IN
        IF m.role = "assistant"
        THEN Unified("assistant", extract_text_content(m, i), Tool(m), None, Tool(m))
        ELSE Unified("user", extract_text_content(m, i), <<>>,
                     IF m.tool = None THEN None ELSE ResultsOf(Tool(m)), Tool(m))]

-----------------------------------------------------------------------------
Results(u) == IF u.results = None THEN <<>> ELSE u.results

tool_calls_to_text(calls) == [i \in 1..Len(calls) |-> <<"call", calls[i]>>]

strip_all_tool_content_keeps_blocks(us) ==
    [i \in 1..Len(us) |->
        IF us[i].calls = <<>> /\ Results(us[i]) = <<>> THEN us[i]
        ELSE [us[i] EXCEPT !.text = @ \o tool_calls_to_text(us[i].calls)
                                      \o tool_results_to_text(Results(us[i])),
                           !.calls = <<>>, !.results = None]]

(* With no list of tools in the request tool content becomes text, content *)
(* blocks included; the text that is there may hold the results already.   *)
strip_all_tool_content(us) ==
    [i \in 1..Len(us) |->
        IF us[i].calls = <<>> /\ Results(us[i]) = <<>> THEN us[i]
        ELSE Unified(us[i].role,
                     us[i].text \o tool_calls_to_text(us[i].calls)
                                \o tool_results_to_text(Results(us[i])),
                     <<>>, None, <<>>)]

(* Results that do not directly follow an assistant message with calls are *)
(* taken out of the field.                                                 *)
ensure_assistant_before_tool_results(us) ==
    [i \in 1..Len(us) |->
        IF /\ Results(us[i]) # <<>>
           /\ ~(i > 1 /\ us[i - 1].role = "assistant" /\ us[i - 1].calls # <<>>)
        THEN [us[i] EXCEPT !.results = None]
        ELSE us[i]]

(* The later message's text is joined, its calls (assistant) or results    *)
(* (user) appended; the merged content is plain text, without blocks.      *)
Merged(u, v) ==
    Unified(u.role, u.text \o v.text,
            IF v.role = "assistant" THEN u.calls \o v.calls ELSE u.calls,
            IF v.role = "user" /\ v.results # None THEN Results(u) \o v.results ELSE u.results,
            <<>>)

Taken(acc, u) ==
    IF acc # <<>> /\ Last(acc).role = u.role THEN Append(Front(acc), Merged(Last(acc), u))
    ELSE Append(acc, u)

merge_adjacent_messages(us) ==
    LET upto[i \in 0..Len(us)] == IF i = 0 THEN <<>> ELSE Taken(upto[i - 1], us[i])
    IN upto[Len(us)]

-----------------------------------------------------------------------------
(* What Kiro is given: entries of a user or of the assistant.              *)
Entry(who, text, uses, results) ==
    [who |-> who, text |-> text, uses |-> uses, results |-> results]

synthetic_user_input == Entry("user", <<>>, <<>>, <<>>)

(* The field decides; without it the results still in the content blocks   *)
(* are taken.                                                              *)
ToolResults(u) ==
    IF u.results # None THEN u.results
    ELSE IF u.role = "user" THEN ResultsOf(u.blocks) ELSE <<>>

build_kiro_user_input(u) == Entry("user", u.text, <<>>, ToolResults(u))

(* Calls of the field and of the blocks, once per id (two calls of one id  *)
(* carry the same input here, so which of them is kept does not matter).   *)
extract_tool_uses_from_message(u) == SetToSeq(Range(u.calls \o u.blocks))

build_kiro_assistant_response(u) ==
    Entry("assistant", u.text, extract_tool_uses_from_message(u), <<>>)

Entered(acc, u) ==
    CASE u.role = "user" -> Append(acc, build_kiro_user_input(u))
      [] u.role = "assistant" ->
            Append(IF acc # <<>> /\ Last(acc).who = "user" THEN acc
                   ELSE Append(acc, synthetic_user_input),
                   build_kiro_assistant_response(u))
      [] OTHER -> acc

build_kiro_history(us) ==
    LET upto[i \in 0..Len(us)] == IF i = 0 THEN <<>> ELSE Entered(upto[i - 1], us[i])
    IN upto[Len(us)]

-----------------------------------------------------------------------------
SystemPrompt(system) == IF system THEN <<<<"system", 0>>>> ELSE <<>>

ToolsHandled(us, tools) ==
    IF tools THEN ensure_assistant_before_tool_results(us) ELSE strip_all_tool_content(us)

InjectSystemTwice(us, system) ==
    [i \in 1..Len(us) |->
        IF us[i].role = "user" /\ system
        THEN [us[i] EXCEPT !.text = SystemPrompt(system) \o @] ELSE us[i]]

(* The prompt goes before the first user message of the history, which     *)
(* loses its content blocks; without one it goes to the current message.   *)
InjectSystem(us, system) ==
    LET users == {i \in 1..(Len(us) - 1) : us[i].role = "user"}
        at == IF users = {} THEN Len(us) ELSE CHOOSE i \in users : \A j \in users : i <= j
        text == SystemPrompt(system) \o us[at].text
    IN IF ~system THEN us
       ELSE IF at = Len(us) THEN [us EXCEPT ![at].text = text]
       ELSE [us EXCEPT ![at].text = text, ![at].blocks = <<>>]

(* All but the last message is history.  A closing assistant message joins *)
(* it behind a synthetic user entry, without its calls, and the current    *)
(* message becomes "Continue".  Tools go along if the list has any.        *)
build_kiro_payload_core(us, tools, system) ==
    LET all == InjectSystem(merge_adjacent_messages(ToolsHandled(us, tools # "none")), system)
        history == build_kiro_history(Front(all))
        last == Last(all)
    IN IF last.role = "assistant"
       THEN [history |-> history \o <<synthetic_user_input, Entry("assistant", last.text, <<>>, <<>>)>>,
             current |-> Entry("user", <<>>, <<>>, ToolResults(last)), tools |-> tools = "some"]
       ELSE [history |-> history, current |-> Entry("user", last.text, <<>>, ToolResults(last)),
             tools |-> tools = "some"]

PayloadInit ==
    /\ request \in OpenAIRequests \cup AnthropicRequests
    /\ payload = None

build_kiro_payload ==
    /\ payload = None
    /\ payload' = build_kiro_payload_core(
                      IF request.api = "openai"
                      THEN convert_openai_messages_to_unified(request.messages)
                      ELSE convert_anthropic_messages(request.messages),
                      request.tools, request.system)
    /\ UNCHANGED request

PayloadNext == build_kiro_payload

PayloadSpec == PayloadInit /\ [][PayloadNext]_payloadVars

-----------------------------------------------------------------------------
Entries == Append(payload.history, payload.current)

Roles == {request.messages[i].role : i \in 1..Len(request.messages)}

(* What the model must be told, in order: every message's text, the text   *)
(* of results in content blocks among it, and, when the request lists no   *)
(* tools, its calls and results in words.  Messages of an unknown role     *)
(* count only when the request ends with them.                             *)
Telling(m, i, listed) ==
    IF m.role = "tool" THEN IF listed THEN <<>> ELSE <<<<"result", <<m.tool, m.text>>>>>>
    ELSE extract_text_content(m, i) \o
         (IF listed \/ m.tool = None THEN <<>>
          ELSE IF m.role = "assistant" THEN <<<<"call", m.tool>>>> ELSE <<<<"result", <<m.tool, TRUE>>>>>>)

Told(ms, tools) ==
    FlattenSeq([i \in 1..Len(ms) |->
                  IF ms[i].role = "developer" THEN <<>> ELSE Telling(ms[i], i, tools)])
    \o FlattenSeq([i \in 1..Len(ms) |->
                     IF \A j \in i..Len(ms) : ms[j].role = "developer"
                     THEN Telling(ms[i], i, tools) ELSE <<>>])

(* Whatever the mix of roles, stripping, merging and cutting, Kiro gets    *)
(* every text of the conversation in order, once, except the results of an *)
(* Anthropic client that lists no tools, which stand before and after the  *)
(* text of their message; and among it the system prompt exactly once.     *)
TextKept ==
    payload # None =>
        LET texts == FlattenSeq([i \in 1..Len(Entries) |-> Entries[i].text])
            told == Told(request.messages, request.tools # "none")
        IN \E n \in 0..Len(told) :
             texts = SubSeq(told, 1, n) \o SystemPrompt(request.system) \o SubSeq(told, n + 1, Len(told))

(* Kiro refuses tool results without tools, and results that do not follow *)
(* an assistant entry with tool uses.  The first holds for every client    *)
(* whose list of tools is absent or not empty; the second for OpenAI       *)
(* clients only, since the results stripped from the field of an Anthropic *)
(* message are read again from its content blocks.                         *)
ToolContentAccepted ==
    payload # None =>
        /\ ~payload.tools /\ request.tools # "empty" =>
               \A i \in 1..Len(Entries) : Entries[i].results = <<>> /\ Entries[i].uses = <<>>
        /\ request.api = "openai" =>
               \A i \in 1..Len(Entries) :
                   Entries[i].results # <<>> =>
                       i > 1 /\ Entries[i - 1].who = "assistant" /\ Entries[i - 1].uses # <<>>

(* A call is listed once in its entry although an Anthropic message names  *)
(* it twice, and no call before the last message is lost.                  *)
CallsListedOnce ==
    payload # None /\ request.tools # "none" =>
        /\ \A i \in 1..Len(Entries) : IsInjective(Entries[i].uses)
        /\ \A i \in 1..Len(request.messages) :
               LET m == request.messages[i] IN
               /\ m.role = "assistant" /\ m.tool # None
               /\ \E j \in (i + 1)..Len(request.messages) : request.messages[j].role # "assistant"
               => \E k \in 1..Len(Entries) : m.tool \in Range(Entries[k].uses)

(* User and assistant entries alternate and the history starts with a      *)
(* user, as Kiro expects; not so when the request ends with an assistant   *)
(* message, or has a message of an unknown role between two users.         *)
HistoryAlternates ==
    payload # None /\ "developer" \notin Roles /\ Last(request.messages).role # "assistant" =>
        \A i \in 1..Len(Entries) : Entries[i].who = IF i % 2 = 1 THEN "user" ELSE "assistant"

(* Kiro is told the whole conversation, in order: every text as often as   *)
(* the converters say it, and every call once.                             *)
ConversationTold == TextKept /\ CallsListedOnce

(* The history is one that Kiro accepts: roles alternate, and tool content *)
(* stands where it may.                                                    *)
HistoryAccepted == HistoryAlternates /\ ToolContentAccepted
=============================================================================
