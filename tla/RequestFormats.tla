--------------------------- MODULE RequestFormats ---------------------------
(***************************************************************************)
(* Requests of one API sent to a provider that speaks another: Anthropic   *)
(* messages to chat completions, chat completions to Anthropic messages,   *)
(* and the items of the Responses API to chat completions and from there   *)
(* to either.  A conversation is a sequence of turns; it is written down   *)
(* in the client's API, converted, and read back in the provider's; its    *)
(* whole answer goes the other way, and the client sends that back with    *)
(* the results of its calls, as agents do.                                 *)
(* Turn i says the token i; names, arguments, images, tool definitions and *)
(* sampling parameters are left out.                                       *)
(***************************************************************************)
EXTENDS Naturals, Sequences, SequencesExt, ResponsesStream

CONSTANTS
    CallRuns,      \* the sequences of call ids a turn may make
    MaxTurns       \* bound: turns of a conversation, or one less than turns
                   \* and blocks of the answer

VARIABLES
    path,          \* the API of the client and that of the provider
    turns,         \* the conversation
    sent,          \* the request to the provider, None before the conversion
    spoken         \* the provider's answer as blocks, None before it

requestVars == <<path, turns, sent, spoken>>

Api == path[1]
Upstream == path[2]

(***************************************************************************)
(* A turn of tools is an assistant message that calls every id of run,     *)
(* perhaps with words of its own, and the results, perhaps in reverse      *)
(* order.  array: the content is a list of parts, not a string.            *)
(***************************************************************************)
Turns ==
    [kind : {"user", "assistant"}, array : BOOLEAN]
        \cup [kind : {"system"}]
        \cup [kind : {"tools"}, run : CallRuns, words : BOOLEAN, reversed : BOOLEAN, think : BOOLEAN]

Conversations == UNION {[1..n -> Turns] : n \in 1..MaxTurns}

Over(seq, op(_, _)) == FlattenSeq([i \in 1..Len(seq) |-> op(seq[i], i)])

Outcomes(t) == IF t.reversed THEN Reverse(t.run) ELSE t.run
Words(t, i) == IF t.words THEN <<i>> ELSE <<>>

-----------------------------------------------------------------------------
(* Messages of the three APIs.  Text is a sequence of tokens.              *)
Chat(role, text, array, calls, answers) ==
    [role |-> role, text |-> text, array |-> array, calls |-> calls, answers |-> answers]
Anthropic(role, array, blocks) == [role |-> role, array |-> array, blocks |-> blocks]
Item(type, role, text, array, id) ==
    [type |-> type, role |-> role, text |-> text, array |-> array, id |-> id]

Blocks(kind, seq) == [k \in 1..Len(seq) |-> <<kind, seq[k]>>]

InChat ==
    Over(turns, LAMBDA t, i :
        CASE t.kind = "system" -> <<Chat("system", <<i>>, FALSE, None, None)>>
          [] t.kind \in {"user", "assistant"} -> <<Chat(t.kind, <<i>>, t.array, None, None)>>
          [] t.kind = "tools" ->
                <<Chat("assistant", Words(t, i), FALSE, t.run, None)>>
                    \o [k \in 1..Len(t.run) |-> Chat("tool", <<>>, FALSE, None, Outcomes(t)[k])])

(* The system prompt is a field of the request.                            *)
InAnthropic ==
    Over(turns, LAMBDA t, i :
        CASE t.kind = "system" -> <<>>
          [] t.kind \in {"user", "assistant"} -> <<Anthropic(t.kind, t.array, Blocks("text", <<i>>))>>
          [] t.kind = "tools" ->
                <<Anthropic("assistant", TRUE, Blocks("text", Words(t, i)) \o Blocks("call", t.run)),
                  Anthropic("user", TRUE, Blocks("result", Outcomes(t)))>>)

InResponses ==
    Over(turns, LAMBDA t, i :
        CASE t.kind = "system" -> <<Item("message", "developer", <<i>>, FALSE, None)>>
          [] t.kind \in {"user", "assistant"} -> <<Item("message", t.kind, <<i>>, t.array, None)>>
          [] t.kind = "tools" ->
                (IF t.words THEN <<Item("message", "assistant", <<i>>, FALSE, None)>> ELSE <<>>)
                \o Over(t.run, LAMBDA id, k :
                        (IF t.think THEN <<Item("reasoning", None, <<>>, FALSE, None)>> ELSE <<>>)
                            \o <<Item("function_call", None, <<>>, FALSE, id)>>)
                \o [k \in 1..Len(t.run) |->
                        Item("function_call_output", None, <<>>, FALSE, Outcomes(t)[k])])

-----------------------------------------------------------------------------
Ids(blocks, kind) ==
    LET of == SelectSeq(blocks, LAMBDA b : b[1] = kind) IN [k \in 1..Len(of) |-> of[k][2]]

(* Results leave as tool messages, before the text and the calls of their  *)
(* message.  A message of blocks without text and calls is not sent.       *)
FromBlocks(m) ==
    LET texts == Ids(m.blocks, "text")
        calls == Ids(m.blocks, "call")
        results == Ids(m.blocks, "result")
    IN [k \in 1..Len(results) |-> Chat("tool", <<>>, FALSE, None, results[k])]
       \o (IF texts = <<>> /\ calls = <<>> THEN <<>>
           ELSE <<Chat(m.role, texts, FALSE, IF calls = <<>> THEN None ELSE calls, None)>>)

anthropic_to_openai(messages) ==
    Over(messages, LAMBDA m, i :
        IF m.array THEN FromBlocks(m)
        ELSE <<Chat(m.role, Ids(m.blocks, "text"), FALSE, None, None)>>)

(* Assistant text is read only from a string.  A tool message joins a user *)
(* message of blocks right before it.                                      *)
ToAnthropic(messages, m) ==
    CASE m.role = "system" -> messages
      [] m.role = "assistant" ->
            LET blocks == (IF m.array THEN <<>> ELSE Blocks("text", m.text))
                              \o (IF m.calls = None THEN <<>> ELSE Blocks("call", m.calls))
                plain == Len(blocks) = 1 /\ m.calls = None
            IN Append(messages, Anthropic("assistant", blocks # <<>> /\ ~plain, blocks))
      [] m.role = "tool" ->
            LET block == Blocks("result", <<m.answers>>)
                joins == messages # <<>> /\ Last(messages).role = "user" /\ Last(messages).array
            IN IF joins
               THEN [messages EXCEPT ![Len(messages)].blocks = @ \o block]
               ELSE Append(messages, Anthropic("user", TRUE, block))
      [] OTHER -> Append(messages, Anthropic(m.role, m.array, Blocks("text", m.text)))

openai_to_anthropic(messages) == FoldLeft(ToAnthropic, <<>>, messages)

FromItemApart(messages, item) ==
    CASE item.type = "function_call" ->
            Append(messages, Chat("assistant", <<>>, FALSE, <<item.id>>, None))
      [] item.type = "function_call_output" ->
            Append(messages, Chat("tool", <<>>, FALSE, None, item.id))
      [] item.type = "reasoning" -> messages
      [] item.type = "message" ->
            Append(messages, Chat(IF item.role = "developer" THEN "system" ELSE item.role,
                                  item.text, item.array, None, None))

(* Calls join an assistant message with calls right before them, across    *)
(* skipped items; developer becomes system.                                *)
FromItem(messages, item) ==
    CASE item.type = "function_call" ->
            IF messages # <<>> /\ Last(messages).role = "assistant" /\ Last(messages).calls # None
            THEN [messages EXCEPT ![Len(messages)].calls = Append(@, item.id)]
            ELSE Append(messages, Chat("assistant", <<>>, FALSE, <<item.id>>, None))
      [] item.type = "function_call_output" ->
            Append(messages, Chat("tool", <<>>, FALSE, None, item.id))
      [] item.type = "reasoning" -> messages
      [] item.type = "message" ->
            Append(messages, Chat(IF item.role = "developer" THEN "system" ELSE item.role,
                                  item.text, item.array, None, None))

responses_to_chat_completion(items) == FoldLeft(FromItem, <<>>, items)

-----------------------------------------------------------------------------
(* Whole answers.                                                          *)

(* Blocks of text, thinking and calls, in any order.                       *)
AnswerBlocks(n) ==
    {[i \in 1..n |-> <<kinds[i], IF kinds[i] = "call" THEN <<"a1", "a2", "a3">>[i] ELSE Len(turns) + i>>] :
        kinds \in [1..n -> {"text", "thinking", "call"}]}

Body(reasoning, content, calls) ==
    [reasoning |-> reasoning, content |-> content, images |-> <<>>, calls |-> calls]

(* An answer of an OpenAI provider, and the one made of an answer of       *)
(* Anthropic: all text joined, the calls, and no thinking.                 *)
OpenAIBody(blocks) == Body(Ids(blocks, "thinking"), Ids(blocks, "text"), Ids(blocks, "call"))
normalize_response_for_openai(blocks) == Body(<<>>, Ids(blocks, "text"), Ids(blocks, "call"))

(* An answer of neither becomes one empty text, which says nothing.        *)
openai_response_to_anthropic(body) ==
    Blocks("text", body.content) \o Blocks("call", body.calls)

(* The output items of a whole answer as items of the next request.        *)
OutputItem(o) ==
    CASE o[1] = "message" -> Item("message", "assistant", o[2], TRUE, None)
      [] o[1] = "function_call" -> Item("function_call", None, <<>>, FALSE, o[2])
      [] OTHER -> Item(o[1], None, o[2], FALSE, None)

(* The client repeats the answer it was given and adds the results.        *)
Replay(blocks) ==
    LET body == IF Upstream = "openai" THEN OpenAIBody(blocks) ELSE normalize_response_for_openai(blocks)
        calls == Ids(blocks, "call")
    IN CASE Api = "openai" ->
              <<Chat("assistant", body.content, FALSE, IF calls = <<>> THEN None ELSE calls, None)>>
                  \o [k \in 1..Len(calls) |-> Chat("tool", <<>>, FALSE, None, calls[k])]
         [] Api = "anthropic" ->
              <<Anthropic("assistant", TRUE, openai_response_to_anthropic(body))>>
                  \o (IF calls = <<>> THEN <<>> ELSE <<Anthropic("user", TRUE, Blocks("result", calls))>>)
         [] Api = "responses" ->
              LET output == chat_completion_to_responses_api(body) IN
              [k \in 1..Len(output) |-> OutputItem(output[k])]
                  \o [k \in 1..Len(calls) |-> Item("function_call_output", None, <<>>, FALSE, calls[k])]

-----------------------------------------------------------------------------
Paths ==
    {<<"anthropic", "openai">>, <<"openai", "anthropic">>,
     <<"responses", "openai">>, <<"responses", "anthropic">>}

RequestInit ==
    /\ path \in Paths
    /\ turns \in Conversations
    /\ sent = None /\ spoken = None

ChatOf(more) ==
    IF Api = "responses" THEN responses_to_chat_completion(InResponses \o more) ELSE InChat \o more

(* What the provider is sent, the conversation having gone on so far.      *)
Forwarded(more) ==
    CASE Api = "anthropic" -> anthropic_to_openai(InAnthropic \o more)
      [] Api # "anthropic" /\ Upstream = "openai" -> ChatOf(more)
      [] Api # "anthropic" /\ Upstream = "anthropic" -> openai_to_anthropic(ChatOf(more))

Converted ==
    /\ sent = None
    /\ sent' = Forwarded(<<>>)
    /\ UNCHANGED <<path, turns, spoken>>

Answered ==
    /\ sent # None /\ spoken = None
    /\ \E n \in 1..(MaxTurns + 1 - Len(turns)) : spoken' \in AnswerBlocks(n)
    /\ sent' = Forwarded(Replay(spoken'))
    /\ UNCHANGED <<path, turns>>

RequestNext == Converted \/ Answered

-----------------------------------------------------------------------------
(* What was said and called, turn by turn; the system prompt aside.        *)
Meaning ==
    Over(turns, LAMBDA t, i :
        CASE t.kind = "system" -> <<>>
          [] t.kind \in {"user", "assistant"} -> Blocks(t.kind, <<i>>)
          [] t.kind = "tools" ->
                Blocks("assistant", Words(t, i)) \o Blocks("call", t.run)
                    \o Blocks("result", Outcomes(t)))
    \o IF spoken = None THEN <<>>
       ELSE Blocks("assistant", Ids(spoken, "text")) \o Blocks("call", Ids(spoken, "call"))
                \o Blocks("result", Ids(spoken, "call"))

Understood ==
    IF Upstream = "openai"
    THEN Over(sent, LAMBDA m, i :
             CASE m.role = "system" -> <<>>
               [] m.role \in {"user", "assistant"} ->
                    Blocks(m.role, m.text) \o (IF m.calls = None THEN <<>> ELSE Blocks("call", m.calls))
               [] m.role = "tool" -> Blocks("result", <<m.answers>>))
    ELSE Over(sent, LAMBDA m, i :
             [k \in 1..Len(m.blocks) |->
                 IF m.blocks[k][1] = "text" THEN <<m.role, m.blocks[k][2]>> ELSE m.blocks[k]])

(* Responses answers are in parts, so the client replays them so.          *)
AssistantParts ==
    \/ \E i \in 1..Len(turns) : turns[i].kind = "assistant" /\ turns[i].array
    \/ Api = "responses" /\ spoken # None /\ Ids(spoken, "text") # <<>>

(* The provider reads the conversation the client wrote: the same texts,   *)
(* calls and results, by the same speakers, in the same order; and the     *)
(* answer it gave itself, text before calls, when the client sends it back *)
(* with the results.  Excepted is assistant text in parts on its way to    *)
(* Anthropic.                                                              *)
ConversationKept ==
    sent # None /\ ~(Upstream = "anthropic" /\ AssistantParts) => Understood = Meaning

(* "user and assistant messages are passed through with their content"     *)
(* (openai_to_anthropic): no assistant message of the history becomes      *)
(* empty.  It does when its content is a list of parts, the usual form of  *)
(* the Responses API.                                                      *)
AssistantTextKept ==
    sent # None => \A i \in 1..Len(turns) :
        turns[i].kind = "assistant" => \E k \in 1..Len(Understood) : Understood[k] = <<"assistant", i>>

(* Providers want all calls of a step in one assistant message, directly   *)
(* followed by the results of exactly these calls; parallel calls that     *)
(* arrive as items of their own, with reasoning between them, included.    *)
CallsAnsweredAtOnce ==
    sent # None =>
        \A i \in 1..Len(sent) :
            LET n == Len(sent)
                called == IF Upstream = "openai"
                          THEN IF sent[i].calls = None THEN {} ELSE Range(sent[i].calls)
                          ELSE Range(Ids(sent[i].blocks, "call"))
                answered == IF Upstream = "openai"
                            THEN {sent[j].answers : j \in {k \in (i + 1)..n :
                                    \A l \in (i + 1)..k : sent[l].role = "tool"}}
                            ELSE IF i < n THEN Range(Ids(sent[i + 1].blocks, "result")) ELSE {}
            IN called # {} => called = answered

(* The request is the conversation the client wrote, in a form the         *)
(* provider accepts.                                                       *)
RequestUnderstood == ConversationKept /\ CallsAnsweredAtOnce
=============================================================================
