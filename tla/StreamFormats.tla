--------------------------- MODULE StreamFormats ---------------------------
(***************************************************************************)
(* One streamed answer, from the provider's stream to the client's, along  *)
(* each route the gateway has: the provider speaks OpenAI chunks,          *)
(* Anthropic events or the Kiro event stream; the client reads the         *)
(* Responses API (transform_responses_sse_stream, routes/responses.rs) or  *)
(* the Messages API.  The streams are pulled: the provider is polled again *)
(* when the events of its last item have been yielded.                     *)
(*                                                                         *)
(* client is what a client makes of the events, whatever they say.         *)
(* StreamProtocol is what it may expect of them.                           *)
(***************************************************************************)
EXTENDS KiroStream

CONSTANTS
    Routes,       \* routes under study
    MaxItems      \* bound on the items a provider sends

(* What the texts under study are made of. *)
Atoms == {"r", "t", "i", "a", "e", "z", "{}", "o1", "o2", "c1", "c2", "x", "y", "_",
          "message", "reasoning", "function_call"}

ASSUME StreamAssumption ==
    /\ Routes \subseteq {<<"openai", "responses">>, <<"openai", "anthropic">>, <<"anthropic", "responses">>,
                         <<"kiro", "responses">>, <<"kiro", "anthropic">>}
    /\ MaxItems \in Nat
    /\ None \notin {"stop", "tool_calls", "message", "reasoning", "function_call"}
                   \cup Seq(Atoms) \cup [index : Nat, id : BOOLEAN, args : Seq(Atoms)]

VARIABLES
    route,      \* <<provider format, client format>>
    src,        \* the provider: items sent, what they said; begun when the
                \* role, a text or a call came by itself, late when a reasoning
                \* came after that
    kiro,       \* parse_kiro_stream_with_thinking
    fmt,        \* the first translator: AnthropicToOpenAIState or a Kiro formatter
    tr,         \* ResponsesStreamTransformer or OpenAIToAnthropicState
    out,        \* events still to be yielded
    client,     \* what the client has made of the events
    answer,     \* the same Kiro stream collected for a client that does not stream
    saved       \* what the truncation store was given

formatVars == <<route, src, kiro, fmt, tr, out, client, answer, saved>>

Whole == {"image_generation_call"}
Kinds == Whole \cup {"reasoning", "message", "function_call"}

FormatInit ==
    /\ route \in Routes
    /\ src = [n |-> 0, begun |-> FALSE, late |-> FALSE, calls |-> 0, block |-> None,
              blocks |-> 0, finished |-> FALSE, ended |-> FALSE,
              sent |-> [k \in Kinds |-> <<>>]]
    /\ kiro = NewKiro
    /\ fmt = IF route[1] = "kiro" THEN NewFormat ELSE NewToOpenAI
    /\ tr = IF route[2] = "responses" THEN NewTransformer ELSE NewToAnthropic
    /\ out = IF route = <<"kiro", "anthropic">> THEN <<Event("message_start")>> ELSE <<>>
    /\ client = [status |-> "none", items |-> [i \in {} |-> <<>>]]
    /\ answer = NewAnswer
    /\ saved = {}

(* A translator run over several inputs. *)
Through(Op(_, _), st, xs) ==
    LET upto[i \in 0..Len(xs)] ==
          IF i = 0 THEN Step(st, <<>>) ELSE Then(upto[i - 1], LAMBDA s : Op(s, xs[i]))
    IN upto[Len(xs)]

Polled == out = <<>> /\ ~src.ended

-----------------------------------------------------------------------------
(* Providers: the items each may send next, with its state after that.     *)
Says(s, item) == [src |-> [s EXCEPT !.n = @ + 1], item |-> item]

Said(k, text) ==
    [src EXCEPT !.sent[k] = @ \o text, !.begun = @ \/ k \in {"message", "function_call"},
                !.late = @ \/ (k = "reasoning" /\ src.begun)]

(* OpenAI: reasoning, text, images and calls in any order, the role first  *)
(* if at all, by itself or with a reasoning; calls are numbered as they    *)
(* begin, and only the usage follows the finish.                           *)
OpenAIItems ==
    IF src.finished THEN {Says(src, [NoChunk EXCEPT !.choices = FALSE, !.usage = TRUE])}
    ELSE {Says([src EXCEPT !.begun = TRUE], [NoChunk EXCEPT !.role = TRUE]) : k \in {0} \cap {src.n}}
      \cup {Says(Said("reasoning", <<"r">>), [NoChunk EXCEPT !.role = first, !.reasoning = <<"r">>]) :
              first \in {b \in BOOLEAN : b => src.n = 0}}
      \cup {Says(Said("message", <<"t">>), [NoChunk EXCEPT !.text = <<"t">>]),
            Says(Said("image_generation_call", <<"i">>), [NoChunk EXCEPT !.image = <<"i">>])}
      \cup {Says([Said("function_call", args) EXCEPT !.calls = @ + 1],
                 [NoChunk EXCEPT !.tool = [index |-> src.calls, id |-> TRUE, args |-> args]]) :
              args \in {<<>>, <<"a">>}}
      \cup {Says(Said("function_call", <<"a">>),
                 [NoChunk EXCEPT !.tool = [index |-> k, id |-> FALSE, args |-> <<"a">>]]) :
              k \in 0..(src.calls - 1)}
      \cup {Says([Said("message", text) EXCEPT !.finished = TRUE],
                 [NoChunk EXCEPT !.text = text, !.finish = "stop"]) : text \in {<<>>, <<"t">>}}

(* Anthropic: one block at a time, each with a delta.  The chunk made of   *)
(* message_start is the role by itself.                                    *)
BlockKinds == {"message", "reasoning", "function_call"}

AnthropicItems ==
    IF src.n = 0 THEN {Says([src EXCEPT !.begun = TRUE], [type |-> "message_start", index |-> 0])}
    ELSE IF src.finished THEN {}
    ELSE IF src.block = None
    THEN {Says([src EXCEPT !.block = k, !.calls = 0],
               [type |-> "block_start", index |-> src.blocks, kind |-> k]) : k \in BlockKinds}
           \cup {Says([src EXCEPT !.finished = TRUE], [type |-> "message_delta", index |-> 0])}
    ELSE {Says([Said(src.block, <<src.block>>) EXCEPT !.calls = 1],
               [type |-> "delta", index |-> src.blocks, kind |-> src.block, text |-> <<src.block>>])}
           \cup {Says([src EXCEPT !.block = None, !.blocks = @ + 1],
                      [type |-> "block_stop", index |-> b]) :
                   b \in {src.blocks} \cap (IF src.calls > 0 THEN {src.blocks} ELSE {})}

(* Kiro: content in pieces that cut the tags, tool events that repeat the  *)
(* name and the id, a stop with or apart from the input, and the usage.    *)
Contents == {<<"o1">>, <<"o2", "x">>, <<"x">>, <<"_">>, <<"x", "y", "c1">>, <<"c2", "_", "y">>,
             <<"o1", "o2", "x", "y", "x">>}

ToolEvent(name, id, input, stop) ==
    [type |-> "tool", name |-> name, id |-> id, input |-> input, stop |-> stop]

ToolEvents ==
    [type : {"tool"}, name : {"f"}, id : {"u1", "u2"}, input : {<<"a">>, <<"e">>, <<"z">>}, stop : {FALSE}]
        \cup {ToolEvent(None, None, <<>>, TRUE), ToolEvent("f", "u1", <<>>, TRUE)}

KiroItems ==
    {Says(Said("message", t), [type |-> "content", text |-> t]) : t \in Contents}
      \cup {Says([src EXCEPT !.calls = 1], e) : e \in ToolEvents}
      \cup {Says([src EXCEPT !.finished = TRUE], [type |-> "usage"])}

-----------------------------------------------------------------------------
(* The routes. *)
BlockOrders(st) == SetToSeqs(Range(st.tools))

FromOpenAI ==
    /\ route[1] = "openai" /\ Polled /\ src.n < MaxItems
    /\ \E m \in OpenAIItems :
         /\ src' = m.src
         /\ \/ /\ route[2] = "responses"
               /\ LET r == transform_chunk(tr, m.item) IN tr' = r.st /\ out' = r.events
            \/ /\ route[2] = "anthropic"
               /\ \E order \in BlockOrders(tr) :
                    LET r == translate_chunk(tr, m.item, order) IN tr' = r.st /\ out' = r.events
    /\ UNCHANGED <<route, kiro, fmt, client, answer, saved>>

FromAnthropic ==
    /\ route[1] = "anthropic" /\ Polled /\ src.n < MaxItems
    /\ \E m \in AnthropicItems :
         LET e == translate_event(fmt, m.item)
             r == Through(transform_chunk, tr, e.events)
         IN src' = m.src /\ fmt' = e.st /\ tr' = r.st /\ out' = r.events
    /\ UNCHANGED <<route, kiro, client, answer, saved>>

(* Kiro events on their way to the client, whichever its format. *)
Formatted(events) ==
    IF route[2] = "anthropic"
    THEN LET f == Through(stream_kiro_to_anthropic, fmt, events) IN [fmt |-> f.st, tr |-> tr, out |-> f.events]
    ELSE LET f == Through(stream_kiro_to_openai, fmt, events)
             r == Through(transform_chunk, tr, f.events)
         IN [fmt |-> f.st, tr |-> r.st, out |-> r.events]

Collected(events) == FoldLeft(collect_response, answer, events)

FromKiro ==
    /\ route[1] = "kiro" /\ Polled /\ src.n < MaxItems
    /\ \E m \in KiroItems :
         LET k == parse_kiro_event(kiro, m.item)
             r == Formatted(k.events)
         IN /\ src' = m.src /\ kiro' = k.st
            /\ fmt' = r.fmt /\ tr' = r.tr /\ out' = r.out
            /\ answer' = Collected(k.events)
    /\ UNCHANGED <<route, client, saved>>

(* The provider's stream ends, with [DONE] or without: the transformer is  *)
(* finalized; the other translator of the two adds nothing.                *)
Ends ==
    /\ route[1] # "kiro" /\ Polled
    /\ src' = [src EXCEPT !.ended = TRUE]
    /\ LET r == IF route[2] = "responses" THEN finalize(tr) ELSE Step(tr, <<>>)
       IN tr' = r.st /\ out' = Append(r.events, Event("end"))
    /\ UNCHANGED <<route, kiro, fmt, client, answer, saved>>

(* Kiro's stream ends: the open call is completed, then come the final     *)
(* chunks or events of the formatter.                                      *)
KiroEnded ==
    /\ route[1] = "kiro" /\ Polled
    /\ src' = [src EXCEPT !.ended = TRUE]
    /\ LET k == KiroEnds(kiro)
           r == Formatted(k.events)
       IN /\ kiro' = k.st /\ fmt' = r.fmt
          /\ answer' = Collected(k.events)
          /\ \E ids \in IdOrders(r.fmt.tools) :
               LET calls == deduplicate_tool_calls(r.fmt.tools, ids) IN
               /\ saved' = Truncations(r.fmt, calls)
               /\ \/ /\ route[2] = "anthropic"
                     /\ tr' = tr
                     /\ out' = r.out \o FinalEvents(r.fmt, calls) \o <<Event("end")>>
                  \/ /\ route[2] = "responses"
                     /\ LET c == Through(transform_chunk, r.tr, FinalChunks(r.fmt, calls))
                            f == finalize(c.st)
                        IN tr' = f.st /\ out' = r.out \o c.events \o f.events \o <<Event("end")>>
    /\ UNCHANGED <<route, client>>

(* The provider's stream fails: the error goes to the client at once, and  *)
(* the server cuts the response there.                                     *)
Fails ==
    /\ Polled
    /\ src' = [src EXCEPT !.ended = TRUE]
    /\ out' = <<Event("error")>>
    /\ UNCHANGED <<route, kiro, fmt, tr, client, answer, saved>>

-----------------------------------------------------------------------------
(* The client. *)
ItemOf(k, t, o) == [kind |-> k, text |-> t, open |-> o]
NewItem(k) == ItemOf(k, <<>>, TRUE)

Items(outputs) ==
    [i \in 0..(Len(outputs) - 1) |-> ItemOf(outputs[i + 1][1], outputs[i + 1][2], FALSE)]

ItemAt(c, i) == IF i \in DOMAIN c.items THEN c.items[i] ELSE NewItem("orphan")

With(c, i, item) == [c EXCEPT !.items = Put(@, i, item)]

Reads(c, e) ==
    LET old == ItemAt(c, e.index) IN
    CASE e.type \in {"created", "message_start"} -> [status |-> "open", items |-> [i \in {} |-> <<>>]]
      [] e.type = "added" -> With(c, e.index, NewItem(e.kind))
      [] e.type = "delta" -> With(c, e.index, ItemOf(old.kind, old.text \o e.text, old.open))
      [] e.type = "part_done" -> With(c, e.index, ItemOf(old.kind, e.text, old.open))
      [] e.type = "done" ->
           With(c, e.index, ItemOf(IF e.kind = None THEN old.kind ELSE e.kind,
                                 IF e.text = None THEN old.text ELSE e.text, FALSE))
      [] e.type = "completed" -> [status |-> "completed", items |-> Items(e.output)]
      [] e.type = "message_stop" -> [c EXCEPT !.status = "completed"]
      [] e.type \in {"error", "end"} -> [c EXCEPT !.status = IF @ = "completed" THEN @ ELSE "broken"]
      [] OTHER -> c

Yield ==
    /\ out # <<>>
    /\ client' = Reads(client, Head(out))
    /\ out' = Tail(out)
    /\ UNCHANGED <<route, src, kiro, fmt, tr, answer, saved>>

FormatNext == FromOpenAI \/ FromAnthropic \/ FromKiro \/ Ends \/ KiroEnded \/ Fails \/ Yield

FormatSpec == FormatInit /\ [][FormatNext]_formatVars

-----------------------------------------------------------------------------
Protocol == INSTANCE StreamProtocol WITH status <- client.status, items <- client.items

(* A reasoning came to the transformer after it had opened the message.    *)
ReasoningLate == route[2] = "responses" /\ src.late

(* Every route's stream keeps the protocol: items open at the next index,  *)
(* take fragments while open, are closed with the text they were sent, and *)
(* all are closed when the answer completes; response.completed repeats    *)
(* them in order.  (Nothing is claimed of a stream from a late reasoning   *)
(* on: the transformer adds it to item 0, whatever that is.)               *)
KeepsProtocol ==
    Protocol!Init /\ [][ReasoningLate \/ Protocol!Next]_<<client.status, client.items>>

(* The text of all items of a kind, in the order of their indexes. *)
TextOf(k) ==
    LET n == Cardinality(DOMAIN client.items) IN
    FlattenSeq([i \in 1..n |-> IF client.items[i - 1].kind = k THEN client.items[i - 1].text ELSE <<>>])

(* Across one or two translations, each fragment a provider sent is in the *)
(* client's item of its kind when the answer completes, none is lost and   *)
(* none is repeated; only a reasoning that came late may be missing, all   *)
(* of it.  (translate_chunk has no thinking blocks and no images.)         *)
FragmentsDelivered ==
    client.status = "completed" /\ route[1] # "kiro" =>
      \A k \in IF route[2] = "responses" THEN Kinds ELSE {"message", "function_call"} :
        \/ TextOf(k) = src.sent[k]
        \/ k = "reasoning" /\ src.late /\ TextOf(k) = <<>>

(* The thinking block of a text and what follows it, had the text arrived  *)
(* in one piece.                                                           *)
Split(s) ==
    LET t == From(TrimStart(s), Len(OpenTag) + 1)
        i == At(t, CloseTag)
    IN IF ~IsPrefix(OpenTag, TrimStart(s)) THEN [thinking |-> <<>>, regular |-> s, closed |-> FALSE]
       ELSE IF i = 0 THEN [thinking |-> t, regular |-> <<>>, closed |-> FALSE]
       ELSE [thinking |-> SubSeq(t, 1, i - 1), regular |-> From(t, i + Len(CloseTag)), closed |-> TRUE]

(* However Kiro's content is cut into events, the client gets the same     *)
(* thinking and the same text as in one piece: no part of a tag leaks, and *)
(* what the parser still holds at the end is shorter than two tags.        *)
ThinkingCutOut ==
    client.status = "completed" /\ route[1] = "kiro" =>
      LET s == Split(src.sent["message"])
          thinking == TextOf("reasoning")
      IN /\ IsPrefix(thinking, s.thinking)
         /\ Len(s.thinking) - Len(thinking) <= (IF s.closed THEN 0 ELSE MaxTagLength)
         /\ \/ TrimStart(TextOf("message")) = TrimStart(s.regular)
            \/ TextOf("message") = <<>> /\ IsPrefix(TrimStart(s.regular), OpenTag)

(* A client that does not stream gets the text the streaming one gets.     *)
CollectedAgrees ==
    client.status = "completed" /\ route[1] = "kiro" =>
      /\ answer.reasoning = TextOf("reasoning")
      /\ answer.content = TextOf("message")

(* A client of the Responses API gets the same items, in the same order,   *)
(* whether it streams or not: stream_kiro_to_openai and the transformer    *)
(* end where collect_openai_response and chat_completion_to_responses_api  *)
(* do, for some order of the calls in the HashMap.                         *)
WholeAgrees ==
    client.status = "completed" /\ route = <<"kiro", "responses">> =>
      \E ids \in IdOrders(answer.tools) :
        client.items = Items(chat_completion_to_responses_api(CollectedBody(answer, ids)))

(* A call that diagnose_json_truncation finds cut is in the truncation     *)
(* store when the answer is complete, so that the next request of the      *)
(* conversation is told; unless another call took its place among the      *)
(* duplicates.  (Not every cut is found: arguments that were cut where the *)
(* counts come out even become {} without a note.)                         *)
TruncationRemembered ==
    client.status = "completed" /\ route[1] = "kiro" =>
      \A t \in Range(fmt.tools) :
        t.truncated => \/ t.id \in saved
                       \/ \E u \in Range(fmt.tools) \ {t} : u.id = t.id \/ u.input = t.input

(* Whatever the provider and the client speak, a completed answer holds    *)
(* what the provider said, once, in order, each kind in its place.         *)
AnswerDelivered == FragmentsDelivered /\ ThinkingCutOut

(* Of an answer that comes whole, a client has the same text and reasoning *)
(* whether it streams or not, and on the Responses API the same calls.     *)
AnswersAgree == CollectedAgrees /\ WholeAgrees
=============================================================================
