----------------------------- MODULE KiroStream -----------------------------
(***************************************************************************)
(* The Kiro event stream after its JSON objects are extracted              *)
(* (streaming/mod.rs, thinking_parser.rs): tool events are accumulated     *)
(* into calls, a thinking block is cut out of the content, and the result  *)
(* is formatted as OpenAI chunks, as Anthropic events, or collected into   *)
(* one answer.                                                             *)
(*                                                                         *)
(* Text is a sequence of symbols.  The four tag pairs are treated alike    *)
(* and stand as one, of two symbols each way, so that a tag can arrive in  *)
(* pieces.  "_" is white space.  The arguments of a tool parse as JSON     *)
(* when they end in "z"; "{}" is the empty object.  Those that end in "e"  *)
(* do not parse, but their braces, brackets and quotes come out even,      *)
(* counted inside strings as well: {"a": "}", "b": {} is such a piece.     *)
(***************************************************************************)
EXTENDS CrossFormat, FiniteSetsExt

OpenTag == <<"o1", "o2">>
CloseTag == <<"c1", "c2">>
MaxTagLength == 2 * Len(OpenTag)

(* Where p first occurs in s, 0 if nowhere. *)
At(s, p) ==
    LET is == {i \in 1..(Len(s) - Len(p) + 1) : SubSeq(s, i, i + Len(p) - 1) = p}
    IN IF is = {} THEN 0 ELSE Min(is)

From(s, i) == SubSeq(s, i, Len(s))

TrimStart(s) ==
    LET solid == {i \in 1..Len(s) : s[i] # "_"} IN IF solid = {} THEN <<>> ELSE From(s, Min(solid))

NewThinking == [state |-> "PreContent", initial |-> <<>>, thinking |-> <<>>]

(* What ThinkingParser.feed returns: the parser, thinking, regular text. *)
Parsed(tp, thinking, regular) == [tp |-> tp, thinking |-> thinking, regular |-> regular]

(* A process_thinking_buffer that keeps nothing back. *)
process_thinking_buffer_eager(tp) ==
    LET i == At(tp.thinking, CloseTag) IN
    IF i > 0
    THEN Parsed([tp EXCEPT !.state = "Streaming", !.thinking = <<>>],
                SubSeq(tp.thinking, 1, i - 1), TrimStart(From(tp.thinking, i + Len(CloseTag))))
    ELSE Parsed([tp EXCEPT !.thinking = <<>>], tp.thinking, <<>>)

process_thinking_buffer(tp) ==
    LET i == At(tp.thinking, CloseTag)
        k == Len(tp.thinking) - MaxTagLength
    IN IF i > 0
       THEN Parsed([tp EXCEPT !.state = "Streaming", !.thinking = <<>>],
                   SubSeq(tp.thinking, 1, i - 1), TrimStart(From(tp.thinking, i + Len(CloseTag))))
       ELSE IF k > 0
       THEN Parsed([tp EXCEPT !.thinking = From(@, k + 1)], SubSeq(tp.thinking, 1, k), <<>>)
       ELSE Parsed(tp, <<>>, <<>>)

handle_pre_content(tp, content) ==
    LET b == tp.initial \o content
        stripped == TrimStart(b)
    IN IF IsPrefix(OpenTag, stripped)
       THEN process_thinking_buffer([state |-> "InThinking", initial |-> <<>>,
                                     thinking |-> From(stripped, Len(OpenTag) + 1)])
       ELSE IF IsPrefix(stripped, OpenTag)
       THEN Parsed([tp EXCEPT !.initial = b], <<>>, <<>>)
       ELSE Parsed([tp EXCEPT !.state = "Streaming", !.initial = <<>>], <<>>, b)

feed(tp, content) ==
    CASE content = <<>> -> Parsed(tp, <<>>, <<>>)
      [] content # <<>> /\ tp.state = "PreContent" -> handle_pre_content(tp, content)
      [] content # <<>> /\ tp.state = "InThinking" ->
           process_thinking_buffer([tp EXCEPT !.thinking = @ \o content])
      [] content # <<>> /\ tp.state = "Streaming" -> Parsed(tp, <<>>, content)

-----------------------------------------------------------------------------
(* ToolCallAccumulator.  A tool event is [name, id, input, stop], name and *)
(* id None when missing.                                                   *)
NewAccumulator == [current |-> None, finalized |-> FALSE]

(* Of arguments that do not parse: cut where the braces, brackets and     *)
(* quotes counted so far come out even ("e"), they pass for whole.         *)
diagnose_json_truncation(input) == input # <<>> /\ Last(input) # "e"

Complete(t) ==
    LET parses == t.input # <<>> /\ Last(t.input) = "z" IN
    [id |-> t.id, name |-> t.name, input |-> IF parses THEN t.input ELSE <<"{}">>,
     truncated |-> ~parses /\ diagnose_json_truncation(t.input)]

(* The call a step completes, as a sequence of none or one. *)
finalize_current(acc) ==
    Step([acc EXCEPT !.current = None],
         IF acc.current = None THEN <<>> ELSE <<Complete(acc.current)>>)

process_event(acc, e) ==
    LET same == acc.current # None /\ e.id # None /\ acc.current.id = e.id
        grown == IF acc.current = None THEN acc ELSE [acc EXCEPT !.current.input = @ \o e.input]
        begun == [acc EXCEPT !.current = [id |-> e.id, name |-> e.name, input |-> e.input]]
    IN IF e.name # None /\ ~same
       THEN IF e.stop THEN finalize_current(begun)
            ELSE Step(begun, finalize_current(acc).events)
       ELSE IF e.stop THEN finalize_current(grown) ELSE Step(grown, <<>>)

finalize_tool(acc) ==
    IF acc.finalized THEN Step(acc, <<>>) ELSE finalize_current([acc EXCEPT !.finalized = TRUE])

-----------------------------------------------------------------------------
(* parse_kiro_stream_with_thinking: one JSON object in, Kiro events out.   *)
NewKiro == [tp |-> NewThinking, acc |-> NewAccumulator]

Text(t, s) == IF s = <<>> THEN <<>> ELSE <<[type |-> t, text |-> s]>>
Calls(ts) == [k \in 1..Len(ts) |-> [type |-> "tool_use", tool |-> ts[k]]]

ParseContent(k, e) ==
    LET r == feed(k.tp, e.text) IN
    Step([k EXCEPT !.tp = r.tp], Text("thinking", r.thinking) \o Text("content", r.regular))

parse_kiro_event(k, e) ==
    CASE e.type = "content" -> ParseContent(k, e)
      [] e.type = "tool" ->
           LET r == process_event(k.acc, e) IN Step([k EXCEPT !.acc = r.st], Calls(r.events))
      [] e.type = "usage" -> Step(k, <<[type |-> "usage"]>>)
      [] OTHER -> Step(k, <<>>)

(* The end of the stream, or an error before it, completes the open call.  *)
(* ThinkingParser.finalize is never called.                                *)
KiroEnds(k) == LET r == finalize_tool(k.acc) IN Step([k EXCEPT !.acc = r.st], Calls(r.events))

-----------------------------------------------------------------------------
(* deduplicate_tool_calls: by id, keeping the longer arguments; then by    *)
(* name and arguments.  ids is the order in which the HashMap yields them. *)
Better(new, old) ==
    /\ new.input # <<"{}">>
    /\ old.input = <<"{}">> \/ Len(new.input) > Len(old.input)

BestOf(tools, id) ==
    LET best[i \in 0..Len(tools)] ==
          IF i = 0 THEN None
          ELSE LET old == best[i - 1] IN
               IF tools[i].id = id /\ (old = None \/ Better(tools[i], old)) THEN tools[i] ELSE old
    IN best[Len(tools)]

WithoutId(tools) ==
    LET some[i \in 0..Len(tools)] ==
          IF i = 0 THEN <<>>
          ELSE some[i - 1] \o (IF tools[i].id = None THEN <<tools[i]>> ELSE <<>>)
    IN some[Len(tools)]

deduplicate_tool_calls(tools, ids) ==
    LET all == [k \in 1..Len(ids) |-> BestOf(tools, ids[k])] \o WithoutId(tools)
        Same(k, i) == all[k].name = all[i].name /\ all[k].input = all[i].input
        kept[i \in 0..Len(all)] ==
          IF i = 0 THEN <<>>
          ELSE kept[i - 1] \o (IF \E k \in 1..(i - 1) : Same(k, i) THEN <<>> ELSE <<all[i]>>)
    IN kept[Len(all)]

IdOrders(tools) == SetToSeqs({t.id : t \in Range(tools)} \ {None})

(* The state every formatter keeps. *)
NewFormat == [first |-> TRUE, tools |-> <<>>, usage |-> FALSE, text |-> <<>>, blocks |-> <<>>]

Noted(f, e) ==
    CASE e.type = "tool_use" -> [f EXCEPT !.tools = Append(@, e.tool)]
      [] e.type = "usage" -> [f EXCEPT !.usage = TRUE]
      [] e.type \in {"content", "thinking"} -> [f EXCEPT !.text = @ \o e.text]

(* A store filled only when nothing says that the answer is whole. *)
TruncationsUnmetered(f, calls) ==
    IF f.usage THEN {}
    ELSE {t.id : t \in {s \in Range(calls) : s.truncated}}
           \cup (IF f.text # <<>> /\ calls = <<>> THEN {"content"} ELSE {})

(* What the truncation store is given when the stream ends: the calls cut  *)
(* short, and the text if nothing says that it is whole.                   *)
Truncations(f, calls) ==
    {t.id : t \in {s \in Range(calls) : s.truncated}}
        \cup (IF ~f.usage /\ f.text # <<>> /\ calls = <<>> THEN {"content"} ELSE {})

stream_kiro_to_openai(f, e) ==
    CASE e.type = "content" ->
           Step([Noted(f, e) EXCEPT !.first = FALSE],
                <<[NoChunk EXCEPT !.role = f.first, !.text = e.text]>>)
      [] e.type = "thinking" ->
           Step([Noted(f, e) EXCEPT !.first = FALSE],
                <<[NoChunk EXCEPT !.role = f.first, !.reasoning = e.text]>>)
      [] OTHER -> Step(Noted(f, e), <<>>)

FinalChunks(f, calls) ==
    [k \in 1..Len(calls) |->
       [NoChunk EXCEPT !.tool = [index |-> k - 1, id |-> TRUE, args |-> calls[k].input]]]
      \o <<[NoChunk EXCEPT !.finish = IF calls # <<>> THEN "tool_calls" ELSE "stop", !.usage = f.usage]>>

(* Blocks in the order in which they were started: the block of kind k has *)
(* the index of its place.                                                 *)
BlockIndex(f, k) == SelectInSeq(f.blocks, LAMBDA b : b = k) - 1

BlockDelta(f, e, k) ==
    LET g == Noted(f, e)
        new == BlockIndex(g, k) < 0
        h == IF new THEN [g EXCEPT !.blocks = Append(@, k)] ELSE g
        i == BlockIndex(h, k)
    IN Step(h, (IF new THEN <<Added(i, k)>> ELSE <<>>) \o <<Delta(i, e.text)>>)

stream_kiro_to_anthropic(f, e) ==
    CASE e.type = "content" -> BlockDelta(f, e, "message")
      [] e.type = "thinking" -> BlockDelta(f, e, "reasoning")
      [] OTHER -> Step(Noted(f, e), <<>>)

(* Thinking and text stay open to the end, whichever came first; each call *)
(* is a block of its own.                                                  *)
FinalEvents(f, calls) ==
    LET i(k) == Len(f.blocks) + k - 1
        close(k) == IF BlockIndex(f, k) < 0 THEN <<>> ELSE <<Stop(BlockIndex(f, k))>>
    IN close("reasoning") \o close("message")
         \o FlattenSeq([k \in 1..Len(calls) |->
               <<Added(i(k), "function_call"), Delta(i(k), calls[k].input), Stop(i(k))>>])
         \o <<Event("message_delta"), Event("message_stop")>>

(* collect_openai_response and collect_anthropic_response: the same events *)
(* into one answer; an error in the stream is logged and skipped.          *)
NewAnswer == [content |-> <<>>, reasoning |-> <<>>, tools |-> <<>>]

collect_response(a, e) ==
    CASE e.type = "content" -> [a EXCEPT !.content = @ \o e.text]
      [] e.type = "thinking" -> [a EXCEPT !.reasoning = @ \o e.text]
      [] e.type = "tool_use" -> [a EXCEPT !.tools = Append(@, e.tool)]
      [] OTHER -> a

(* The body made of it.                                                    *)
CollectedBody(a, ids) ==
    LET calls == deduplicate_tool_calls(a.tools, ids) IN
    [reasoning |-> a.reasoning, content |-> a.content, images |-> <<>>,
     calls |-> [k \in 1..Len(calls) |-> calls[k].input]]
=============================================================================
