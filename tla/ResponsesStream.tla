-------------------------- MODULE ResponsesStream --------------------------
(***************************************************************************)
(* ResponsesStreamTransformer (converters/responses_to_chat_completion.rs):*)
(* Chat Completion chunks in, events of the Responses API out.  A chunk is *)
(* what its first choice's delta holds: a text per field (a sequence of    *)
(* symbols, empty when the field is missing or empty), at most one image,  *)
(* one entry of tool_calls.  Annotations decorate the done events and are  *)
(* left out.                                                               *)
(***************************************************************************)
EXTENDS Naturals, Sequences, SequencesExt, Optional

(* A chunk that says nothing.  A tool entry is [index, id, args]; choices  *)
(* is FALSE in the chunk that only reports usage.                          *)
NoChunk == [choices |-> TRUE, role |-> FALSE, reasoning |-> <<>>, text |-> <<>>, image |-> <<>>,
            tool |-> None, finish |-> None, usage |-> FALSE]

(* TransformerPhase, in its order. *)
NotStarted == 0
Initiated == 1
Reasoning == 2
ReasoningDone == 3
MessageInProgress == 4
Completed == 5

NewTransformer ==
    [phase |-> NotStarted, had_reasoning |-> FALSE, reasoning |-> <<>>, message |-> <<>>,
     calls |-> <<>>, images |-> <<>>, finish |-> None]

Added(i, k) == [type |-> "added", index |-> i, kind |-> k]
Delta(i, f) == [type |-> "delta", index |-> i, text |-> f]
PartDone(i, t) == [type |-> "part_done", index |-> i, text |-> t]
ItemDone(i, k, t) == [type |-> "done", index |-> i, kind |-> k, text |-> t]
Event(t) == [type |-> t]

(* A step of the transformer: its new state and the events it pushes. *)
Step(st, evs) == [st |-> st, events |-> evs]
Then(r, Op(_)) == LET q == Op(r.st) IN Step(q.st, r.events \o q.events)

message_output_index(st) == IF st.had_reasoning THEN 1 ELSE 0

ensure_initial_events(st) ==
    IF st.phase # NotStarted THEN Step(st, <<>>)
    ELSE Step([st EXCEPT !.phase = Initiated], <<Event("created"), Event("in_progress")>>)

close_reasoning_item(st) ==
    IF st.phase # Reasoning THEN Step(st, <<>>)
    ELSE Step([st EXCEPT !.phase = ReasoningDone],
              <<PartDone(0, st.reasoning), ItemDone(0, "reasoning", st.reasoning)>>)

(* A start_message_item that forgets that reasoning took index 0. *)
start_message_item_first(st) ==
    IF st.phase >= MessageInProgress THEN Step(st, <<>>)
    ELSE Step([st EXCEPT !.phase = MessageInProgress],
              <<Added(0, "message"), [type |-> "part_added", index |-> 0]>>)

start_message_item(st) ==
    LET i == message_output_index(st) IN
    IF st.phase >= MessageInProgress THEN Step(st, <<>>)
    ELSE Step([st EXCEPT !.phase = MessageInProgress],
              <<Added(i, "message"), [type |-> "part_added", index |-> i]>>)

ImageIndex(st, k) == message_output_index(st) + Len(st.calls) + k

(* The output array of response.completed, by position. *)
Output(st) ==
    (IF st.had_reasoning THEN <<<<"reasoning", st.reasoning>>>> ELSE <<>>)
        \o <<<<"message", st.message>>>>
        \o [k \in 1..Len(st.calls) |-> <<"function_call", st.calls[k].args>>]
        \o [k \in 1..Len(st.images) |-> <<"image_generation_call", st.images[k]>>]

Closing(st, usage) ==
    LET i == message_output_index(st) IN
    Step([st EXCEPT !.phase = Completed],
         [k \in 1..Len(st.calls) |->
            ItemDone(st.calls[k].index, "function_call", st.calls[k].args)]
           \o <<PartDone(i, st.message), ItemDone(i, "message", st.message)>>
           \o FlattenSeq([k \in 1..Len(st.images) |->
                 <<Added(ImageIndex(st, k), "image_generation_call"),
                   ItemDone(ImageIndex(st, k), "image_generation_call", st.images[k])>>])
           \o <<[type |-> "completed", output |-> Output(st), usage |-> usage]>>)

emit_completion_events(st, usage) ==
    Then(Then(close_reasoning_item(st), start_message_item), LAMBDA s : Closing(s, usage))

ReasoningDelta(st, c) ==
    IF c.reasoning = <<>> THEN Step(st, <<>>)
    ELSE LET started(s) ==
               IF s.phase < Reasoning
               THEN Step([s EXCEPT !.phase = Reasoning, !.had_reasoning = TRUE],
                         <<Added(0, "reasoning"), [type |-> "part_added", index |-> 0]>>)
               ELSE Step(s, <<>>)
         IN Then(Then(ensure_initial_events(st), started),
                 LAMBDA s : Step([s EXCEPT !.reasoning = @ \o c.reasoning],
                                 <<Delta(0, c.reasoning)>>))

RoleDelta(st, c) ==
    IF ~c.role \/ st.phase >= Reasoning THEN Step(st, <<>>)
    ELSE Then(ensure_initial_events(st), start_message_item)

(* Before content or a new call: the reasoning item is closed and the      *)
(* message item started.                                                   *)
EnterMessage(st) ==
    Then(ensure_initial_events(st),
         LAMBDA s : IF s.phase < MessageInProgress
                    THEN Then(close_reasoning_item(s), start_message_item) ELSE Step(s, <<>>))

ContentDelta(st, c) ==
    IF c.text = <<>> THEN Step(st, <<>>)
    ELSE Then(EnterMessage(st),
              LAMBDA s : Step([s EXCEPT !.message = @ \o c.text],
                              <<Delta(message_output_index(s), c.text)>>))

Images(st, c) ==
    Step(IF c.image = <<>> THEN st ELSE [st EXCEPT !.images = Append(@, c.image)], <<>>)

(* A call is found by its output index; an argument without a call is      *)
(* forwarded all the same.                                                 *)
ToolDelta(st, c) ==
    LET i == message_output_index(st) + 1 + c.tool.index
        begun(s) == IF ~c.tool.id THEN Step(s, <<>>)
                    ELSE Then(EnterMessage(s),
                              LAMBDA q : Step([q EXCEPT !.calls = Append(@, [index |-> i, args |-> <<>>])],
                                              <<Added(i, "function_call")>>))
        grown(s) == LET k == SelectInSeq(s.calls, LAMBDA fc : fc.index = i)
                    IN IF c.tool.args = <<>> THEN Step(s, <<>>)
                       ELSE Step(IF k = 0 THEN s
                                 ELSE [s EXCEPT !.calls[k].args = @ \o c.tool.args],
                                 <<Delta(i, c.tool.args)>>)
    IN IF c.tool = None THEN Step(st, <<>>) ELSE Then(begun(st), grown)

Finish(st, c) ==
    IF c.finish = None THEN Step(st, <<>>)
    ELSE Then(ensure_initial_events([st EXCEPT !.finish = c.finish]),
              LAMBDA s : emit_completion_events(s, c.usage))

transform_chunk(st, c) ==
    IF ~c.choices THEN Step(st, <<>>)
    ELSE LET r1 == ReasoningDelta(st, c)
             r2 == Then(r1, LAMBDA s : RoleDelta(s, c))
             r3 == Then(r2, LAMBDA s : ContentDelta(s, c))
             r4 == Then(r3, LAMBDA s : Images(s, c))
             r5 == Then(r4, LAMBDA s : ToolDelta(s, c))
         IN Then(r5, LAMBDA s : Finish(s, c))

(* An answer that was not streamed has a reasoning item if it has          *)
(* reasoning, then a message item, empty or not.                           *)
TextItems(body) ==
    (IF body.reasoning # <<>> THEN <<<<"reasoning", body.reasoning>>>> ELSE <<>>)
        \o <<<<"message", body.content>>>>

(* Slip: an answer of calls alone has no message item.                     *)
chat_completion_to_responses_api_bare(body) ==
    (IF body.content = <<>> /\ body.calls # <<>> THEN <<>> ELSE TextItems(body))
        \o [k \in 1..Len(body.calls) |-> <<"function_call", body.calls[k]>>]
        \o [k \in 1..Len(body.images) |-> <<"image_generation_call", body.images[k]>>]

(* The output array of a whole answer.                                     *)
chat_completion_to_responses_api(body) ==
    TextItems(body)
        \o [k \in 1..Len(body.calls) |-> <<"function_call", body.calls[k]>>]
        \o [k \in 1..Len(body.images) |-> <<"image_generation_call", body.images[k]>>]

finalize(st) ==
    IF st.phase \in {NotStarted, Completed} THEN Step(st, <<>>)
    ELSE emit_completion_events([st EXCEPT !.finish = IF @ = None THEN "length" ELSE @], FALSE)
=============================================================================
