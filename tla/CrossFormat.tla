---------------------------- MODULE CrossFormat ----------------------------
(***************************************************************************)
(* streaming/cross_format.rs: streams of one provider format translated    *)
(* for a client of the other.  OpenAIToAnthropicState turns chunks into    *)
(* content-block events, AnthropicToOpenAIState turns events into chunks.  *)
(* Chunks and the events Added (content_block_start), Delta and ItemDone   *)
(* (content_block_stop) are those of ResponsesStream; a stop carries no    *)
(* text, which is None.                                                    *)
(***************************************************************************)
EXTENDS ResponsesStream, FiniteSets

(* A map with one more entry. *)
Put(f, x, v) == [y \in DOMAIN f \cup {x} |-> IF y = x THEN v ELSE f[y]]

Stop(i) == ItemDone(i, None, None)

NewToAnthropic ==
    [started |-> FALSE, text_open |-> FALSE, index |-> 0, tools |-> [t \in {} |-> 0]]

MessageStart(st) ==
    Step([st EXCEPT !.started = TRUE], IF st.started THEN <<>> ELSE <<Event("message_start")>>)

TextToBlock(st, c) ==
    IF c.text = <<>> THEN Step(st, <<>>)
    ELSE Step([st EXCEPT !.text_open = TRUE],
              (IF st.text_open THEN <<>> ELSE <<Added(st.index, "message")>>)
                \o <<Delta(st.index, c.text)>>)

(* A new tool index closes the text block and takes the next index; a tool *)
(* block stays open until the finish.                                      *)
ToolToBlock(st, c) ==
    LET known == c.tool.index \in DOMAIN st.tools
        i == IF known THEN st.tools[c.tool.index]
             ELSE IF st.text_open THEN st.index + 1 ELSE st.index
    IN IF c.tool = None THEN Step(st, <<>>)
       ELSE Step(IF known THEN st
                 ELSE [st EXCEPT !.text_open = FALSE, !.index = i + 1,
                                 !.tools = Put(@, c.tool.index, i)],
                 (IF known THEN <<>>
                  ELSE (IF st.text_open THEN <<Stop(st.index)>> ELSE <<>>)
                         \o <<Added(i, "function_call")>>)
                   \o (IF c.tool.args = <<>> THEN <<>> ELSE <<Delta(i, c.tool.args)>>))

(* The tool blocks are closed in the order of a HashMap's values: order is *)
(* any sequence of them.                                                   *)
FinishBlocks(st, c, order) ==
    Step(st, IF c.finish = None THEN <<>>
             ELSE (IF st.text_open THEN <<Stop(st.index)>> ELSE <<>>)
                    \o [k \in 1..Len(order) |-> Stop(order[k])]
                    \o <<Event("message_delta"), Event("message_stop")>>)

translate_chunk(st, c, order) ==
    IF ~c.choices
    THEN Then(MessageStart(st),
              LAMBDA s : Step(s, IF c.usage THEN <<Event("message_delta")>> ELSE <<>>))
    ELSE LET r1 == Then(MessageStart(st), LAMBDA s : TextToBlock(s, c))
             r2 == Then(r1, LAMBDA s : ToolToBlock(s, c))
         IN Then(r2, LAMBDA s : FinishBlocks(s, c, order))

-----------------------------------------------------------------------------
(* Anthropic events in: [type, index, kind, text].  The state is the tool  *)
(* blocks seen so far; a tool reaches the client with its first arguments. *)
NewToOpenAI == [b \in {} |-> [index |-> 0, started |-> FALSE]]

translate_event(st, e) ==
    LET tool == st[e.index] IN
    CASE e.type = "message_start" -> Step(st, <<[NoChunk EXCEPT !.role = TRUE]>>)
      [] e.type = "block_start" ->
           Step(IF e.kind # "function_call" THEN st
                ELSE Put(st, e.index, [index |-> Cardinality(DOMAIN st), started |-> FALSE]),
                <<>>)
      [] e.type = "delta" /\ e.kind = "message" -> Step(st, <<[NoChunk EXCEPT !.text = e.text]>>)
      [] e.type = "delta" /\ e.kind = "reasoning" ->
           Step(st, <<[NoChunk EXCEPT !.reasoning = e.text]>>)
      [] e.type = "delta" /\ e.kind = "function_call" ->
           IF e.index \notin DOMAIN st THEN Step(st, <<>>)
           ELSE Step([st EXCEPT ![e.index].started = TRUE],
                     <<[NoChunk EXCEPT !.tool = [index |-> tool.index, id |-> ~tool.started,
                                                 args |-> e.text]]>>)
      [] e.type = "message_delta" ->
           Step(st, <<[NoChunk EXCEPT !.finish = "stop", !.usage = TRUE]>>)
      [] OTHER -> Step(st, <<>>)
=============================================================================
