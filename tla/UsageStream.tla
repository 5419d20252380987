---------------------------- MODULE UsageStream ----------------------------
(***************************************************************************)
(* Usage accounting of one response: the provider's server-sent events     *)
(* pass through wrap_stream_with_usage_metrics (routes/pipeline.rs) to the *)
(* client, directly (/v1/chat/completions, /v1/messages) or through        *)
(* transform_responses_sse_stream (/v1/responses, routes/responses.rs).  A *)
(* response that is not streamed is accounted for at once                  *)
(* (persist_non_streaming_usage).                                          *)
(*                                                                         *)
(* A line of the body is sent as three symbols: its first part, the rest   *)
(* of its text, and the newline.  Chunks end anywhere between two symbols, *)
(* so they cut lines; in a wide line the cut falls inside a multi-byte     *)
(* character.  The body may end anywhere.                                  *)
(***************************************************************************)
EXTENDS Integers, Sequences, SequencesExt, Optional

CONSTANTS
    Lines,        \* lines a provider may send
    MaxLines,     \* bound on the lines of a body
    Consumers,    \* "direct", "responses", "json": kinds of response
    MaxI32        \* i32::MAX

(* The optional counters of the usage object in a line; None in both when  *)
(* there is none or the line is not JSON data.  The object is at the top   *)
(* or nested in another one, as in Anthropic's message_start, where it is  *)
(* the message's.                                                          *)
Line == [done : BOOLEAN, wide : BOOLEAN, nested : BOOLEAN,
         input : Int \cup {None}, output : Int \cup {None}]

ASSUME LinesAssumption == Lines \subseteq Line
ASSUME ConsumersAssumption == Consumers \subseteq {"direct", "responses", "json"}
ASSUME CountersAssumption == MaxLines \in Nat /\ MaxI32 \in Nat \ {0} /\ None \notin Int

VARIABLES
    consumer,  \* who polls the tracked stream
    tracked,   \* config_db and user_id are Some
    body,      \* the symbols the provider sends
    pos,       \* symbols received so far
    usage,     \* StreamUsageState
    reader,    \* transform_responses_sse_stream: its line buffer, [DONE] seen
    stream,    \* the tracked stream: open, polled to its end, or dropped
    client,    \* what the client has seen of the end of its response
    job,       \* metric a spawned task has to insert
    rows,      \* usage_records rows of this response
    failed     \* the provider's stream or the insert failed

usageVars == <<consumer, tracked, body, pos, usage, reader, stream, client, job, rows, failed>>

Symbol == Line \X (1..3)
Snapshot == [input : Int, output : Int]
Metric == [input : 0..MaxI32, output : 0..MaxI32]

UsageTypeOK ==
    /\ consumer \in Consumers
    /\ tracked \in BOOLEAN /\ failed \in BOOLEAN
    /\ body \in Seq(Symbol)
    /\ pos \in 0..Len(body)
    /\ usage.buffer \in Seq(Symbol) /\ usage.snapshot \in Snapshot
    /\ reader.buffer \in Seq(Symbol) /\ reader.done \in BOOLEAN
    /\ stream \in {"open", "ended", "dropped"}
    /\ client \in {"open", "closed", "done", "error", "gone"}
    /\ job \in Metric \cup {None}
    /\ rows \in Seq(Metric)

Text(ls) == [i \in 1..(3 * Len(ls)) |-> <<ls[((i - 1) \div 3) + 1], ((i - 1) % 3) + 1>>]

(* UsageMetricEnvelope has a usage field at the top and no other.          *)
Silent(line) == line.done \/ line.nested

(* A JSON response is one object, with or without usage at its top.  Of a  *)
(* stream, [DONE] is the last line, and it may break off before.           *)
Bodies(c) ==
    IF c = "json" THEN {Text(<<l>>) : l \in {k \in Lines : ~Silent(k)}}
    ELSE UNION {{SubSeq(Text(ls), 1, n) : n \in 0..(3 * Len(ls))} :
                  ls \in {ks \in SeqOf(Lines, MaxLines) :
                            \A i \in 1..(Len(ks) - 1) : ~ks[i].done}}

UsageInit ==
    /\ consumer \in Consumers
    /\ tracked \in BOOLEAN
    /\ body \in Bodies(consumer)
    /\ pos = 0
    /\ usage = [buffer |-> <<>>, snapshot |-> [input |-> 0, output |-> 0]]
    /\ reader = [buffer |-> <<>>, done |-> FALSE]
    /\ stream = "open"
    /\ client = "open"
    /\ job = None
    /\ rows = <<>>
    /\ failed = FALSE

-----------------------------------------------------------------------------
(* The text of a line is there from its first symbol to its second.        *)
Complete(text) == Len(text) = 2

apply_fields(snapshot, line) ==
    [input  |-> IF line.input = None THEN snapshot.input ELSE line.input,
     output |-> IF line.output = None THEN snapshot.output ELSE line.output]

has_usage(snapshot) == snapshot.input > 0 \/ snapshot.output > 0

normalize_for_persistence(snapshot) ==
    IF snapshot.input \in 0..MaxI32 /\ snapshot.output \in 0..MaxI32 THEN snapshot ELSE None

(* The metric a finished snapshot is worth, None when nothing is recorded. *)
persist(snapshot) == IF has_usage(snapshot) THEN normalize_for_persistence(snapshot) ELSE None

(* [DONE], lines cut short and nested counters are passed over.            *)
update_stream_usage_from_line(snapshot, text) ==
    IF ~Complete(text) THEN snapshot
    ELSE IF Silent(text[1][1]) THEN snapshot ELSE apply_fields(snapshot, text[1][1])

(* A newline finishes the line in the buffer, which is taken from it.      *)
take_symbol(state, sym) ==
    IF sym[2] = 3
    THEN [buffer |-> <<>>,
          snapshot |-> update_stream_usage_from_line(state.snapshot, state.buffer)]
    ELSE [state EXCEPT !.buffer = Append(@, sym)]

(* Slip: each chunk is parsed on its own.                                  *)
update_from_chunk_alone(state, chunk) ==
    FoldLeft(take_symbol, [state EXCEPT !.buffer = <<>>], chunk)

(* The chunk is appended to the buffer and every finished line is taken    *)
(* from it.                                                                *)
update_stream_usage_from_chunk(state, chunk) ==
    LET after[i \in 0..Len(chunk)] ==
          IF i = 0 THEN state ELSE take_symbol(after[i - 1], chunk[i])
    IN  after[Len(chunk)]

(* Slip: a last line without a newline is forgotten.                       *)
finalize_drops_rest(state) == [state EXCEPT !.buffer = <<>>]

(* The line left in the buffer when the stream ends.                       *)
finalize_stream_usage(state) ==
    [buffer |-> <<>>, snapshot |-> update_stream_usage_from_line(state.snapshot, state.buffer)]

(* transform_responses_sse_stream reads the same lines and stops at [DONE].*)
ReadChunk(state, chunk) ==
    FoldLeft(LAMBDA st, sym :
                IF st.done THEN st
                ELSE IF sym[2] # 3 THEN [st EXCEPT !.buffer = Append(@, sym)]
                ELSE [buffer |-> <<>>, done |-> Complete(st.buffer) /\ st.buffer[1][1].done],
             state, chunk)

(* std::str::from_utf8: no end of the chunk is inside a character.         *)
Utf8(chunk) ==
    /\ ~(chunk[1][1].wide /\ chunk[1][2] = 2)
    /\ ~(Last(chunk)[1].wide /\ Last(chunk)[2] = 1)

-----------------------------------------------------------------------------
Observe(chunk) ==
    usage' = IF tracked THEN update_stream_usage_from_chunk(usage, chunk) ELSE usage

Receive(n) ==
    /\ stream = "open"
    /\ pos' = pos + n
    /\ Observe(SubSeq(body, pos + 1, pos + n))

(* A chunk goes to the client unchanged.                                   *)
DirectChunk ==
    /\ consumer = "direct"
    /\ \E n \in 1..(Len(body) - pos) : Receive(n)
    /\ UNCHANGED <<consumer, tracked, body, reader, stream, client, job, rows, failed>>

(* /v1/responses transforms a chunk; at [DONE] it returns and the tracked  *)
(* stream is dropped without being polled again.                           *)
ResponsesChunk ==
    /\ consumer = "responses"
    /\ \E n \in 1..(Len(body) - pos) :
         LET chunk == SubSeq(body, pos + 1, pos + n) IN
         /\ Utf8(chunk)
         /\ Receive(n)
         /\ reader' = ReadChunk(reader, chunk)
    /\ stream' = IF reader'.done THEN "dropped" ELSE stream
    /\ client' = IF reader'.done THEN "done" ELSE client
    /\ UNCHANGED <<consumer, tracked, body, job, rows, failed>>

(* A chunk that is not UTF-8 by itself ends the response with an error.    *)
ResponsesBadChunk ==
    /\ consumer = "responses"
    /\ \E n \in 1..(Len(body) - pos) :
         ~Utf8(SubSeq(body, pos + 1, pos + n)) /\ Receive(n)
    /\ stream' = "dropped"
    /\ client' = "error"
    /\ UNCHANGED <<consumer, tracked, body, reader, job, rows, failed>>

(* The provider's connection fails: the error item aborts the response.    *)
StreamFails ==
    /\ consumer # "json"
    /\ stream = "open"
    /\ stream' = "dropped"
    /\ client' = "error"
    /\ failed' = TRUE
    /\ UNCHANGED <<consumer, tracked, body, pos, usage, reader, job, rows>>

(* The provider's stream is over: the chained future looks at the rest of  *)
(* the buffer and spawns the insert; /v1/responses drains its own buffer.  *)
StreamEnds ==
    /\ consumer # "json"
    /\ stream = "open"
    /\ pos = Len(body)
    /\ stream' = "ended"
    /\ usage' = finalize_stream_usage(usage)
    /\ job' = IF tracked THEN persist(usage'.snapshot) ELSE None
    /\ client' = IF Complete(reader.buffer) /\ reader.buffer[1][1].done THEN "done" ELSE "closed"
    /\ UNCHANGED <<consumer, tracked, body, pos, reader, rows, failed>>

(* extract_usage_metric_snapshot and persist_non_streaming_usage.          *)
JsonResponse ==
    /\ consumer = "json"
    /\ stream = "open"
    /\ stream' = "ended"
    /\ client' = "closed"
    /\ pos' = Len(body)
    /\ job' = IF tracked THEN persist(apply_fields(usage.snapshot, body[1][1])) ELSE None
    /\ UNCHANGED <<consumer, tracked, body, usage, reader, rows, failed>>

(* The client hangs up and the response body is dropped.                   *)
HangUp ==
    /\ client = "open"
    /\ client' = "gone"
    /\ stream' = "dropped"
    /\ UNCHANGED <<consumer, tracked, body, pos, usage, reader, job, rows, failed>>

(* The spawned task inserts the row; an error is only logged.              *)
InsertUsage ==
    /\ job # None
    /\ \/ rows' = Append(rows, job) /\ UNCHANGED failed
       \/ failed' = TRUE /\ UNCHANGED rows
    /\ job' = None
    /\ UNCHANGED <<consumer, tracked, body, pos, usage, reader, stream, client>>

Poll == DirectChunk \/ ResponsesChunk \/ ResponsesBadChunk \/ StreamEnds \/ JsonResponse

UsageNext == Poll \/ StreamFails \/ HangUp \/ InsertUsage

(* The server polls a response body it has, and the runtime runs the       *)
(* spawned task.                                                           *)
UsageSpec == UsageInit /\ [][UsageNext]_usageVars /\ WF_usageVars(Poll) /\ WF_usageVars(InsertUsage)

-----------------------------------------------------------------------------
(* Positions of body where a complete line with counters ends, of those    *)
(* that have them at the top.                                              *)
Counted(field) ==
    {i \in DOMAIN body : body[i][2] = 2 /\ ~Silent(body[i][1]) /\ body[i][1][field] # None}

(* The counter the provider reported last at the top of a line.            *)
LastAtTop(field) ==
    IF Counted(field) = {} THEN 0
    ELSE body[CHOOSE i \in Counted(field) : \A j \in Counted(field) : j <= i][1][field]

(* What is recorded is what the provider reported in usage objects at the  *)
(* top of its lines, however the body was cut into chunks: the last value  *)
(* of each counter over the whole lines, within the columns' range, and at *)
(* most one row per response.                                              *)
TopLevelRecorded ==
    /\ Len(rows) + (IF job = None THEN 0 ELSE 1) <= 1
    /\ \A row \in ToSet(rows) \cup ({job} \ {None}) :
         /\ row = [input |-> LastAtTop("input"), output |-> LastAtTop("output")]
         /\ has_usage(row)

(* There is something to record.                                           *)
Recordable ==
    /\ tracked
    /\ {LastAtTop("input"), LastAtTop("output")} \subseteq 0..MaxI32
    /\ {LastAtTop("input"), LastAtTop("output")} # {0}

(* A stream polled to its end, and a JSON response, get their row, unless  *)
(* the insert fails: the chained future of wrap_stream_with_usage_metrics  *)
(* runs, a last line without a newline counts, and the spawned task does.  *)
EndedIsRecorded ==
    stream = "ended" /\ Recordable ~> rows # <<>> \/ failed
=============================================================================
