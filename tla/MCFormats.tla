------------------------------ MODULE MCFormats -----------------------------
(***************************************************************************)
(* TLC instance of what happens to messages on their way through the       *)
(* gateway: the streamed answer on every route, the extraction of objects  *)
(* from the Kiro event stream, the conversion of requests for Kiro and for *)
(* the direct providers, and the notices about answers cut short.  They    *)
(* share no state; part says which one a behaviour is about.               *)
(***************************************************************************)
EXTENDS StreamFormats, KiroFrames, KiroPayload, RequestFormats, TruncationRecovery

CONSTANT Parts

VARIABLE part

vars == <<part, formatVars, frameVars, payloadVars, requestVars, recoveryVars>>

NoFrames == wire = <<>> /\ whole = <<>> /\ pos = 0 /\ parser = [buffer |-> <<>>, events |-> <<>>] /\ torn = {}
NoStream == FormatInit /\ route = CHOOSE r \in Routes : TRUE
NoPayload == request = None /\ payload = None
NoRequest == path = None /\ turns = <<>> /\ sent = None /\ spoken = None

Init ==
    /\ part \in Parts
    /\ \/ part = "stream" /\ FormatInit /\ NoFrames /\ NoPayload /\ NoRequest /\ RecoveryInit
       \/ part = "frames" /\ NoStream /\ FrameInit /\ NoPayload /\ NoRequest /\ RecoveryInit
       \/ part = "kiro" /\ NoStream /\ NoFrames /\ PayloadInit /\ NoRequest /\ RecoveryInit
       \/ part = "direct" /\ NoStream /\ NoFrames /\ NoPayload /\ RequestInit /\ RecoveryInit
       \/ part = "recovery" /\ NoStream /\ NoFrames /\ NoPayload /\ NoRequest /\ RecoveryInit

Next ==
    \/ part = "stream" /\ FormatNext /\ UNCHANGED <<part, frameVars, payloadVars, requestVars, recoveryVars>>
    \/ part = "frames" /\ FrameNext /\ UNCHANGED <<part, formatVars, payloadVars, requestVars, recoveryVars>>
    \/ part = "kiro" /\ PayloadNext /\ UNCHANGED <<part, formatVars, frameVars, requestVars, recoveryVars>>
    \/ part = "direct" /\ RequestNext /\ UNCHANGED <<part, formatVars, frameVars, payloadVars, recoveryVars>>
    \/ part = "recovery" /\ RecoveryNext /\ UNCHANGED <<part, formatVars, frameVars, payloadVars, requestVars>>

Spec == Init /\ [][Next]_vars

MCRoutes == ({"openai", "anthropic", "kiro"} \X {"responses"}) \cup ({"openai", "kiro"} \X {"anthropic"})

MCObjects ==
    {<<"open", "key", "quote", "x", "quote", "close">>,
     <<"open", "key", "quote", "close", "back", "quote", "open", "quote", "close">>,
     <<"open", "key", "open", "x", "close", "close">>,
     <<"open", "key", "quote", "back", "back", "quote", "close">>,
     <<"open", "key", "open", "key", "quote", "quote", "close", "close">>,
     <<"open", "key", "quote", "lead", "trail", "quote", "close">>}
MCTexts == {<<"a", "b">>, <<"a", "b", "c">>, <<"d">>}
MCCallRuns == {<<"c1">>, <<"c1", "c2">>}
MCFraming == {<<>>, <<"quote">>, <<"close">>, <<"open">>, <<"x", "back">>}
=============================================================================
