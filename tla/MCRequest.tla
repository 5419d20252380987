----------------------------- MODULE MCRequest ------------------------------
(***************************************************************************)
(* TLC instance of what a request needs before it is sent and leaves       *)
(* behind: the gateway's own access token, and the record of the tokens    *)
(* the provider counted.  They share no state; part says which one a       *)
(* behaviour is about.                                                     *)
(***************************************************************************)
EXTENDS AuthManager, UsageStream

CONSTANT Parts

VARIABLE part

NoBody == consumer = "direct" /\ tracked = FALSE /\ body = <<>>

MCInit ==
    /\ part \in Parts
    /\ \/ part = "auth" /\ Init /\ NoBody /\ UsageInit
       \/ part = "usage" /\ Init /\ db_token = None /\ UsageInit

MCNext ==
    \/ part = "auth" /\ Next /\ UNCHANGED <<part, usageVars>>
    \/ part = "usage" /\ UsageNext /\ UNCHANGED <<part, vars>>

(* Each part under the fairness of its own specification.                  *)
MCSpec ==
    /\ MCInit
    /\ [][MCNext]_<<part, vars, usageVars>>
    /\ \A r \in Callers : WF_vars(part = "auth" /\ Step(r))
    /\ WF_usageVars(part = "usage" /\ Poll)
    /\ WF_usageVars(part = "usage" /\ InsertUsage)

(* Lines: a chunk of content with a multi-byte character, [DONE], counters *)
(* in one line, counters spread over two, counters nested in a message (as *)
(* Anthropic starts a stream), and counters that are negative or too large.*)
Data(input, output) ==
    [done |-> FALSE, wide |-> FALSE, nested |-> FALSE, input |-> input, output |-> output]
MessageStart == [Data(2, 1) EXCEPT !.nested = TRUE]
Content == [Data(None, None) EXCEPT !.wide = TRUE]
Done == [Data(None, None) EXCEPT !.done = TRUE]

MCLines == {Content, Done, Data(2, 1), Data(1, None), Data(None, 3),
            MessageStart, Data(-1, 1), Data(0, MaxI32 + 1), Data(0, 0)}
=============================================================================
