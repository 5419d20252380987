------------------------------- MODULE MCFlows ------------------------------
(***************************************************************************)
(* TLC instance of what reaches the gateway from the providers: the relay  *)
(* with a database, the relay with the proxy's token file, the Copilot     *)
(* device flow, and the model registry.  They share no state; part says    *)
(* which one a behaviour is about.                                         *)
(***************************************************************************)
EXTENDS ProxyTokens, CopilotTokens, ModelCatalog, TLC

CONSTANTS anthropic, openai, u1, u2, m1, m2, Parts

VARIABLE part

vars == <<part, relay, tokens, copilot, catalog>>

Init == part \in Parts /\ TokensInit /\ CopilotInit /\ CatalogInit

Next ==
    \/ part = "proxy" /\ TokensNext /\ UNCHANGED <<part, copilot, catalog>>
    \/ part = "relay" /\ RelayNext /\ UNCHANGED <<part, tokens, copilot, catalog>>
    \/ part = "copilot" /\ CopilotNext /\ UNCHANGED <<part, relay, tokens, catalog>>
    \/ part = "catalog" /\ CatalogNext /\ UNCHANGED <<part, relay, tokens, copilot>>

Spec == Init /\ [][Next]_vars

(* The handlers of the registry occur nowhere but in its part, and are     *)
(* alike there.                                                            *)
Handlers == Permutations(Actors)

MCUsers == {u1, u2}
MCRelayProviders == {anthropic, openai}
MCCopilotUsers == {u1, u2}
MCProviderOf == (m1 :> "anthropic") @@ (m2 :> "copilot")
=============================================================================
