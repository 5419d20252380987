----------------------------- MODULE MCStorage ------------------------------
(***************************************************************************)
(* The database's schema, the configuration and the guardrails, each on    *)
(* its own: a behaviour is one of the three.                               *)
(***************************************************************************)
EXTENDS Migrations, Guardrails

CONSTANTS
    Second,      \* the administrator who only turns Google on and off
    Parts        \* the parts to check

VARIABLE part

stores == <<schema, config, guardrails, part>>

LoginToggles == {"auth_google_enabled", "auth_password_enabled"}

(* Two fields at a time of the login's, and the others one by one.         *)
FirstRequests ==
    {f \in Requests(2) : /\ DOMAIN f \subseteq Keys \ {"guardrails_enabled"}
                         /\ \/ Cardinality(DOMAIN f) = 1
                            \/ DOMAIN f \subseteq LoginToggles \cup GoogleKeys}
SecondRequests == {f \in Requests(1) : DOMAIN f = {"auth_google_enabled"}}

ConfigRequests(a) == IF a = Second THEN SecondRequests ELSE FirstRequests

FlagRequests(a) ==
    IF a = Second THEN {} ELSE {[k \in {"guardrails_enabled"} |-> "true"]}

Init ==
    /\ part \in Parts
    /\ SchemaInit
    /\ GuardrailsInit
    /\ part # "guardrails" => links = {}
    /\ part # "config" => setup /\ hasKey

Next ==
    \/ part = "schema" /\ SchemaNext /\ UNCHANGED <<config, guardrails, part>>
    \/ part = "config" /\ ConfigNext(ConfigRequests) /\ UNCHANGED <<schema, guardrails, part>>
    \/ part = "guardrails" /\ GuardrailsNext(FlagRequests) /\ UNCHANGED <<schema, part>>

Spec == Init /\ [][Next]_stores
=============================================================================
