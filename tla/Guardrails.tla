----------------------------- MODULE Guardrails -----------------------------
(***************************************************************************)
(* The guardrails (guardrails/): the tables of profiles and rules, the     *)
(* handlers that change them, and the engine, which checks requests        *)
(* against a snapshot of the tables that each handler reloads.             *)
(*                                                                         *)
(* Whether a rule's CEL expression and its sampling let it fire, and what  *)
(* Bedrock answers, is free.                                               *)
(***************************************************************************)
EXTENDS Configuration

CONSTANTS
    Profiles,
    Rules,
    MaxEdits,    \* bound on the handlers that run
    RuleKinds    \* what a rule may be set to: "off", "input", "output", "both"

ASSUME GuardrailsAssumption == RuleKinds \subseteq {"off", "input", "output", "both"}

VARIABLES
    profiles,    \* table guardrail_profiles: "on" or "off", "none" without a row
    rules,       \* table guardrail_rules: what an enabled rule applies to
    links,       \* table guardrail_rule_profiles
    engine,      \* GuardrailsEngine.config
    edit,        \* the handler each administrator is in
    raced,       \* history: the last handlers overlapped, or one failed half-way
    booting,     \* the engine is not there yet
    edits        \* handlers so far

guardrails == <<profiles, rules, links, engine, edit, raced, booting, edits>>

NoEdit == [pc |-> "idle", rule |-> "none", todo |-> {}, alone |-> TRUE,
           flag |-> FALSE, profiles |-> <<>>, rules |-> <<>>]

Flag == memory["guardrails_enabled"] = "true"

-----------------------------------------------------------------------------
(* Every handler starts with its first write and goes on to reload_engine; *)
(* a rule's also replaces the rule's links, one statement at a time.       *)
Begin(a, pc, r, ps) ==
    /\ ~booting /\ edits < MaxEdits
    /\ edits' = edits + 1
    /\ edit[a].pc = "idle"
    /\ LET alone == \A b \in Admins \ {a} : edit[b].pc = "idle"
       IN /\ edit' = [b \in Admins |->
                IF b = a THEN [NoEdit EXCEPT !.pc = pc, !.rule = r, !.todo = ps, !.alone = alone]
                ELSE [edit[b] EXCEPT !.alone = FALSE]]
          /\ raced' = (raced \/ ~alone)
    /\ UNCHANGED <<engine, booting>>
    /\ UNCHANGED config

create_profile(a, p) ==
    /\ profiles[p] = "none"
    /\ \E on \in {"on", "off"} : profiles' = [profiles EXCEPT ![p] = on]
    /\ Begin(a, "reload", "none", {})
    /\ UNCHANGED <<rules, links>>

update_profile(a, p) ==
    /\ profiles[p] # "none"
    /\ \E on \in {"on", "off"} : profiles' = [profiles EXCEPT ![p] = on]
    /\ Begin(a, "reload", "none", {})
    /\ UNCHANGED <<rules, links>>

(* Slip: the handler returns without the reload.                           *)
delete_profile_unloaded(a, p) ==
    /\ profiles[p] # "none"
    /\ profiles' = [profiles EXCEPT ![p] = "none"]
    /\ links' = {l \in links : l[2] # p}
    /\ Begin(a, "idle", "none", {})
    /\ UNCHANGED rules

(* The links of a deleted row go with it (ON DELETE CASCADE).              *)
delete_profile(a, p) ==
    /\ profiles[p] # "none"
    /\ profiles' = [profiles EXCEPT ![p] = "none"]
    /\ links' = {l \in links : l[2] # p}
    /\ Begin(a, "reload", "none", {})
    /\ UNCHANGED rules

create_rule(a, r, kind, ps) ==
    /\ rules[r] = "none"
    /\ rules' = [rules EXCEPT ![r] = kind]
    /\ Begin(a, IF ps = {} THEN "reload" ELSE "link", r, ps)
    /\ UNCHANGED <<profiles, links>>

update_rule(a, r, kind, ps) ==
    /\ rules[r] # "none"
    /\ rules' = [rules EXCEPT ![r] = kind]
    /\ Begin(a, "clear", r, ps)
    /\ UNCHANGED <<profiles, links>>

delete_rule(a, r) ==
    /\ rules[r] # "none"
    /\ rules' = [rules EXCEPT ![r] = "none"]
    /\ links' = {l \in links : l[1] # r}
    /\ Begin(a, "reload", "none", {})
    /\ UNCHANGED profiles

ClearLinks(a) ==
    /\ edit[a].pc = "clear"
    /\ links' = {l \in links : l[1] # edit[a].rule}
    /\ edit' = [edit EXCEPT ![a].pc = IF edit[a].todo = {} THEN "reload" ELSE "link"]
    /\ UNCHANGED <<profiles, rules, engine, raced, booting, edits>>
    /\ UNCHANGED config

(* A link to a row that is gone breaks the foreign key.                    *)
LinkProfile(a, p) ==
    /\ edit[a].pc = "link" /\ p \in edit[a].todo
    /\ rules[edit[a].rule] # "none" /\ profiles[p] # "none"
    /\ links' = links \cup {<<edit[a].rule, p>>}
    /\ edit' = [edit EXCEPT ![a].todo = @ \ {p},
                            ![a].pc = IF edit[a].todo = {p} THEN "reload" ELSE "link"]
    /\ UNCHANGED <<profiles, rules, engine, raced, booting, edits>>
    /\ UNCHANGED config

(* An error after the first statement: the handler returns, the engine     *)
(* keeps what it had.  So does an error of the reload itself.              *)
EditFails(a) ==
    /\ edit[a].pc # "idle"
    /\ edit' = [edit EXCEPT ![a] = NoEdit]
    /\ raced' = TRUE
    /\ UNCHANGED <<profiles, rules, links, engine, booting, edits>>
    /\ UNCHANGED config

(* reload_engine: the flag of the configuration, then load_config: the     *)
(* profiles, the rules and the links, in three queries.                    *)
ReadFlag(a) ==
    /\ edit[a].pc = "reload"
    /\ edit' = [edit EXCEPT ![a].pc = "rules", ![a].flag = Flag, ![a].profiles = profiles]
    /\ UNCHANGED <<profiles, rules, links, engine, raced, booting, edits>>
    /\ UNCHANGED config

ReadRules(a) ==
    /\ edit[a].pc = "rules"
    /\ edit' = [edit EXCEPT ![a].pc = "store", ![a].rules = rules]
    /\ UNCHANGED <<profiles, rules, links, engine, raced, booting, edits>>
    /\ UNCHANGED config

(* A link of a rule that was not listed is dropped.                        *)
Loaded(flag, ps, rs, ls) ==
    [enabled |-> flag, profiles |-> ps, rules |-> rs,
     links |-> {l \in ls : rs[l[1]] # "none"}]

StoreSnapshot(a) ==
    /\ edit[a].pc = "store"
    /\ engine' = Loaded(edit[a].flag, edit[a].profiles, edit[a].rules, links)
    /\ raced' = ~edit[a].alone
    /\ edit' = [edit EXCEPT ![a] = NoEdit]
    /\ UNCHANGED <<profiles, rules, links, booting, edits>>
    /\ UNCHANGED config

(* GuardrailsEngine::new, when the gateway starts.                         *)
StartEngine ==
    /\ booting
    /\ engine' = Loaded(Flag, profiles, rules, links)
    /\ booting' = FALSE
    /\ raced' = FALSE
    /\ UNCHANGED <<profiles, rules, links, edit, edits>>
    /\ UNCHANGED config

(* A step of the configuration; a restart takes the handlers with it.      *)
ConfigStep(RequestsOf(_)) ==
    /\ ~booting
    /\ ConfigNext(RequestsOf)
    /\ IF boots' # boots
       THEN booting' = TRUE /\ edit' = [a \in Admins |-> NoEdit]
       ELSE UNCHANGED <<booting, edit>>
    /\ UNCHANGED <<profiles, rules, links, engine, raced, edits>>

GuardrailsNext(RequestsOf(_)) ==
    \/ ConfigStep(RequestsOf)
    \/ StartEngine
    \/ \E a \in Admins :
          \/ \E p \in Profiles : create_profile(a, p) \/ update_profile(a, p)
                                 \/ delete_profile(a, p) \/ LinkProfile(a, p)
          \/ \E r \in Rules, ps \in SUBSET Profiles, kind \in RuleKinds :
                create_rule(a, r, kind, ps) \/ update_rule(a, r, kind, ps)
          \/ \E r \in Rules : delete_rule(a, r)
          \/ ClearLinks(a) \/ EditFails(a) \/ ReadFlag(a) \/ ReadRules(a) \/ StoreSnapshot(a)

(* A start on empty tables, or on what earlier runs left there.            *)
GuardrailsInit ==
    /\ ConfigInit
    /\ \/ /\ profiles = [p \in Profiles |-> "none"]
          /\ rules = [r \in Rules |-> "none"]
          /\ links = {}
       \/ /\ profiles = [p \in Profiles |-> "on"]
          /\ rules \in [Rules -> RuleKinds]
          /\ links = Rules \X Profiles
    /\ engine = Loaded(Flag, profiles, rules, links)
    /\ edit = [a \in Admins |-> NoEdit]
    /\ raced = FALSE
    /\ booting = FALSE
    /\ edits = 0

GuardrailsSpec == GuardrailsInit /\ [][GuardrailsNext(AnyRequest)]_<<config, guardrails>>

-----------------------------------------------------------------------------
(* The check of a request.  Bedrock answers "none", "intervened", or with  *)
(* an error or too late; parse_response never makes another action.        *)
Answers == {"none", "intervened", "error", "timeout"}
parse_response(answer) == answer \in {"none", "intervened"}

Applies(kind, direction) == kind = "both" \/ kind = direction

(* GuardrailsEngine::validate and run_*_guardrail_check: one intervention  *)
(* blocks; calls that fail are left out, so a check without answers        *)
(* passes.                                                                 *)
Verdict(snapshot, direction, fires, answers) ==
    LET asked == {p \in Profiles : snapshot.profiles[p] = "on" /\ \E r \in fires :
                     Applies(snapshot.rules[r], direction) /\ <<r, p>> \in snapshot.links}
        results == {p \in asked : parse_response(answers[p])}
    IN IF snapshot.enabled /\ \E p \in results : answers[p] = "intervened"
       THEN "blocked" ELSE "passed"

(* The routes ask the configuration first.                                 *)
Checked(direction, fires, answers) ==
    IF Flag THEN Verdict(engine, direction, fires, answers) ELSE "passed"

Quiet == ~booting /\ Resting /\ \A a \in Admins : edit[a].pc = "idle"

(* When the handlers are through and none of the last ones ran beside      *)
(* another or failed, the engine checks against the tables as they are:    *)
(* the reload comes after every statement of its handler, and three        *)
(* queries of a handler that runs alone see one state.  Two reloads at     *)
(* once can be stored in the other order and leave the older snapshot.     *)
EngineMirrorsTables ==
    Quiet /\ ~raced =>
        /\ engine.profiles = profiles /\ engine.rules = rules /\ engine.links = links

(* Then, with the guardrails on in the configuration and in the engine,    *)
(* content is blocked exactly when a profile that the tables link to a     *)
(* firing rule intervenes: errors and other profiles' answers neither      *)
(* hide an intervention nor make one.                                      *)
InterventionBlocks ==
    Quiet /\ ~raced /\ Flag /\ engine.enabled =>
        \A direction \in {"input", "output"}, answers \in [Profiles -> Answers] :
            Checked(direction, Rules, answers) = "blocked"
            <=> \E l \in links : /\ answers[l[2]] = "intervened"
                                 /\ profiles[l[2]] = "on"
                                 /\ Applies(rules[l[1]], direction)

(* What is enforced is what the tables say.                                *)
GuardrailsEnforced == EngineMirrorsTables /\ InterventionBlocks
=============================================================================
