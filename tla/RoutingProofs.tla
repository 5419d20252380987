---------------------------- MODULE RoutingProofs ---------------------------
(***************************************************************************)
(* Proofs about where a request is sent.                                   *)
(*                                                                         *)
(* Routing under the provider switch, for any number of requests,          *)
(* administrators and providers: a toggle and the requests that read the   *)
(* set of disabled providers keep out of each other's way, and a request   *)
(* is only sent to a provider that was enabled while it ran.               *)
(*                                                                         *)
(* Account failover, for any accounts, priorities, attempts and concurrent *)
(* requests: the choice is always an account that was found, it is the     *)
(* best available one, and no attempt uses an account that was gone during *)
(* all of its resolution.                                                  *)
(***************************************************************************)
EXTENDS ProviderRouting, AccountFailover, FiniteSetTheorems, TLAPS

-----------------------------------------------------------------------------
(* The provider switch.                                                    *)

(* What is in line is known by its owner and its kind.                     *)
LEMMA TicketFacts ==
    /\ \A r \in Incoming : /\ Outer(r) \in Ticket /\ Inner(r) \in Ticket
                           /\ Outer(r)[2] = "outer" /\ Inner(r)[2] = "inner"
    /\ \A a \in Admins : Write(a) \in Ticket /\ Write(a)[2] = "write"
    /\ \A r, s \in Incoming : /\ Outer(r) = Outer(s) => r = s
                              /\ Inner(r) = Inner(s) => r = s
                              /\ Outer(r) # Inner(s)
    /\ \A a, b \in Admins : Write(a) = Write(b) => a = b
    /\ \A a \in Admins, r \in Incoming :
         Write(a) # Outer(r) /\ Write(a) # Inner(r)
    /\ \A t \in Ticket : \/ \E r \in Incoming : t = Outer(r) \/ t = Inner(r)
                         \/ \E a \in Admins : t = Write(a)
    /\ \A t \in Ticket : t[2] = "write" => \E a \in Admins : t = Write(a)
BY DEF Ticket, Outer, Inner, Write

(* A toggle is a record, and its provider is one.                          *)
LEMMA ToggleFacts ==
    \A x \in Toggle :
        /\ x.provider \in Providers /\ x.enabled \in BOOLEAN
        /\ \A s \in {"set_db", "stored", "wait"} :
             [x EXCEPT !.stage = s] \in Toggle /\ [x EXCEPT !.stage = s].stage = s
BY DEF Toggle

(* The balancer's candidates, and the pick from credentials, are enabled.  *)
LEMMA CandidatesEnabled ==
    ASSUME RoutingTypeOK, NEW r \in Incoming,
           NEW accounts \in SUBSET Providers, NEW pool \in SUBSET Providers,
           NEW priority \in Priorities
    PROVE  Candidates(r, accounts, pool, priority) \subseteq Providers \ disabled
BY DEF Candidates, RoutingTypeOK

LEMMA PickFromCredentials ==
    ASSUME NEW creds, NEW priority \in Priorities
    PROVE  pick_best_provider(creds, priority) \in {"kiro"} \cup (creds \cap Providers)
BY ProvidersAssumption DEF pick_best_provider

(* Asking for a guard, or giving some back and asking again, leaves the    *)
(* line a line of tickets.                                                 *)
LEMMA LockTypes ==
    ASSUME RoutingTypeOK, NEW t \in Ticket
    PROVE  /\ Writers(line) \subseteq Ticket
           /\ AskRead(t) \/ AskWrite(t) =>
                line' \subseteq Ticket /\ ahead' \in [Ticket -> SUBSET Ticket]
<1>1. Writers(line) \subseteq line
  BY DEF Writers
<1>2. Writers(line) \in SUBSET Ticket /\ line \in SUBSET Ticket
  BY <1>1 DEF RoutingTypeOK
<1>3. AskRead(t) => line' \subseteq Ticket /\ ahead' \in [Ticket -> SUBSET Ticket]
  BY <1>2 DEF RoutingTypeOK, AskRead
<1>4. AskWrite(t) => line' \subseteq Ticket /\ ahead' \in [Ticket -> SUBSET Ticket]
  BY <1>2 DEF RoutingTypeOK, AskWrite
<1> QED
  BY <1>2, <1>3, <1>4

-----------------------------------------------------------------------------
(* Every step of a request, of an administrator and of the environment     *)
(* keeps the types.                                                        *)
LEMMA RoutingTypeStep == RoutingTypeOK /\ [RoutingNext]_routingVars => RoutingTypeOK'
<1> SUFFICES ASSUME RoutingTypeOK, [RoutingNext]_routingVars PROVE RoutingTypeOK'
  OBVIOUS
<1> USE TicketFacts, ToggleFacts, LockTypes, ProvidersAssumption DEF RoutingTypeOK, Stages
<1>1. ASSUME NEW r \in Incoming, Arrive(r) PROVE RoutingTypeOK'
  <2>1. PICK p \in Providers, explicit \in BOOLEAN :
          /\ target' = [target EXCEPT ![r] = [native |-> p, explicit |-> explicit]]
          /\ Goto(r, IF explicit THEN "validate" ELSE "balance_wait")
    BY <1>1 DEF Arrive
  <2> QED
    BY <1>1, <2>1 DEF Arrive, Goto, settings
<1>2. CASE \E r \in Incoming : ValidateRefuses(r)
  BY <1>2 DEF ValidateRefuses, Drop, Goto, settings
<1>3. CASE \E r \in Incoming : ValidateAccepts(r)
  BY <1>3 DEF ValidateAccepts, Goto, settings
<1>4. CASE \E r \in Incoming : BalanceStarts(r)
  BY <1>4 DEF BalanceStarts, Goto, settings, lock
<1>5. ASSUME NEW r \in Incoming, BalancePicks(r) PROVE RoutingTypeOK'
  <2>1. PICK p \in Providers : Choose(r, p)
    BY <1>5, CandidatesEnabled DEF BalancePicks
  <2> QED
    BY <1>5, <2>1 DEF BalancePicks, Choose, Goto, Drop, settings
<1>6. CASE \E r \in Incoming : BalanceExplicit(r)
  BY <1>6 DEF BalanceExplicit, Drop, Goto, settings
<1>7. CASE \E r \in Incoming : BalanceFallsBack(r)
  BY <1>7 DEF BalanceFallsBack, Goto, settings
<1>8. CASE \E r \in Incoming : FallbackStarts(r)
  BY <1>8 DEF FallbackStarts, Goto, settings, lock
<1>9. ASSUME NEW r \in Incoming, FallbackHit(r) PROVE RoutingTypeOK'
  <2>1. PICK p \in Providers \cup {"kiro"} : Choose(r, p)
    BY <1>9, PickFromCredentials DEF FallbackHit
  <2> QED
    BY <1>9, <2>1 DEF FallbackHit, Choose, Goto, Drop, settings
<1>10. CASE \E r \in Incoming : FallbackMiss(r)
  BY <1>10 DEF FallbackMiss, Goto, settings
<1>11. CASE \E r \in Incoming : LoadStarts(r)
  BY <1>11 DEF LoadStarts, Goto, settings, lock
<1>12. ASSUME NEW r \in Incoming, LoadEnds(r) PROVE RoutingTypeOK'
  <2>1. PICK p \in Providers \cup {"kiro"} : Choose(r, p)
    BY <1>12, PickFromCredentials DEF LoadEnds
  <2>2. PICK creds \in SUBSET {Native, Copilot} : cache' = creds
    BY <1>12 DEF LoadEnds
  <2> QED
    BY <1>12, <2>1, <2>2 DEF LoadEnds, Choose, Goto, Drop, settings
<1>13. ASSUME NEW a \in Admins, ToggleBegins(a) PROVE RoutingTypeOK'
  <2>1. PICK x \in Toggle : admin' = [admin EXCEPT ![a] = x]
    BY <1>13 DEF ToggleBegins, Toggle
  <2> QED
    BY <1>13, <2>1 DEF ToggleBegins, lock
<1>14. ASSUME NEW a \in Admins, ToggleDb(a) PROVE RoutingTypeOK'
  <2>1. admin[a] \in Toggle
    BY <1>14 DEF ToggleDb, AtStage
  <2>2. db_disabled' \subseteq Providers
    BY <1>14, <2>1 DEF ToggleDb
  <2>3. admin' = [admin EXCEPT ![a] = [admin[a] EXCEPT !.stage = "stored"]]
    BY <1>14 DEF ToggleDb
  <2>4. admin' \in [Admins -> Toggle \cup {None}]
    BY <2>1, <2>3
  <2>5. UNCHANGED <<disabled, cache, lock, at, target, choice, enabled_once>>
    BY <1>14 DEF ToggleDb
  <2> QED
    BY <2>2, <2>4, <2>5 DEF lock
<1>15. ASSUME NEW a \in Admins, ToggleAsks(a) PROVE RoutingTypeOK'
  <2>1. admin[a] \in Toggle
    BY <1>15 DEF ToggleAsks, AtStage
  <2>2. admin' = [admin EXCEPT ![a] = [admin[a] EXCEPT !.stage = "wait"]]
    BY <1>15 DEF ToggleAsks
  <2>3. admin' \in [Admins -> Toggle \cup {None}]
    BY <2>1, <2>2
  <2>4. /\ AskWrite(Write(a))
        /\ UNCHANGED <<disabled, db_disabled, cache, at, target, choice, enabled_once>>
    BY <1>15 DEF ToggleAsks
  <2> QED
    BY <2>3, <2>4
<1>16. CASE \E a \in Admins : ToggleFails(a)
  BY <1>16 DEF ToggleFails, AtStage, lock
<1>17. ASSUME NEW a \in Admins, ToggleMemory(a) PROVE RoutingTypeOK'
  <2>1. admin[a] \in Toggle
    BY <1>17 DEF ToggleMemory, AtStage
  <2>2. disabled' \subseteq Providers
    BY <1>17, <2>1 DEF ToggleMemory
  <2> QED
    BY <1>17, <2>2 DEF ToggleMemory, Drop
<1>18. CASE CacheExpires
  BY <1>18 DEF CacheExpires, settings, lock
<1>19. CASE Restart
  BY <1>19 DEF Restart
<1>20. CASE UNCHANGED routingVars
  BY <1>20 DEF routingVars
<1> QED
  BY <1>1, <1>2, <1>3, <1>4, <1>5, <1>6, <1>7, <1>8, <1>9, <1>10, <1>11,
     <1>12, <1>13, <1>14, <1>15, <1>16, <1>17, <1>18, <1>19, <1>20
     DEF RoutingNext, RoutingStep, ToggleStep

LEMMA RoutingInitTypes == RoutingInit => RoutingTypeOK
BY ProvidersAssumption DEF RoutingInit, RoutingTypeOK, Stages

(* The state of routing and of the lock always has its declared types.     *)
THEOREM RoutingTypeCorrect == RoutingSpec => []RoutingTypeOK
BY RoutingInitTypes, RoutingTypeStep, PTL DEF RoutingSpec

-----------------------------------------------------------------------------
(* Stages at which a request reads the disabled set under its first guard. *)
Reading == {"balance", "fallback", "load_wait", "load"}

(* Who is in line follows from the stages; a toggle is ahead of or behind  *)
(* every other ticket in line; a reader has nobody ahead of it.            *)
LockInv ==
    /\ \A r \in Incoming :
         /\ Outer(r) \in line <=> at[r] \notin {"idle", "done"}
         /\ Inner(r) \in line <=> at[r] \in {"load_wait", "load"}
         /\ at[r] \in Reading => ahead[Outer(r)] = {}
         /\ at[r] = "load" => ahead[Inner(r)] = {}
    /\ \A a \in Admins :
         /\ Write(a) \in line <=> AtStage(a, "wait")
         /\ Write(a) \in line =>
              \A t \in line : t # Write(a) => t \in ahead[Write(a)] \/ Write(a) \in ahead[t]

(* The set a request reads does not change under its guard, nor under that *)
(* of another toggle.                                                      *)
ToggleExcludes ==
    \A a \in Admins : Granted(Write(a)) =>
        /\ \A r \in Incoming : at[r] \notin Reading
        /\ \A b \in Admins : Granted(Write(b)) => a = b

(* What is enabled while a request runs is remembered as such.             *)
EnabledInv ==
    \A r \in Incoming :
        at[r] \notin {"idle", "done"} => Providers \ disabled \subseteq enabled_once[r]

(* Joining the line puts a toggle behind everybody and a reader behind the *)
(* toggles; whoever gives a guard up leaves the others in their order.     *)
LEMMA LockStep == RoutingTypeOK /\ LockInv /\ [RoutingNext]_routingVars => LockInv'
<1> SUFFICES ASSUME RoutingTypeOK, LockInv, [RoutingNext]_routingVars PROVE LockInv'
  OBVIOUS
<1> USE TicketFacts DEF RoutingTypeOK, LockInv, Stages, Reading
<1>1. CASE \E r \in Incoming : Arrive(r)
  BY <1>1 DEF Arrive, Goto, AskRead, settings, AtStage, Granted, Writers
<1>2. CASE \E r \in Incoming : ValidateRefuses(r)
  BY <1>2 DEF ValidateRefuses, Drop, Goto, settings, AtStage, Granted, Writers
<1>3. CASE \E r \in Incoming : ValidateAccepts(r)
  BY <1>3 DEF ValidateAccepts, Goto, settings, AtStage, Granted, Writers
<1>4. CASE \E r \in Incoming : BalanceStarts(r)
  BY <1>4 DEF BalanceStarts, Goto, settings, lock, AtStage, Granted, Writers
<1>5. CASE \E r \in Incoming : BalancePicks(r)
  BY <1>5 DEF BalancePicks, Choose, Goto, Drop, settings, AtStage, Granted, Writers
<1>6. CASE \E r \in Incoming : BalanceExplicit(r)
  BY <1>6 DEF BalanceExplicit, Drop, Goto, settings, AtStage, Granted, Writers
<1>7. CASE \E r \in Incoming : BalanceFallsBack(r)
  BY <1>7 DEF BalanceFallsBack, Goto, settings, AtStage, Granted, Writers
<1>8. CASE \E r \in Incoming : FallbackStarts(r)
  BY <1>8 DEF FallbackStarts, Goto, settings, lock, AtStage, Granted, Writers
<1>9. CASE \E r \in Incoming : FallbackHit(r)
  BY <1>9 DEF FallbackHit, Choose, Goto, Drop, settings, AtStage, Granted, Writers
<1>10. CASE \E r \in Incoming : FallbackMiss(r)
  BY <1>10 DEF FallbackMiss, AskRead, Goto, settings, AtStage, Granted, Writers
<1>11. CASE \E r \in Incoming : LoadStarts(r)
  BY <1>11 DEF LoadStarts, Goto, settings, lock, AtStage, Granted, Writers
<1>12. CASE \E r \in Incoming : LoadEnds(r)
  BY <1>12 DEF LoadEnds, Choose, Goto, Drop, settings, AtStage, Granted, Writers
<1>13. CASE \E a \in Admins : ToggleBegins(a)
  BY <1>13 DEF ToggleBegins, lock, AtStage, Granted, Writers
<1>14. CASE \E a \in Admins : ToggleDb(a)
  BY <1>14 DEF ToggleDb, AtStage, lock, AtStage, Granted, Writers
<1>15. ASSUME NEW a \in Admins, ToggleAsks(a) PROVE LockInv'
  <2>1. /\ admin[a] # None /\ admin[a].stage = "stored"
        /\ admin' = [admin EXCEPT ![a] = [admin[a] EXCEPT !.stage = "wait"]]
    BY <1>15 DEF ToggleAsks, AtStage
  <2>2. admin'[a].stage = "wait" /\ admin'[a] # None
    <3>1. admin[a] \in Toggle /\ admin'[a] = [admin[a] EXCEPT !.stage = "wait"]
      BY <2>1
    <3> QED
      BY <3>1, NoneAssumption DEF Toggle
  <2>3. \A b \in Admins : b # a => admin'[b] = admin[b]
    BY <2>1
  <2>4. \A b \in Admins : AtStage(b, "wait")' <=> b = a \/ AtStage(b, "wait")
    BY <2>2, <2>3 DEF AtStage
  <2>5. /\ line' = line \cup {Write(a)}
        /\ ahead' = [ahead EXCEPT ![Write(a)] = line]
        /\ at' = at
    BY <1>15 DEF ToggleAsks, AskWrite
  <2>6. Write(a) \notin line
    BY <2>1 DEF AtStage
  <2> QED
    BY <2>4, <2>5, <2>6
<1>16. CASE \E a \in Admins : ToggleFails(a)
  BY <1>16 DEF ToggleFails, AtStage, lock, AtStage, Granted, Writers
<1>17. CASE \E a \in Admins : ToggleMemory(a)
  BY <1>17 DEF ToggleMemory, AtStage, Drop, AtStage, Granted, Writers
<1>18. CASE CacheExpires
  BY <1>18 DEF CacheExpires, settings, lock, AtStage, Granted, Writers
<1>19. CASE Restart
  BY <1>19 DEF Restart, AtStage, Granted, Writers
<1>20. CASE UNCHANGED routingVars
  BY <1>20 DEF routingVars, AtStage, Granted, Writers
<1> QED
  BY <1>1, <1>2, <1>3, <1>4, <1>5, <1>6, <1>7, <1>8, <1>9, <1>10, <1>11,
     <1>12, <1>13, <1>14, <1>15, <1>16, <1>17, <1>18, <1>19, <1>20
     DEF RoutingNext, RoutingStep, ToggleStep

(* What a step chooses is enabled at that step, and what an administrator  *)
(* enables meanwhile is remembered.                                        *)
LEMMA EnabledStep ==
    RoutingTypeOK /\ EnabledInv /\ ChosenWasEnabled /\ [RoutingNext]_routingVars
        => EnabledInv' /\ ChosenWasEnabled'
<1> SUFFICES ASSUME RoutingTypeOK, EnabledInv, ChosenWasEnabled, [RoutingNext]_routingVars
             PROVE  EnabledInv' /\ ChosenWasEnabled'
  OBVIOUS
<1> USE ProvidersAssumption DEF RoutingTypeOK, EnabledInv, ChosenWasEnabled, Stages
<1>1. CASE \E r \in Incoming : Arrive(r)
  BY <1>1 DEF Arrive, Goto, settings
<1>2. CASE \E r \in Incoming : ValidateRefuses(r)
  BY <1>2 DEF ValidateRefuses, Goto, settings
<1>3. CASE \E r \in Incoming : ValidateAccepts(r)
  BY <1>3 DEF ValidateAccepts, Goto, settings
<1>4. CASE \E r \in Incoming : BalanceStarts(r)
  BY <1>4 DEF BalanceStarts, Goto, settings, lock
<1>5. ASSUME NEW r \in Incoming, BalancePicks(r)
     PROVE  EnabledInv' /\ ChosenWasEnabled'
  <2>1. PICK p \in Providers \ disabled : Choose(r, p)
    BY <1>5, CandidatesEnabled DEF BalancePicks
  <2> QED
    BY <1>5, <2>1 DEF BalancePicks, Choose, Goto, settings
<1>6. CASE \E r \in Incoming : BalanceExplicit(r)
  BY <1>6 DEF BalanceExplicit, Goto, settings
<1>7. CASE \E r \in Incoming : BalanceFallsBack(r)
  BY <1>7 DEF BalanceFallsBack, Goto, settings
<1>8. CASE \E r \in Incoming : FallbackStarts(r)
  BY <1>8 DEF FallbackStarts, Goto, settings, lock
<1>9. ASSUME NEW r \in Incoming, FallbackHit(r)
     PROVE  EnabledInv' /\ ChosenWasEnabled'
  <2>1. PICK priority \in Priorities :
          Choose(r, pick_best_provider(cache \ disabled, priority))
    BY <1>9 DEF FallbackHit
  <2>2. pick_best_provider(cache \ disabled, priority) \in {"kiro"} \cup (Providers \ disabled)
    BY PickFromCredentials
  <2>3. at[r] = "fallback" /\ UNCHANGED <<settings, enabled_once>>
    BY <1>9 DEF FallbackHit
  <2> QED
    BY <2>1, <2>2, <2>3 DEF Choose, Goto, settings
<1>10. CASE \E r \in Incoming : FallbackMiss(r)
  BY <1>10 DEF FallbackMiss, Goto, settings
<1>11. CASE \E r \in Incoming : LoadStarts(r)
  BY <1>11 DEF LoadStarts, Goto, settings, lock
<1>12. ASSUME NEW r \in Incoming, LoadEnds(r)
     PROVE  EnabledInv' /\ ChosenWasEnabled'
  <2>1. PICK p \in {"kiro"} \cup (Providers \ disabled) : Choose(r, p)
    BY <1>12, PickFromCredentials DEF LoadEnds
  <2> QED
    BY <1>12, <2>1 DEF LoadEnds, Choose, Goto, settings
<1>13. CASE \E a \in Admins : ToggleBegins(a)
  BY <1>13 DEF ToggleBegins, lock
<1>14. CASE \E a \in Admins : ToggleDb(a)
  BY <1>14 DEF ToggleDb, AtStage, lock
<1>15. CASE \E a \in Admins : ToggleAsks(a)
  BY <1>15 DEF ToggleAsks, AtStage
<1>16. CASE \E a \in Admins : ToggleFails(a)
  BY <1>16 DEF ToggleFails, AtStage, lock
<1>17. CASE \E a \in Admins : ToggleMemory(a)
  BY <1>17 DEF ToggleMemory, AtStage
<1>18. CASE CacheExpires
  BY <1>18 DEF CacheExpires, settings, lock
<1>19. CASE Restart
  BY <1>19 DEF Restart
<1>20. CASE UNCHANGED routingVars
  BY <1>20 DEF routingVars
<1> QED
  BY <1>1, <1>2, <1>3, <1>4, <1>5, <1>6, <1>7, <1>8, <1>9, <1>10, <1>11,
     <1>12, <1>13, <1>14, <1>15, <1>16, <1>17, <1>18, <1>19, <1>20
     DEF RoutingNext, RoutingStep, ToggleStep

(* A toggle writes the disabled set when no request is reading it and no   *)
(* other toggle writes it, however requests, their second guards, toggles  *)
(* and restarts interleave.                                                *)
THEOREM TogglesExclude == RoutingSpec => []ToggleExcludes
<1>1. RoutingInit => LockInv
  BY TicketFacts DEF RoutingInit, LockInv, Reading, AtStage
<1>2. RoutingTypeOK /\ LockInv => ToggleExcludes
  BY TicketFacts, SMTT(60) DEF RoutingTypeOK, LockInv, ToggleExcludes, Granted, Reading
<1> QED
  BY <1>1, <1>2, RoutingInitTypes, RoutingTypeStep, LockStep, PTL DEF RoutingSpec

(* A provider a request is sent to was enabled at some moment between its  *)
(* arrival and its choice, whichever of balancing, cache hit and load made *)
(* the choice and whatever toggles and restarts happened meanwhile.        *)
THEOREM ChosenEnabled == RoutingSpec => []ChosenWasEnabled
<1>1. RoutingInit => EnabledInv /\ ChosenWasEnabled
  BY ProvidersAssumption DEF RoutingInit, EnabledInv, ChosenWasEnabled
<1> QED
  BY <1>1, RoutingInitTypes, RoutingTypeStep, EnabledStep, PTL DEF RoutingSpec

-----------------------------------------------------------------------------
(* Account failover.                                                       *)

(* A set of numbers has a least one.                                       *)
LEMMA LeastNumber ==
    ASSUME NEW S, S \subseteq Nat, S # {}
    PROVE  \E n \in S : \A m \in S : n <= m
<1>1. PICK n \in S : \A m \in S : <<m, n>> \notin OpToRel(<, Nat)
  BY NatLessThanWellFounded, WFMin
<1>2. \A m \in S : ~(m < n)
  BY <1>1, Zenon DEF OpToRel
<1> QED
  BY <1>2

(* Of finitely many things with a value one has the highest.               *)
LEMMA HighestMember ==
    ASSUME NEW T, IsFiniteSet(T), T # {}, NEW f \in [T -> Nat]
    PROVE  \E a \in T : \A b \in T : f[b] <= f[a]
<1> DEFINE Good(U) == \E a \in U : \A b \in U : f[b] <= f[a]
           Bad == {n \in Nat : \E U \in SUBSET T :
                      U # {} /\ Cardinality(U) = n /\ ~Good(U)}
<1>1. SUFFICES ASSUME Bad # {} PROVE FALSE
  <2>1. Cardinality(T) \in Nat
    BY FS_CardinalityType
  <2> QED
    BY <1>1, <2>1
<1>2. PICK n \in Bad : \A m \in Bad : n <= m
  BY <1>1, LeastNumber
<1>3. PICK U \in SUBSET T : U # {} /\ Cardinality(U) = n /\ ~Good(U)
  BY <1>2
<1>4. PICK x \in U : TRUE
  BY <1>3
<1> DEFINE V == U \ {x}
<1>5. IsFiniteSet(U) /\ Cardinality(V) = n - 1 /\ n - 1 \in Nat
  <2>1. IsFiniteSet(U)
    BY FS_Subset
  <2>2. IsFiniteSet(V) /\ Cardinality(V) = n - 1
    BY <1>3, <1>4, <2>1, FS_RemoveElement
  <2>3. Cardinality(V) \in Nat
    BY <2>2, FS_CardinalityType
  <2> QED
    BY <2>1, <2>2, <2>3
<1>6. CASE V = {}
  BY <1>3, <1>4, <1>6
<1>7. CASE V # {}
  <2>1. Good(V)
    <3>1. n - 1 \notin Bad
      BY <1>2, <1>5
    <3> QED
      BY <1>5, <1>7, <3>1
  <2>2. PICK a \in V : \A b \in V : f[b] <= f[a]
    BY <2>1
  <2>3. f[a] \in Nat /\ f[x] \in Nat
    BY <1>4
  <2>4. CASE f[x] <= f[a]
    BY <1>3, <2>2, <2>4
  <2>5. CASE f[a] < f[x]
    <3>1. \A b \in U : f[b] <= f[x]
      BY <2>2, <2>3, <2>5
    <3> QED
      BY <1>3, <1>4, <3>1
  <2> QED
    BY <2>3, <2>4, <2>5
<1> QED
  BY <1>6, <1>7

(* Every place below the number of accounts is the place of one of them.   *)
LEMMA EveryPlace ==
    ASSUME NEW T \in SUBSET Accounts, NEW k \in Nat, k < Cardinality(T)
    PROVE  \E a \in T : Place(a, T) = k
<1> DEFINE Good(U, j) == \E a \in U : Place(a, U) = j
           Bad == {n \in Nat : \E U \in SUBSET Accounts, j \in Nat :
                      Cardinality(U) = n /\ j < n /\ ~Good(U, j)}
<1>f. \A U \in SUBSET Accounts : IsFiniteSet(U) /\ Cardinality(U) \in Nat
  BY FS_Subset, FS_CardinalityType, CandidatesAssumption
<1>1. SUFFICES ASSUME Bad # {} PROVE FALSE
  BY <1>1, <1>f
<1>2. PICK n \in Bad : \A m \in Bad : n <= m
  BY <1>1, LeastNumber
<1>3. PICK U \in SUBSET Accounts, j \in Nat : Cardinality(U) = n /\ j < n /\ ~Good(U, j)
  BY <1>2
<1>4. U # {} /\ IsFiniteSet(U)
  BY <1>f, <1>3, FS_EmptySet
<1>5. PICK m \in U : \A b \in U : Order[b] <= Order[m]
  <2>1. [b \in U |-> Order[b]] \in [U -> Nat]
    BY CandidatesAssumption
  <2>2. PICK m \in U : \A b \in U : [c \in U |-> Order[c]][b] <= [c \in U |-> Order[c]][m]
    BY <1>4, <2>1, HighestMember
  <2> QED
    BY <2>2
<1> DEFINE V == U \ {m}
<1>6. V \in SUBSET Accounts /\ Cardinality(V) = n - 1 /\ n - 1 \in Nat
  BY <1>f, <1>3, <1>4, <1>5, FS_RemoveElement
<1>7. \A b \in V : Order[b] < Order[m]
  BY <1>5, CandidatesAssumption
<1>8. CASE j = n - 1
  <2>1. {b \in U : Order[b] < Order[m]} = V
    BY <1>5, <1>7, CandidatesAssumption
  <2> QED
    BY <1>3, <1>5, <1>6, <1>8, <2>1 DEF Place
<1>9. CASE j # n - 1
  <2>1. j < n - 1
    BY <1>3, <1>9
  <2>2. n - 1 \notin Bad
    BY <1>2, <1>6
  <2>3. Good(V, j)
    BY <1>6, <2>1, <2>2
  <2>4. PICK a \in V : Place(a, V) = j
    BY <2>3
  <2>5. {b \in U : Order[b] < Order[a]} = {b \in V : Order[b] < Order[a]}
    BY <1>5, <1>7, CandidatesAssumption
  <2> QED
    BY <1>3, <2>4, <2>5 DEF Place
<1> QED
  BY <1>8, <1>9
-----------------------------------------------------------------------------
(* The tracker's choice.                                                   *)

ReadRanks == [{"native", "copilot"} -> Nat]

(* Headroom is a number of at least 0 for every account with data.         *)
LEMMA ScoreType ==
    \A s \in State : compute_score(s) \in Nat
BY DEF State, compute_score

(* Of the accounts that are not limited some are tied at the best score.   *)
LEMMA SomebodyTied ==
    ASSUME TypeOK, NEW T \in SUBSET Accounts, Scored(T) # {}
    PROVE  Tied(T) # {} /\ Tied(T) \subseteq Scored(T)
<1> DEFINE S == Scored(T)
<1>1. S \subseteq Accounts /\ IsFiniteSet(S)
  BY FS_Subset, CandidatesAssumption DEF Scored
<1>2. CASE \E a \in S : states[a] = None
  BY <1>2 DEF Tied, Better
<1>3. CASE \A a \in S : states[a] # None
  <2>1. \A a \in S : states[a] \in State
    BY <1>1, <1>3 DEF TypeOK
  <2>2. [a \in S |-> compute_score(states[a])] \in [S -> Nat]
    BY <2>1, ScoreType
  <2>3. PICK a \in S : \A b \in S :
          [c \in S |-> compute_score(states[c])][b] <= [c \in S |-> compute_score(states[c])][a]
    BY <1>1, <2>2, HighestMember
  <2>4. \A b \in S : compute_score(states[b]) <= compute_score(states[a])
    BY <2>3
  <2>5. \A b \in S : compute_score(states[b]) \in Nat
    BY <2>1, ScoreType
  <2> QED
    BY <1>3, <2>4, <2>5 DEF Tied, Better
<1> QED
  BY <1>2, <1>3 DEF Tied

(* best_account returns one of the tied accounts whatever the counter, and *)
(* nobody only if everybody is limited.                                    *)
LEMMA BestOfTier ==
    ASSUME TypeOK, NEW T \in SUBSET Accounts, Scored(T) # {}
    PROVE  best_account(T) \in Tied(T)
<1> DEFINE n == Cardinality(Tied(T))
<1>1. Tied(T) # {} /\ Tied(T) \in SUBSET Accounts
  BY SomebodyTied DEF Scored
<1>2. n \in Nat \ {0}
  <2>1. IsFiniteSet(Tied(T))
    BY <1>1, FS_Subset, CandidatesAssumption
  <2> QED
    BY <1>1, <2>1, FS_CardinalityType, FS_EmptySet
<1>3. round_robin % n \in Nat /\ round_robin % n < n
  <2>1. round_robin \in Nat
    BY CandidatesAssumption DEF TypeOK
  <2> HIDE DEF n
  <2> QED
    BY <1>2, <2>1
<1>4. \E a \in Tied(T) : Place(a, Tied(T)) = round_robin % n
  BY <1>1, <1>3, EveryPlace
<1> QED
  BY <1>1, <1>4 DEF best_account

(* Every account has a priority.                                           *)
LEMMA PriorityType ==
    ASSUME NEW read \in ReadRanks, NEW a \in Accounts
    PROVE  Priority(read, a) \in Nat
BY CandidatesAssumption DEF ReadRanks, Priority

(* What an account that is used has before the others that are available.  *)
Best(a, S, read) ==
    \A b \in S : Available(b) =>
        /\ Available(a)
        /\ Priority(read, a) <= Priority(read, b)
        /\ Priority(read, a) = Priority(read, b) => ~Better(b, a)

(* best_account_with_priority goes through the tiers until one has an      *)
(* account that is not limited.                                            *)
LEMMA BestOfTiers ==
    ASSUME TypeOK, NEW S \in SUBSET Accounts, NEW read \in ReadRanks, Scored(S) # {}
    PROVE  /\ best_account_with_priority(S, read) \in S
           /\ Best(best_account_with_priority(S, read), S, read)
<1> DEFINE tiers == {Priority(read, a) : a \in Scored(S)}
           top == CHOOSE p \in tiers : \A q \in tiers : p <= q
           T == Tier(S, read, top)
           a == best_account(T)
<1>1. tiers \subseteq Nat /\ tiers # {}
  BY PriorityType DEF Scored
<1>2. top \in tiers /\ \A q \in tiers : top <= q
  <2>1. \E p \in tiers : \A q \in tiers : p <= q
    BY <1>1, LeastNumber
  <2> QED
    BY <2>1
<1>3. T \in SUBSET Accounts /\ Scored(T) # {}
  BY <1>2 DEF Tier, Scored
<1>4. a \in Tied(T)
  BY <1>3, BestOfTier
<1>5. a \in S /\ Available(a) /\ Priority(read, a) = top
  BY <1>4 DEF Tied, Scored, Tier
<1>6. ASSUME NEW b \in S, Available(b)
      PROVE  /\ Priority(read, a) <= Priority(read, b)
             /\ Priority(read, a) = Priority(read, b) => ~Better(b, a)
  <2>1. Priority(read, b) \in tiers
    BY <1>6 DEF Scored
  <2>2. CASE Priority(read, b) = top
    <3>1. b \in Scored(T)
      BY <1>6, <2>2 DEF Scored, Tier
    <3> QED
      BY <1>1, <1>2, <1>4, <1>5, <2>2, <3>1 DEF Tied
  <2>3. CASE Priority(read, b) # top
    BY <1>2, <1>5, <2>1, <2>3
  <2> QED
    BY <2>2, <2>3
<1>7. best_account_with_priority(S, read) = a
  BY <1>1 DEF best_account_with_priority
<1> QED
  BY <1>5, <1>6, <1>7 DEF Best

(* The account used is one of those found, the best if one is available.   *)
LEMMA ChosenIsBest ==
    ASSUME TypeOK, NEW S \in SUBSET Accounts, NEW read \in ReadRanks, S # {}
    PROVE  Chosen(S, read) \in S /\ Best(Chosen(S, read), S, read)
<1>1. CASE Scored(S) # {}
  <2>1. best_account_with_priority(S, read) # None
    BY <1>1, BestOfTiers, CandidatesAssumption
  <2> QED
    BY <1>1, <2>1, BestOfTiers DEF Chosen
<1>2. CASE Scored(S) = {}
  <2>1. best_account_with_priority(S, read) = None
    BY <1>2 DEF best_account_with_priority
  <2>2. First(S) \in S
    <3> DEFINE places == {Order[a] : a \in S}
    <3>1. places \subseteq Nat /\ places # {}
      BY CandidatesAssumption
    <3>2. PICK p \in places : \A q \in places : p <= q
      BY <3>1, LeastNumber
    <3>3. \E a \in S : \A b \in S : Order[a] <= Order[b]
      BY <3>2
    <3> QED
      BY <3>3 DEF First
  <2> QED
    BY <1>2, <2>1, <2>2 DEF Chosen, Best, Scored
<1> QED
  BY <1>1, <1>2

-----------------------------------------------------------------------------
(* Every page writes one row or one priority.                              *)
LEMMA EditCases ==
    ASSUME TypeOK, Edit
    PROVE  \/ \E a \in Accounts, row \in {"none", "off", "on"} : SetRow(a, row)
           \/ \E kind \in {"native", "copilot"}, value \in Ranks : update_priority(kind, value)
BY DEF Edit, TypeOK, add_pool_account, toggle_pool_account, remove_pool_account,
       delete_user_account, upsert_user_account

(* What a RateLimitState is made of.                                       *)
LEMMA StateFields ==
    /\ None \notin State
    /\ \A x \in State : x.req \in Nat /\ x.tok \in Nat
    /\ \A q, t \in Nat, u \in Nat \cup {None} :
         [req |-> q, tok |-> t, limited_until |-> u] \in State
BY StateAssumption DEF State

(* Priorities are numbers, the defaults among them.                        *)
LEMMA RanksAreNumbers ==
    /\ [{"native", "copilot"} -> Ranks \cup {0, 1}] \subseteq ReadRanks
    /\ DefaultRanks \in [{"native", "copilot"} -> Ranks \cup {0, 1}]
<1>1. Ranks \cup {0, 1} \subseteq Nat
  BY BoundsAssumption
<1>2. [{"native", "copilot"} -> Ranks \cup {0, 1}] \subseteq ReadRanks
  BY <1>1 DEF ReadRanks
<1>3. DefaultRanks \in [{"native", "copilot"} -> Ranks \cup {0, 1}]
  BY DEF DefaultRanks
<1> QED
  BY <1>2, <1>3

(* Resolving for an account that was found leaves the found ones.          *)
LEMMA ResolvePicks ==
    ASSUME TypeOK, NEW r \in Requests, Resolve(r)
    PROVE  /\ \E all \in SUBSET Accounts : \E a \in all :
                /\ found' = [found EXCEPT ![r] = all]
                /\ account' = [account EXCEPT ![r] = a]
                /\ all \subseteq found[r] \cup {b \in Accounts : rows[b] = "on"}
                /\ Best(a, all, rank[r])
           /\ round_robin' \in 0..(RoundRobin - 1)
<1>1. PICK some \in {get_admin_pool_accounts({a \in Accounts : Kind[a] = "pool"}), {}} :
        LET all == found[r] \cup some
        IN /\ all # {}
           /\ account' = [account EXCEPT ![r] = Chosen(all, rank[r])]
           /\ round_robin' = IF \E a \in all : Available(a)
                             THEN (round_robin + 1) % RoundRobin ELSE round_robin
           /\ found' = [found EXCEPT ![r] = all]
  BY DEF Resolve
<1> DEFINE all == found[r] \cup some
<1>2. all \in SUBSET Accounts /\ all # {} /\ rank[r] \in ReadRanks
  <2>1. some \subseteq Accounts /\ all # {}
    BY <1>1 DEF get_admin_pool_accounts
  <2>2. found[r] \subseteq Accounts
    BY DEF TypeOK
  <2>3. rank[r] \in ReadRanks
    BY RanksAreNumbers DEF TypeOK
  <2> QED
    BY <2>1, <2>2, <2>3
<1>3. Chosen(all, rank[r]) \in all /\ Best(Chosen(all, rank[r]), all, rank[r])
  BY <1>2, ChosenIsBest
<1>5. round_robin' \in 0..(RoundRobin - 1)
  BY <1>1, CandidatesAssumption DEF TypeOK
<1>6. some \subseteq {a \in Accounts : rows[a] = "on"}
  BY <1>1 DEF get_admin_pool_accounts
<1> QED
  BY <1>1, <1>2, <1>3, <1>5, <1>6

(* Every step keeps the types.                                             *)
LEMMA TypeStep == TypeOK /\ [Next]_vars => TypeOK'
<1> SUFFICES ASSUME TypeOK, [Next]_vars PROVE TypeOK'
  OBVIOUS
<1> USE StateFields, RanksAreNumbers, CandidatesAssumption, BoundsAssumption DEF TypeOK
<1>1. CASE \E r \in Requests : Begin(r)
  BY <1>1 DEF Begin, Starts, shared, tables
<1>2. CASE \E r \in Requests : ReadPriorities(r)
  BY <1>2 DEF ReadPriorities, shared, tables
<1>3. CASE \E r \in Requests : ReadNative(r)
  BY <1>3 DEF ReadNative, Enabled, shared, tables
<1>4. ASSUME NEW r \in Requests, ReadCopilot(r) PROVE TypeOK'
  <2>1. PICK some \in SUBSET Accounts : found' = [found EXCEPT ![r] = @ \cup some]
    BY <1>4 DEF ReadCopilot, Enabled
  <2> QED
    BY <1>4, <2>1 DEF ReadCopilot, shared, tables
<1>5. ASSUME NEW r \in Requests, Resolve(r) PROVE TypeOK'
  <2>1. Sent(r) /\ UNCHANGED <<now, states, tables, attempt>>
    BY <1>5 DEF Resolve
  <2>2. PICK all \in SUBSET Accounts : \E a \in all :
          found' = [found EXCEPT ![r] = all] /\ account' = [account EXCEPT ![r] = a]
    BY <1>5, ResolvePicks
  <2>3. round_robin' \in 0..(RoundRobin - 1)
    BY <1>5, ResolvePicks
  <2> QED
    BY <2>1, <2>2, <2>3 DEF Sent, tables
<1>6. CASE \E r \in Requests : ResolveUntracked(r)
  BY <1>6 DEF ResolveUntracked, Sent, shared, tables
<1>7. CASE \E r \in Requests : ResolveNone(r)
  BY <1>7 DEF ResolveNone, Leave, shared, tables
<1>8. ASSUME NEW r \in Requests, AnswerOk(r) PROVE TypeOK'
  <2>1. states' \in [Accounts -> State \cup {None}]
    <3>1. CASE UNCHANGED states
      BY <3>1
    <3>2. ASSUME account[r] # None, NEW req \in Remaining, NEW tok \in Remaining,
                 update_from_headers(account[r], req, tok)
          PROVE  states' \in [Accounts -> State \cup {None}]
      <4>1. [req |-> req, tok |-> tok, limited_until |-> None] \in State
        OBVIOUS
      <4> QED
        BY <3>2, <4>1 DEF update_from_headers
    <3> QED
      BY <1>8, <3>1, <3>2 DEF AnswerOk
  <2> QED
    BY <1>8, <2>1 DEF AnswerOk, Leave, tables
<1>9. ASSUME NEW r \in Requests, Answer429(r) PROVE TypeOK'
  <2>1. states' \in [Accounts -> State \cup {None}]
    <3>1. CASE UNCHANGED states
      BY <3>1
    <3>2. ASSUME account[r] # None, NEW cooldown \in Cooldowns,
                 mark_limited(account[r], cooldown)
          PROVE  states' \in [Accounts -> State \cup {None}]
      <4> DEFINE s == states[account[r]]
                 new == [req |-> 0, tok |-> IF s = None THEN 0 ELSE s.tok,
                         limited_until |-> now + cooldown]
      <4>1. new \in State
        <5>1. now + cooldown \in Nat /\ (IF s = None THEN 0 ELSE s.tok) \in Nat
          BY <3>2
        <5> QED
          BY <5>1
      <4>2. states' = [states EXCEPT ![account[r]] = new]
        BY <3>2 DEF mark_limited
      <4> QED
        BY <3>2, <4>1, <4>2
    <3> QED
      BY <1>9, <3>1, <3>2 DEF Answer429
  <2>2. attempt' \in [Requests -> 0..(MaxAttempts - 1)]
    BY <1>9 DEF Answer429
  <2> QED
    BY <1>9, <2>1, <2>2 DEF Answer429, Starts, tables
<1>10. CASE \E r \in Requests : Last429(r)
  BY <1>10 DEF Last429, Leave, shared, tables
<1>11. CASE \E r \in Requests : AnswerError(r)
  BY <1>11 DEF AnswerError, Leave, shared, tables
<1>12. CASE \E a \in Accounts, row \in {"none", "off", "on"} : SetRow(a, row)
  BY <1>12 DEF SetRow, shared, locals
<1>13. CASE \E kind \in {"native", "copilot"}, value \in Ranks : update_priority(kind, value)
  BY <1>13 DEF update_priority, shared, locals
<1>14. CASE Tick
  BY <1>14 DEF Tick, tables, locals
<1>15. CASE UNCHANGED vars
  BY <1>15 DEF vars, shared, tables, locals
<1> QED
  BY <1>1, <1>2, <1>3, <1>4, <1>5, <1>6, <1>7, <1>8, <1>9, <1>10, <1>11,
     <1>12, <1>13, <1>14, <1>15, EditCases
     DEF Next, Step

LEMMA InitTypes == Init => TypeOK
BY CandidatesAssumption, BoundsAssumption, RanksAreNumbers DEF Init, TypeOK

(* The state of the tracker, the tables and the requests always has its    *)
(* declared types.                                                         *)
THEOREM TypeCorrect == Spec => []TypeOK
BY InitTypes, TypeStep, PTL DEF Spec

-----------------------------------------------------------------------------
(* While a resolution goes on, what it has found so far was enabled at     *)
(* some time of it, and so is what is enabled now.                         *)
FoundInv ==
    \A r \in Requests : pc[r] \notin {"idle", "sent"} =>
        found[r] \cup {a \in Accounts : rows[a] = "on"} \subseteq usable[r]

LEMMA FoundStep == TypeOK /\ FoundInv /\ [Next]_vars => FoundInv'
<1> SUFFICES ASSUME TypeOK, FoundInv, [Next]_vars PROVE FoundInv'
  OBVIOUS
<1> USE DEF TypeOK, FoundInv
<1>1. CASE \E r \in Requests : Begin(r)
  BY <1>1 DEF Begin, Starts, shared, tables
<1>2. CASE \E r \in Requests : ReadPriorities(r)
  BY <1>2 DEF ReadPriorities, shared, tables
<1>3. CASE \E r \in Requests : ReadNative(r)
  BY <1>3 DEF ReadNative, Enabled, shared, tables
<1>4. CASE \E r \in Requests : ReadCopilot(r)
  BY <1>4 DEF ReadCopilot, Enabled, shared, tables
<1>5. CASE \E r \in Requests : Resolve(r)
  BY <1>5 DEF Resolve, Sent, tables
<1>6. CASE \E r \in Requests : ResolveUntracked(r)
  BY <1>6 DEF ResolveUntracked, Sent, shared, tables
<1>7. CASE \E r \in Requests : ResolveNone(r)
  BY <1>7 DEF ResolveNone, Leave, shared, tables
<1>8. CASE \E r \in Requests : AnswerOk(r)
  BY <1>8 DEF AnswerOk, Leave, tables
<1>9. CASE \E r \in Requests : Answer429(r)
  BY <1>9 DEF Answer429, Starts, tables
<1>10. CASE \E r \in Requests : Last429(r)
  BY <1>10 DEF Last429, Leave, shared, tables
<1>11. CASE \E r \in Requests : AnswerError(r)
  BY <1>11 DEF AnswerError, Leave, shared, tables
<1>12. CASE \E a \in Accounts, row \in {"none", "off", "on"} : SetRow(a, row)
  BY <1>12 DEF SetRow, shared, locals
<1>13. CASE \E kind \in {"native", "copilot"}, value \in Ranks : update_priority(kind, value)
  BY <1>13 DEF update_priority, shared, locals
<1>14. CASE Tick
  BY <1>14 DEF Tick, tables, locals
<1>15. CASE UNCHANGED vars
  BY <1>15 DEF vars, shared, tables, locals
<1> QED
  BY <1>1, <1>2, <1>3, <1>4, <1>5, <1>6, <1>7, <1>8, <1>9, <1>10, <1>11,
     <1>12, <1>13, <1>14, <1>15, EditCases
     DEF Next, Step

(* Only a resolution that found an account settles which one is used.      *)
LEMMA PickedByResolve ==
    ASSUME TypeOK, [Next]_vars, NEW r \in Requests, Picks(r)
    PROVE  Resolve(r)
<1> USE DEF TypeOK, Picks
<1>1. CASE \E s \in Requests : Begin(s)
  BY <1>1 DEF Begin, Starts, shared, tables
<1>2. CASE \E s \in Requests : ReadPriorities(s)
  BY <1>2 DEF ReadPriorities, shared, tables
<1>3. CASE \E s \in Requests : ReadNative(s)
  BY <1>3 DEF ReadNative, Enabled, shared, tables
<1>4. CASE \E s \in Requests : ReadCopilot(s)
  BY <1>4 DEF ReadCopilot, Enabled, shared, tables
<1>5. ASSUME NEW s \in Requests, Resolve(s) PROVE Resolve(r)
  <2>1. pc' = [pc EXCEPT ![s] = "sent"]
    BY <1>5 DEF Resolve, Sent
  <2>2. s = r
    BY <2>1
  <2> QED
    BY <1>5, <2>2
<1>6. CASE \E s \in Requests : ResolveUntracked(s)
  BY <1>6 DEF ResolveUntracked, Sent, shared, tables
<1>7. CASE \E s \in Requests : ResolveNone(s)
  BY <1>7 DEF ResolveNone, Leave, shared, tables
<1>8. CASE \E s \in Requests : AnswerOk(s)
  BY <1>8 DEF AnswerOk, Leave, tables
<1>9. CASE \E s \in Requests : Answer429(s)
  BY <1>9 DEF Answer429, Starts, tables
<1>10. CASE \E s \in Requests : Last429(s)
  BY <1>10 DEF Last429, Leave, shared, tables
<1>11. CASE \E s \in Requests : AnswerError(s)
  BY <1>11 DEF AnswerError, Leave, shared, tables
<1>12. CASE \E a \in Accounts, row \in {"none", "off", "on"} : SetRow(a, row)
  BY <1>12 DEF SetRow, shared, locals
<1>13. CASE \E kind \in {"native", "copilot"}, value \in Ranks : update_priority(kind, value)
  BY <1>13 DEF update_priority, shared, locals
<1>14. CASE Tick
  BY <1>14 DEF Tick, tables, locals
<1>15. CASE UNCHANGED vars
  BY <1>15 DEF vars, shared, tables, locals
<1> QED
  BY <1>1, <1>2, <1>3, <1>4, <1>5, <1>6, <1>7, <1>8, <1>9, <1>10, <1>11,
     <1>12, <1>13, <1>14, <1>15, EditCases
     DEF Next, Step

(* No attempt, first or retry, uses an account that was removed or         *)
(* disabled during all of its resolution, however the reads interleave     *)
(* with the administrator's changes (resolve_provider_with_balancing).     *)
THEOREM EnabledAccountUsed == Spec => UsesEnabledAccount
<1>1. Init => FoundInv
  BY DEF Init, FoundInv
<1>2. ASSUME TypeOK, FoundInv, [Next]_vars, NEW r \in Requests, Picks(r)
      PROVE  account'[r] \in usable[r]
  <2>1. Resolve(r)
    BY <1>2, PickedByResolve
  <2>2. PICK all \in SUBSET Accounts : \E a \in all :
          /\ account' = [account EXCEPT ![r] = a]
          /\ all \subseteq found[r] \cup {b \in Accounts : rows[b] = "on"}
    BY <1>2, <2>1, ResolvePicks
  <2> QED
    BY <1>2, <2>2 DEF FoundInv, Picks, TypeOK
<1>3. TypeOK /\ FoundInv /\ [Next]_vars
        => [\A r \in Requests : Picks(r) => account'[r] \in usable[r]]_vars
  BY <1>2
<1> QED
  BY <1>1, <1>3, InitTypes, TypeStep, FoundStep, PTL DEF Spec, UsesEnabledAccount

(* An account in cooldown is used only when every account found is in      *)
(* cooldown; otherwise nobody available in a better tier, and nobody with  *)
(* more headroom in the same tier, was passed over, whatever the counter,  *)
(* and whatever other requests and the pages did since the reads           *)
(* (best_account_with_priority).                                           *)
THEOREM BestAccountPicked == Spec => PicksBestAvailable
<1> DEFINE Picked(r) ==
      LET a == account'[r] IN
      \A b \in found'[r] : Available(b) =>
         /\ Available(a)
         /\ Priority(rank[r], a) <= Priority(rank[r], b)
         /\ Priority(rank[r], a) = Priority(rank[r], b) => ~Better(b, a)
<1>1. ASSUME TypeOK, [Next]_vars, NEW r \in Requests, Picks(r)
      PROVE  Picked(r)
  <2>1. Resolve(r)
    BY <1>1, PickedByResolve
  <2>2. PICK all \in SUBSET Accounts : \E a \in all :
          /\ found' = [found EXCEPT ![r] = all]
          /\ account' = [account EXCEPT ![r] = a]
          /\ Best(a, all, rank[r])
    BY <1>1, <2>1, ResolvePicks
  <2>3. found'[r] = all /\ Best(account'[r], all, rank[r])
    BY <1>1, <2>2 DEF TypeOK
  <2> QED
    BY <2>3 DEF Best
<1>2. TypeOK /\ [Next]_vars => [\A r \in Requests : Picks(r) => Picked(r)]_vars
  BY <1>1
<1> QED
  BY <1>2, InitTypes, TypeStep, PTL DEF Spec, PicksBestAvailable
=============================================================================
