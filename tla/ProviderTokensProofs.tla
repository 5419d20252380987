----------------------- MODULE ProviderTokensProofs -----------------------
(***************************************************************************)
(* Proofs about the OAuth token of a direct provider, for any number of    *)
(* requests and grants, any lifetimes and any cache settings: the refresh  *)
(* mutex of ensure_fresh_token excludes, and no rotated refresh token      *)
(* stays in the row.                                                       *)
(***************************************************************************)
EXTENDS ProviderTokens, TLAPS

(* Of two requests in line for the mutex one is behind the other, and the  *)
(* one that holds it is behind nobody.                                     *)
LockInv ==
    /\ pc \in [Requests -> Stages]
    /\ ahead \in [Requests -> SUBSET Requests]
    /\ \A r \in Requests : pc[r] \in Holding => ahead[r] = {}
    /\ \A r, s \in InLine : r # s => r \in ahead[s] \/ s \in ahead[r]

(* Every stage has the local variables it needs.                           *)
Delivered ==
    /\ \A r \in Requests :
         /\ pc[r] \in {"wait", "recheck", "exchange", "upsert"} => seen[r] # None
         /\ pc[r] = "upsert" <=> grant[r] # None
         /\ pc[r] = "fill" => loaded[r] # None
    /\ user = "upsert" <=> user_grant # None

TypeInv == TypeOK /\ Delivered

(* Refresh tokens are numbered as they are granted, and the provider has   *)
(* retired none that it has not granted yet.                               *)
GrantInv ==
    /\ row # None /\ row.refresh # None => row.refresh <= issued
    /\ \A r \in Requests : seen[r] # None => seen[r] <= issued
    /\ \A t \in Ids : t > issued => status[t] = "live"

(* A refresh token on its way to the row has not been rotated away.        *)
PendingInv ==
    \A r \in Requests : grant[r] # None =>
        /\ grant[r].refresh # None
        /\ grant[r].refresh <= issued
        /\ status[grant[r].refresh] # "rotated"

(* Nor has the one a new connection brings, which nobody else knows.       *)
ConnectInv ==
    user_grant # None /\ user_grant.refresh # None =>
        /\ user_grant.refresh <= issued
        /\ status[user_grant.refresh] # "rotated"
        /\ row # None => row.refresh # user_grant.refresh
        /\ \A r \in Requests :
             /\ seen[r] # user_grant.refresh
             /\ grant[r] # None => grant[r].refresh # user_grant.refresh

RotationInv == PendingInv /\ ConnectInv /\ RotationStored

-----------------------------------------------------------------------------
(* Joining the queue puts a request behind everybody in it, only its front *)
(* gets the mutex, and every way out of the refresh, a dropped request     *)
(* included, gives it back.                                                *)
LEMMA LockStep == LockInv /\ [Next]_vars => LockInv'
<1> SUFFICES ASSUME LockInv, [Next]_vars PROVE LockInv'
  OBVIOUS
<1> USE DEF LockInv, InLine, Holding, Stages
<1>1. CASE \E r \in Requests : Begin(r)
  BY <1>1 DEF Begin, Goto
<1>2. CASE \E r \in Requests : CacheCheck(r)
  BY <1>2 DEF CacheCheck, Goto
<1>3. CASE \E r \in Requests : ReadRow(r)
  BY <1>3 DEF ReadRow, Goto
<1>4. CASE \E r \in Requests : DeleteStale(r)
  BY <1>4 DEF DeleteStale, Goto
<1>5. CASE \E r \in Requests : Lock(r)
  BY <1>5 DEF Lock, Goto
<1>6. CASE \E r \in Requests : Recheck(r)
  BY <1>6 DEF Recheck, Goto, Release
<1>7. CASE \E r \in Requests : Upsert(r)
  BY <1>7 DEF Upsert, Goto
<1>8. CASE \E r \in Requests : DeleteFailed(r)
  BY <1>8 DEF DeleteFailed, Goto
<1>9. CASE \E r \in Requests : Invalidate(r)
  BY <1>9 DEF Invalidate, Goto, Release
<1>10. CASE \E r \in Requests : Resolve(r)
  BY <1>10 DEF Resolve, Goto
<1>11. CASE \E r \in Requests : Fallback(r)
  BY <1>11 DEF Fallback, Goto
<1>12. CASE \E r \in Requests : Load(r)
  BY <1>12 DEF Load, Goto
<1>13. CASE \E r \in Requests : Fill(r)
  BY <1>13 DEF Fill, Goto
<1>14. CASE \E r \in Requests : ExchangeOk(r)
  BY <1>14 DEF ExchangeOk, Goto
<1>15. CASE \E r \in Requests : ExchangeErr(r)
  BY <1>15 DEF ExchangeErr, Goto
<1>16. CASE \E r \in Requests : Cancel(r)
  BY <1>16 DEF Cancel, Goto, Release
<1>17. CASE ConnectExchange
  BY <1>17 DEF ConnectExchange
<1>18. CASE ConnectUpsert
  BY <1>18 DEF ConnectUpsert
<1>19. CASE Disconnect
  BY <1>19 DEF Disconnect
<1>20. CASE UserInvalidate
  BY <1>20 DEF UserInvalidate
<1>21. CASE Revoke
  BY <1>21 DEF Revoke
<1>22. CASE Tick
  BY <1>22 DEF Tick
<1>23. CASE UNCHANGED vars
  BY <1>23 DEF vars
<1> QED
  BY <1>1, <1>2, <1>3, <1>4, <1>5, <1>6, <1>7, <1>8, <1>9, <1>10, <1>11,
     <1>12, <1>13, <1>14, <1>15, <1>16, <1>17, <1>18, <1>19, <1>20, <1>21, <1>22,
     <1>23 DEF Next, Step, Answer

(* "Uses a per-(user_id, provider) mutex so concurrent requests don't all  *)
(* try to refresh simultaneously" (ensure_fresh_token): whichever requests *)
(* race and are dropped, one at most presents a refresh token or writes    *)
(* the outcome of a refresh.                                               *)
THEOREM RefreshesExclude == Spec => []OneRefreshAtATime
<1>1. Init => LockInv
  BY DEF Init, LockInv, InLine, Holding, Stages
<1>2. LockInv => OneRefreshAtATime
  BY DEF LockInv, OneRefreshAtATime, InLine, Holding
<1> QED
  BY <1>1, <1>2, LockStep, PTL DEF Spec

-----------------------------------------------------------------------------
(* What a row is made of.                                                  *)
LEMMA RowFields ==
    /\ None \notin Row /\ None \notin Ids
    /\ Ids \subseteq Nat
    /\ \A x \in Row : x.id \in Ids /\ x.exp \in Nat /\ x.refresh \in Ids \cup {None}
    /\ \A x \in Row, t \in Ids \cup {None} :
         /\ [x EXCEPT !.refresh = t] \in Row
         /\ [x EXCEPT !.refresh = t].refresh = t
    /\ \A i \in Ids, e \in Nat, t \in Ids \cup {None} :
         [id |-> i, exp |-> e, refresh |-> t] \in Row
BY NoneAssumption, BoundsAssumption DEF Row, Ids

(* What a cache entry is made of.                                          *)
LEMMA EntryFields ==
    /\ None \notin CacheEntry
    /\ \A x \in CacheEntry : x.creds \in Creds \cup {None} /\ x.at \in Nat
    /\ \A c \in Creds \cup {None}, t \in Nat : [creds |-> c, at |-> t] \in CacheEntry
    /\ \A i \in Ids, e \in Nat : [id |-> i, exp |-> e] \in Creds
BY NoneAssumption DEF CacheEntry, Creds

-----------------------------------------------------------------------------
(* Every step of a request, of the user and of the provider keeps the      *)
(* types.                                                                  *)
LEMMA TypeStep == TypeInv /\ [Next]_vars => TypeInv'
<1> SUFFICES ASSUME TypeInv, [Next]_vars PROVE TypeInv'
  OBVIOUS
<1> USE RowFields, EntryFields DEF TypeInv, TypeOK, Delivered, Stages
<1>1. CASE \E r \in Requests : Begin(r)
  BY <1>1 DEF Begin, Goto, store, provider, locals, human
<1>2. CASE \E r \in Requests : CacheCheck(r)
  BY <1>2 DEF CacheCheck, Goto, store, provider, locals, human
<1>3. CASE \E r \in Requests : ReadRow(r)
  BY <1>3 DEF ReadRow, Goto, InLine, store, provider, human
<1>4. CASE \E r \in Requests : DeleteStale(r)
  BY <1>4 DEF DeleteStale, Goto, delete_user_provider_token, store, provider,
     locals, human
<1>5. CASE \E r \in Requests : Lock(r)
  BY <1>5 DEF Lock, Goto, store, provider, locals, human
<1>6. CASE \E r \in Requests : Recheck(r)
  BY <1>6, SMTT(60) DEF Recheck, Goto, Release, invalidate, store, provider, human
<1>7. ASSUME NEW r \in Requests, Upsert(r) PROVE TypeInv'
  <2>1. grant[r] \in Row
    BY <1>7 DEF Upsert
  <2>2. row' \in Row \cup {None} /\ gone' \in [Ids -> Nat]
    BY <1>7, <2>1 DEF Upsert, upsert_user_provider_token, store
  <2>3. lost' \in BOOLEAN
    BY <1>7 DEF Upsert
  <2> QED
    BY <1>7, <2>2, <2>3 DEF Upsert, Goto, provider, human
<1>8. CASE \E r \in Requests : DeleteFailed(r)
  BY <1>8 DEF DeleteFailed, Goto, delete_user_provider_token, store, provider,
     locals, human
<1>9. CASE \E r \in Requests : Invalidate(r)
  BY <1>9 DEF Invalidate, Goto, Release, invalidate, store, provider, human
<1>10. CASE \E r \in Requests : Resolve(r)
  BY <1>10 DEF Resolve, Goto, store, provider, locals, human
<1>11. CASE \E r \in Requests : Fallback(r)
  BY <1>11 DEF Fallback, Goto, store, provider, locals, human
<1>12. ASSUME NEW r \in Requests, Load(r) PROVE TypeInv'
  <2>1. PICK entry \in CacheEntry : loaded' = [loaded EXCEPT ![r] = entry]
    <3>1. CASE loaded' = [loaded EXCEPT ![r] = [creds |-> None, at |-> now]]
      BY <3>1
    <3>2. CASE /\ row # None
               /\ loaded' = [loaded EXCEPT ![r] =
                     [creds |-> [id |-> row.id, exp |-> row.exp], at |-> now]]
      BY <3>2
    <3> QED
      BY <1>12, <3>1, <3>2 DEF Load
  <2> QED
    BY <1>12, <2>1 DEF Load, Goto, store, provider, human
<1>13. CASE \E r \in Requests : Fill(r)
  BY <1>13 DEF Fill, Goto, store, provider, human
<1>14. ASSUME NEW r \in Requests, ExchangeOk(r) PROVE TypeInv'
  <2>1. issued + 1 \in Ids /\ seen[r] \in Ids
    BY <1>14, BoundsAssumption DEF ExchangeOk, Ids
  <2>2. PICK new \in Row : grant' = [grant EXCEPT ![r] = new]
    <3>1. PICK life \in Lifetimes, rotates \in BOOLEAN :
             grant' = [grant EXCEPT ![r] =
                         [id |-> issued + 1, exp |-> now + life,
                          refresh |-> IF rotates THEN issued + 1 ELSE seen[r]]]
      BY <1>14 DEF ExchangeOk
    <3>2. now + life \in Nat
      BY LifetimesAssumption
    <3> QED
      BY <2>1, <3>1, <3>2
  <2>3. status' \in [Ids -> {"live", "rotated", "revoked"}]
    BY <1>14, <2>1 DEF ExchangeOk
  <2>4. issued' \in 0..MaxTokens
    BY <1>14, BoundsAssumption DEF ExchangeOk
  <2> QED
    BY <1>14, <2>2, <2>3, <2>4 DEF ExchangeOk, Goto, store, human
<1>15. CASE \E r \in Requests : ExchangeErr(r)
  BY <1>15 DEF ExchangeErr, Goto, store, provider, locals, human
<1>16. CASE \E r \in Requests : Cancel(r)
  BY <1>16 DEF Cancel, Goto, Release, store, provider, human
<1>17. CASE ConnectExchange
  <2>1. issued + 1 \in Ids /\ issued' \in 0..MaxTokens
    BY <1>17, BoundsAssumption DEF ConnectExchange, Ids
  <2>2. user_grant' \in Row
    BY <1>17, <2>1, LifetimesAssumption DEF ConnectExchange
  <2> QED
    BY <1>17, <2>1, <2>2 DEF ConnectExchange, store, locals
<1>18. CASE ConnectUpsert
  BY <1>18 DEF ConnectUpsert, upsert_user_provider_token, store, provider, locals
<1>19. CASE Disconnect
  BY <1>19 DEF Disconnect, delete_user_provider_token, provider, locals
<1>20. CASE UserInvalidate
  BY <1>20 DEF UserInvalidate, invalidate, store, provider, locals
<1>21. CASE Revoke
  BY <1>21 DEF Revoke, store, locals, human
<1>22. CASE Tick
  BY <1>22 DEF Tick, store, provider, locals, human
<1>23. CASE UNCHANGED vars
  BY <1>23 DEF vars
<1> QED
  BY <1>1, <1>2, <1>3, <1>4, <1>5, <1>6, <1>7, <1>8, <1>9, <1>10, <1>11, <1>12,
     <1>13, <1>14, <1>15, <1>16, <1>17, <1>18, <1>19, <1>20, <1>21, <1>22, <1>23 DEF Next, Step, Answer

(* upsert_user_provider_token keeps the old refresh token when the new one *)
(* is empty.                                                               *)
LEMMA UpsertRow ==
    ASSUME TypeOK, NEW new \in Row, upsert_user_provider_token(new)
    PROVE  row'.refresh = IF new.refresh = None /\ row # None THEN row.refresh
                                                              ELSE new.refresh
<1>1. CASE new.refresh = None /\ row # None
  <2>1. row.refresh \in Ids \cup {None}
    BY <1>1, RowFields DEF TypeOK
  <2>2. row' = [new EXCEPT !.refresh = row.refresh]
    BY <1>1 DEF upsert_user_provider_token
  <2> QED
    BY <1>1, <2>1, <2>2, RowFields
<1>2. CASE ~(new.refresh = None /\ row # None)
  BY <1>2 DEF upsert_user_provider_token
<1> QED
  BY <1>1, <1>2

(* The stored row of a user who connected earlier.                         *)
LEMMA InitTypes == Init => TypeInv
<1> SUFFICES ASSUME Init PROVE TypeInv
  OBVIOUS
<1>1. 1 \in Ids /\ issued \in 0..MaxTokens
  BY BoundsAssumption DEF Init, Ids
<1>2. row \in Row
  BY <1>1, LifetimesAssumption DEF Init, Row
<1> QED
  BY <1>1, <1>2, RowFields DEF Init, TypeInv, TypeOK, Delivered, Stages

(* The state of the token lifecycle always has its declared types.         *)
THEOREM TypeCorrect == Spec => []TypeOK
<1>1. TypeInv => TypeOK
  BY DEF TypeInv
<1> QED
  BY <1>1, InitTypes, TypeStep, PTL DEF Spec

-----------------------------------------------------------------------------
(* Steps respect the numbering of refresh tokens.                          *)
LEMMA GrantStep == TypeInv /\ GrantInv /\ RotationInv /\ [Next]_vars => GrantInv'
<1> SUFFICES ASSUME TypeInv, GrantInv, RotationInv, [Next]_vars PROVE GrantInv'
  OBVIOUS
<1> USE RowFields, BoundsAssumption
        DEF TypeInv, TypeOK, Delivered, GrantInv, RotationInv, PendingInv, ConnectInv
<1>1. CASE \E r \in Requests : Begin(r)
  BY <1>1 DEF Begin, Goto, store, provider, locals, human
<1>2. CASE \E r \in Requests : CacheCheck(r)
  BY <1>2 DEF CacheCheck, Goto, store, provider, locals, human
<1>3. CASE \E r \in Requests : ReadRow(r)
  BY <1>3 DEF ReadRow, Goto, store, provider, human
<1>4. CASE \E r \in Requests : DeleteStale(r)
  BY <1>4 DEF DeleteStale, Goto, delete_user_provider_token, store, provider,
     locals, human
<1>5. CASE \E r \in Requests : Lock(r)
  BY <1>5 DEF Lock, Goto, store, provider, locals, human
<1>6. CASE \E r \in Requests : Recheck(r)
  BY <1>6 DEF Recheck, Goto, Release, invalidate, store, provider, human
<1>7. CASE \E r \in Requests : Upsert(r)
  BY <1>7 DEF Upsert, Goto, upsert_user_provider_token, store, provider, human
<1>8. CASE \E r \in Requests : DeleteFailed(r)
  BY <1>8 DEF DeleteFailed, Goto, delete_user_provider_token, store, provider,
     locals, human
<1>9. CASE \E r \in Requests : Invalidate(r)
  BY <1>9 DEF Invalidate, Goto, Release, invalidate, store, provider, human
<1>10. CASE \E r \in Requests : Resolve(r)
  BY <1>10 DEF Resolve, Goto, store, provider, locals, human
<1>11. CASE \E r \in Requests : Fallback(r)
  BY <1>11 DEF Fallback, Goto, store, provider, locals, human
<1>12. CASE \E r \in Requests : Load(r)
  BY <1>12 DEF Load, Goto, store, provider, human
<1>13. CASE \E r \in Requests : Fill(r)
  BY <1>13 DEF Fill, Goto, store, provider, human
<1>14. CASE \E r \in Requests : ExchangeOk(r)
  BY <1>14 DEF ExchangeOk, Goto, store, human
<1>15. CASE \E r \in Requests : ExchangeErr(r)
  BY <1>15 DEF ExchangeErr, Goto, store, provider, locals, human
<1>16. CASE \E r \in Requests : Cancel(r)
  BY <1>16 DEF Cancel, Goto, Release, store, provider, human
<1>17. CASE ConnectExchange
  BY <1>17 DEF ConnectExchange, store, locals
<1>18. CASE ConnectUpsert
  <2>1. user_grant \in Row
    BY <1>18 DEF ConnectUpsert
  <2>2. \/ row' = row
        \/ row'.refresh = IF user_grant.refresh = None /\ row # None
                          THEN row.refresh ELSE user_grant.refresh
    BY <1>18, <2>1, UpsertRow DEF ConnectUpsert, store
  <2> QED
    BY <1>18, <2>1, <2>2 DEF ConnectUpsert, provider, locals
<1>19. CASE Disconnect
  BY <1>19 DEF Disconnect, delete_user_provider_token, provider, locals
<1>20. CASE UserInvalidate
  BY <1>20 DEF UserInvalidate, invalidate, store, provider, locals
<1>21. CASE Revoke
  BY <1>21 DEF Revoke, store, locals, human
<1>22. CASE Tick
  BY <1>22 DEF Tick, store, provider, locals, human
<1>23. CASE UNCHANGED vars
  BY <1>23 DEF vars
<1> QED
  BY <1>1, <1>2, <1>3, <1>4, <1>5, <1>6, <1>7, <1>8, <1>9, <1>10, <1>11, <1>12,
     <1>13, <1>14, <1>15, <1>16, <1>17, <1>18, <1>19, <1>20, <1>21, <1>22, <1>23 DEF Next, Step, Answer

(* Only the holder of the mutex rotates, and what it presents is what the  *)
(* others have read before it: nobody else is about to store it.           *)
LEMMA RotationStep ==
    TypeInv /\ OneRefreshAtATime /\ GrantInv /\ RotationInv /\ [Next]_vars => RotationInv'
<1> SUFFICES ASSUME TypeInv, OneRefreshAtATime, GrantInv, RotationInv, [Next]_vars
             PROVE RotationInv'
  OBVIOUS
<1> USE RowFields, BoundsAssumption
        DEF TypeInv, TypeOK, Delivered, OneRefreshAtATime, GrantInv,
            RotationInv, PendingInv, ConnectInv, RotationStored
<1>1. CASE \E r \in Requests : Begin(r)
  BY <1>1 DEF Begin, Goto, store, provider, locals, human
<1>2. CASE \E r \in Requests : CacheCheck(r)
  BY <1>2 DEF CacheCheck, Goto, store, provider, locals, human
<1>3. CASE \E r \in Requests : ReadRow(r)
  BY <1>3 DEF ReadRow, Goto, store, provider, human
<1>4. CASE \E r \in Requests : DeleteStale(r)
  BY <1>4 DEF DeleteStale, Goto, delete_user_provider_token, store, provider,
     locals, human
<1>5. CASE \E r \in Requests : Lock(r)
  BY <1>5 DEF Lock, Goto, store, provider, locals, human
<1>6. CASE \E r \in Requests : Recheck(r)
  BY <1>6 DEF Recheck, Goto, Release, invalidate, store, provider, human
<1>7. ASSUME NEW r \in Requests, Upsert(r) PROVE RotationInv'
  <2>1. grant[r] \in Row /\ grant[r].refresh # None
    BY <1>7 DEF Upsert
  <2>2. PendingInv' /\ \A s \in Requests : s # r => pc'[s] = pc[s] /\ pc[s] # "upsert"
    BY <1>7 DEF Upsert, Goto, provider
  <2>3. CASE row' = grant[r]
    BY <1>7, <2>1, <2>2, <2>3 DEF Upsert, Goto, provider, human
  <2>4. CASE row' = row /\ lost' = (lost \/ grant[r].refresh # seen[r])
    <3>1. ConnectInv'
      BY <1>7, <2>4 DEF Upsert, provider, human
    <3>2. CASE lost'
      BY <2>2, <3>1, <3>2
    <3>3. CASE ~lost'
      <4>1. ~lost /\ grant[r].refresh = seen[r]
        BY <2>4, <3>3, Zenon
      <4>2. status[seen[r]] # "rotated"
        BY <1>7, <4>1 DEF Upsert
      <4> QED
        BY <1>7, <2>2, <2>4, <3>1, <4>1, <4>2 DEF Upsert, provider
    <3> QED
      BY <3>2, <3>3
  <2> QED
    BY <1>7, <2>1, <2>3, <2>4 DEF Upsert, upsert_user_provider_token, store
<1>8. CASE \E r \in Requests : DeleteFailed(r)
  BY <1>8 DEF DeleteFailed, Goto, delete_user_provider_token, store, provider,
     locals, human
<1>9. CASE \E r \in Requests : Invalidate(r)
  BY <1>9 DEF Invalidate, Goto, Release, invalidate, store, provider, human
<1>10. CASE \E r \in Requests : Resolve(r)
  BY <1>10 DEF Resolve, Goto, store, provider, locals, human
<1>11. CASE \E r \in Requests : Fallback(r)
  BY <1>11 DEF Fallback, Goto, store, provider, locals, human
<1>12. CASE \E r \in Requests : Load(r)
  BY <1>12 DEF Load, Goto, store, provider, human
<1>13. CASE \E r \in Requests : Fill(r)
  BY <1>13 DEF Fill, Goto, store, provider, human
<1>14. ASSUME NEW r \in Requests, ExchangeOk(r) PROVE RotationInv'
  <2>1. /\ issued + 1 \in Ids /\ status[issued + 1] = "live"
        /\ seen[r] \in Ids /\ seen[r] <= issued /\ status[seen[r]] = "live"
    BY <1>14 DEF ExchangeOk, Ids
  <2>2. \A s \in Requests : grant[s] = None /\ pc[s] # "upsert"
    BY <1>14 DEF ExchangeOk
  <2>3. PICK life \in Lifetimes, rotates \in BOOLEAN :
          /\ grant' = [grant EXCEPT ![r] =
                [id |-> issued + 1, exp |-> now + life,
                 refresh |-> IF rotates THEN issued + 1 ELSE seen[r]]]
          /\ status' = IF rotates THEN [status EXCEPT ![seen[r]] = "rotated"] ELSE status
    BY <1>14 DEF ExchangeOk
  <2>4. /\ grant'[r].refresh = IF rotates THEN issued + 1 ELSE seen[r]
        /\ \A s \in Requests : s # r => grant'[s] = None
    BY <2>2, <2>3
  <2>5. PendingInv'
    BY <1>14, <2>1, <2>3, <2>4 DEF ExchangeOk
  <2>6. ConnectInv'
    BY <1>14, <2>1, <2>3, <2>4 DEF ExchangeOk, store, human
  <2>7. RotationStored'
    BY <1>14, <2>1, <2>2, <2>3 DEF ExchangeOk, Goto, store
  <2> QED
    BY <2>5, <2>6, <2>7
<1>15. CASE \E r \in Requests : ExchangeErr(r)
  BY <1>15 DEF ExchangeErr, Goto, store, provider, locals, human
<1>16. ASSUME NEW r \in Requests, Cancel(r) PROVE RotationInv'
  <2>1. PendingInv' /\ ConnectInv'
    BY <1>16 DEF Cancel, store, provider, human
  <2>2. CASE grant[r] = None
    BY <1>16, <2>1, <2>2 DEF Cancel, Goto, store, provider
  <2>3. CASE grant[r] # None
    <3>1. lost' = (lost \/ grant[r].refresh # seen[r])
      BY <1>16, <2>3 DEF Cancel
    <3>2. \A s \in Requests : s # r => pc[s] # "upsert"
      BY <2>3
    <3>3. CASE lost'
      BY <2>1, <3>3
    <3>4. CASE ~lost'
      <4>1. ~lost /\ grant[r].refresh = seen[r]
        BY <3>1, <3>4, Zenon
      <4>2. status[seen[r]] # "rotated"
        BY <2>3, <4>1
      <4> QED
        BY <1>16, <2>1, <3>2, <4>1, <4>2 DEF Cancel, store, provider
    <3> QED
      BY <3>3, <3>4
  <2> QED
    BY <2>2, <2>3
<1>17. CASE ConnectExchange
  <2>1. issued + 1 \in Ids /\ status[issued + 1] = "live"
    BY <1>17 DEF ConnectExchange, Ids
  <2>2. user_grant'.refresh \in {issued + 1, None}
    BY <1>17 DEF ConnectExchange
  <2>3. ConnectInv'
    BY <1>17, <2>1, <2>2 DEF ConnectExchange, store, locals
  <2> QED
    BY <1>17, <2>3 DEF ConnectExchange, store, locals
<1>18. CASE ConnectUpsert
  <2>1. user_grant \in Row
    BY <1>18 DEF ConnectUpsert
  <2>2. \/ row' = row
        \/ row'.refresh = IF user_grant.refresh = None /\ row # None
                          THEN row.refresh ELSE user_grant.refresh
    BY <1>18, <2>1, UpsertRow DEF ConnectUpsert, store
  <2>3. RotationStored'
    BY <1>18, <2>1, <2>2 DEF ConnectUpsert, provider, locals
  <2> QED
    BY <1>18, <2>3 DEF ConnectUpsert, provider, locals
<1>19. CASE Disconnect
  BY <1>19 DEF Disconnect, delete_user_provider_token, provider, locals
<1>20. CASE UserInvalidate
  BY <1>20 DEF UserInvalidate, invalidate, store, provider, locals
<1>21. CASE Revoke
  BY <1>21 DEF Revoke, store, locals, human
<1>22. CASE Tick
  BY <1>22 DEF Tick, store, provider, locals, human
<1>23. CASE UNCHANGED vars
  BY <1>23 DEF vars
<1> QED
  BY <1>1, <1>2, <1>3, <1>4, <1>5, <1>6, <1>7, <1>8, <1>9, <1>10, <1>11, <1>12,
     <1>13, <1>14, <1>15, <1>16, <1>17, <1>18, <1>19, <1>20, <1>21, <1>22, <1>23 DEF Next, Step, Answer

(* A refresh token the provider has rotated away does not stay in the row, *)
(* however refreshes, connections and disconnections interleave, unless    *)
(* storing its successor failed or its request was dropped.                *)
THEOREM RotationSafe == Spec => []RotationStored
<1>1. Init => GrantInv /\ RotationInv
  <2> SUFFICES ASSUME Init PROVE GrantInv /\ RotationInv
    OBVIOUS
  <2>1. row.refresh \in {1, None} /\ issued = 1
    BY DEF Init
  <2>2. GrantInv
    BY <2>1, RowFields DEF Init, GrantInv
  <2>3. RotationStored
    BY <2>1, InitTypes, RowFields DEF Init, TypeInv, TypeOK, RotationStored
  <2> QED
    BY <2>2, <2>3 DEF Init, RotationInv, PendingInv, ConnectInv
<1>2. RotationInv => RotationStored
  BY DEF RotationInv
<1> QED
  BY <1>1, <1>2, InitTypes, TypeStep, GrantStep, RotationStep, RefreshesExclude, PTL
     DEF Spec

-----------------------------------------------------------------------------
(* A credential read at time t is still the row's, or left it after t.     *)
HeldSince(creds, t) ==
    creds # None =>
        \/ row # None /\ row.id = creds.id
        \/ t <= gone[creds.id]

(* What a request loaded was in the row when it loaded it, and what the    *)
(* cache holds was there no longer than a load takes before its insert.    *)
StaleInv ==
    /\ \A t \in Ids : gone[t] <= now
    /\ \A r \in Requests : pc[r] = "fill" =>
         /\ loaded[r].at <= now /\ now - loaded[r].at <= MaxFill
         /\ HeldSince(loaded[r].creds, loaded[r].at)
    /\ cache # None =>
         /\ cache.at <= now
         /\ HeldSince(cache.creds, cache.at - MaxFill)

(* A step that at most replaces or deletes the row, drops the cache entry  *)
(* and lets requests leave: what was held before is still held.            *)
LEMMA WriteKeepsHeld ==
    ASSUME TypeInv, StaleInv,
           now' = now,
           cache' \in {cache, None},
           \/ UNCHANGED store
           \/ /\ row' \in Row \cup {None}
              /\ gone' = IF row = None THEN gone ELSE [gone EXCEPT ![row.id] = now],
           \A r \in Requests : pc'[r] = "fill" =>
                pc[r] = "fill" /\ loaded'[r] = loaded[r]
    PROVE  StaleInv'
<1> USE RowFields, EntryFields, BoundsAssumption
        DEF TypeInv, TypeOK, Delivered, StaleInv
<1>1. CASE UNCHANGED store
  BY <1>1 DEF store, HeldSince
<1>2. CASE /\ row' \in Row \cup {None}
           /\ gone' = IF row = None THEN gone ELSE [gone EXCEPT ![row.id] = now]
  <2>1. /\ \A t \in Ids : gone[t] <= gone'[t] /\ gone'[t] <= now
        /\ row # None => gone'[row.id] = now
    BY <1>2
  <2>2. ASSUME NEW c \in Creds \cup {None}, NEW t \in Int, t <= now, HeldSince(c, t)
        PROVE  HeldSince(c, t)'
    <3>1. c # None => c.id \in Ids
      BY DEF Creds
    <3> QED
      BY <1>2, <2>1, <2>2, <3>1 DEF HeldSince
  <2>3. ASSUME NEW r \in Requests, pc'[r] = "fill"
        PROVE  /\ loaded'[r].at <= now' /\ now' - loaded'[r].at <= MaxFill
               /\ HeldSince(loaded[r].creds, loaded[r].at)'
    <3>1. /\ pc[r] = "fill" /\ loaded'[r] = loaded[r]
          /\ loaded[r].creds \in Creds \cup {None} /\ loaded[r].at \in Nat
      BY <2>3
    <3> QED
      BY <2>2, <3>1 DEF HeldSince
  <2>4. ASSUME cache' # None
        PROVE  /\ cache'.at <= now'
               /\ HeldSince(cache.creds, cache.at - MaxFill)'
    <3>1. /\ cache' = cache /\ cache.creds \in Creds \cup {None}
          /\ cache.at - MaxFill \in Int /\ cache.at - MaxFill <= now
      BY <2>4
    <3> QED
      BY <2>2, <2>4, <3>1 DEF HeldSince
  <2> QED
    BY <2>1, <2>3, <2>4
<1> QED
  BY <1>1, <1>2

(* Whatever the refreshes of other requests and the user's connects and    *)
(* disconnects do between a load and its insert, the insert is no older    *)
(* than the load allows.                                                   *)
LEMMA StaleStep == TypeInv /\ StaleInv /\ [Next]_vars => StaleInv'
<1> SUFFICES ASSUME TypeInv, StaleInv, [Next]_vars PROVE StaleInv'
  OBVIOUS
<1>t. TypeInv'
  BY TypeStep
<1> USE RowFields, EntryFields, BoundsAssumption DEF TypeInv, TypeOK
<1>1. CASE \E r \in Requests : Begin(r)
  BY <1>1, <1>t, WriteKeepsHeld DEF Begin, Goto, store, locals
<1>2. CASE \E r \in Requests : CacheCheck(r)
  BY <1>2, <1>t, WriteKeepsHeld DEF CacheCheck, Goto, store, locals
<1>3. CASE \E r \in Requests : ReadRow(r)
  BY <1>3, <1>t, WriteKeepsHeld DEF ReadRow, Goto, store
<1>4. CASE \E r \in Requests : DeleteStale(r)
  BY <1>4, WriteKeepsHeld
     DEF DeleteStale, Goto, delete_user_provider_token, store, locals
<1>5. CASE \E r \in Requests : Lock(r)
  BY <1>5, <1>t, WriteKeepsHeld DEF Lock, Goto, store, locals
<1>6. CASE \E r \in Requests : Recheck(r)
  BY <1>6, <1>t, WriteKeepsHeld DEF Recheck, Goto, invalidate, store
<1>7. ASSUME NEW r \in Requests, Upsert(r) PROVE StaleInv'
  <2>1. \/ UNCHANGED store
        \/ gone' = IF row = None THEN gone ELSE [gone EXCEPT ![row.id] = now]
    BY <1>7 DEF Upsert, upsert_user_provider_token
  <2> QED
    BY <1>7, <1>t, <2>1, WriteKeepsHeld DEF Upsert, Goto
<1>8. CASE \E r \in Requests : DeleteFailed(r)
  BY <1>8, WriteKeepsHeld
     DEF DeleteFailed, Goto, delete_user_provider_token, store, locals
<1>9. CASE \E r \in Requests : Invalidate(r)
  BY <1>9, <1>t, WriteKeepsHeld DEF Invalidate, Goto, invalidate, store
<1>10. CASE \E r \in Requests : Resolve(r)
  BY <1>10, <1>t, WriteKeepsHeld DEF Resolve, Goto, store, locals
<1>11. CASE \E r \in Requests : Fallback(r)
  BY <1>11, <1>t, WriteKeepsHeld DEF Fallback, Goto, store, locals
<1>12. ASSUME NEW r \in Requests, Load(r) PROVE StaleInv'
  <2>1. /\ loaded'[r].at = now
        /\ \/ loaded'[r].creds = None
           \/ row # None /\ loaded'[r].creds.id = row.id
        /\ \A s \in Requests \ {r} : loaded'[s] = loaded[s] /\ pc'[s] = pc[s]
    BY <1>12 DEF Load, Goto
  <2> QED
    BY <1>12, <2>1 DEF Load, StaleInv, HeldSince, store
<1>13. ASSUME NEW r \in Requests, Fill(r) PROVE StaleInv'
  <2>1. /\ cache'.at = now /\ cache'.creds = loaded[r].creds
        /\ loaded[r] \in CacheEntry
        /\ \A s \in Requests : pc'[s] = "fill" => pc[s] = "fill" /\ loaded'[s] = loaded[s]
    BY <1>13 DEF Fill, Goto, Delivered
  <2>2. HeldSince(loaded[r].creds, loaded[r].at) /\ now - loaded[r].at <= MaxFill
    BY <1>13 DEF Fill, StaleInv
  <2>3. HeldSince(loaded[r].creds, now - MaxFill)
    BY <2>1, <2>2 DEF HeldSince, Creds
  <2> QED
    BY <1>13, <2>1, <2>3 DEF Fill, StaleInv, HeldSince, store
<1>14. CASE \E r \in Requests : ExchangeOk(r)
  BY <1>14, <1>t, WriteKeepsHeld DEF ExchangeOk, Goto, store
<1>15. CASE \E r \in Requests : ExchangeErr(r)
  BY <1>15, <1>t, WriteKeepsHeld DEF ExchangeErr, Goto, store, locals
<1>16. CASE \E r \in Requests : Cancel(r)
  BY <1>16, <1>t, WriteKeepsHeld DEF Cancel, Goto, store
<1>17. CASE ConnectExchange
  BY <1>17, WriteKeepsHeld DEF ConnectExchange, store, locals
<1>18. CASE ConnectUpsert
  <2>1. \/ UNCHANGED store
        \/ gone' = IF row = None THEN gone ELSE [gone EXCEPT ![row.id] = now]
    BY <1>18 DEF ConnectUpsert, upsert_user_provider_token
  <2> QED
    BY <1>18, <1>t, <2>1, WriteKeepsHeld DEF ConnectUpsert, locals
<1>19. CASE Disconnect
  BY <1>19, WriteKeepsHeld DEF Disconnect, delete_user_provider_token, locals
<1>20. CASE UserInvalidate
  BY <1>20, WriteKeepsHeld DEF UserInvalidate, invalidate, store, locals
<1>21. CASE Revoke
  BY <1>21, WriteKeepsHeld DEF Revoke, store, locals
<1>22. CASE Tick
  BY <1>22 DEF Tick, StaleInv, HeldSince, Delivered, store, locals
<1>23. CASE UNCHANGED vars
  BY <1>23, WriteKeepsHeld DEF vars, store
<1> QED
  BY <1>1, <1>2, <1>3, <1>4, <1>5, <1>6, <1>7, <1>8, <1>9, <1>10, <1>11, <1>12,
     <1>13, <1>14, <1>15, <1>16, <1>17, <1>18, <1>19, <1>20, <1>21, <1>22, <1>23 DEF Next, Step, Answer

(* "cached in the ProviderRegistry with a 5-minute TTL": whichever way     *)
(* refreshes, connects and disconnects race with a load and its insert, a  *)
(* credential the cache hands out left the row less than CACHE_TTL and the *)
(* time of a load ago.                                                     *)
THEOREM CacheStaleness == Spec => []CacheStalenessBounded
<1>1. Init => StaleInv
  BY RowFields, BoundsAssumption DEF Init, StaleInv, HeldSince
<1>2. TypeInv /\ StaleInv => CacheStalenessBounded
  <2> SUFFICES ASSUME TypeInv, StaleInv, CacheLive, cache.creds # None,
                      ~(row # None /\ row.id = cache.creds.id)
               PROVE  now - gone[cache.creds.id] < CacheTtl + MaxFill
    BY DEF CacheStalenessBounded
  <2>1. cache # None /\ now - cache.at < CacheTtl
    BY DEF CacheLive
  <2>2. cache.at \in Nat /\ cache.creds.id \in Ids
    BY <2>1, EntryFields DEF TypeInv, TypeOK, Creds
  <2>3. cache.at - MaxFill <= gone[cache.creds.id]
    BY <2>1 DEF StaleInv, HeldSince
  <2> QED
    BY <2>1, <2>2, <2>3, BoundsAssumption, CacheTtlAssumption DEF TypeInv, TypeOK
<1> QED
  BY <1>1, <1>2, InitTypes, TypeStep, StaleStep, PTL DEF Spec
=============================================================================
