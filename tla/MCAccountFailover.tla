------------------------- MODULE MCAccountFailover -------------------------
(* An account of the user, Copilot and an account of the admin pool.       *)
EXTENDS AccountFailover, TLC

CONSTANTS own, copilot, pooled

MCAccounts == {own, copilot, pooled}
MCOrder == own :> 1 @@ copilot :> 2 @@ pooled :> 3
MCKind == own :> "native" @@ copilot :> "copilot" @@ pooled :> "pool"

RequestSymmetry == Permutations(Requests)
=============================================================================
