------------------------- MODULE MCProviderRouting -------------------------
(* Requests are alike, and so are administrators.                          *)
EXTENDS ProviderRouting, TLC

Symmetry == Permutations(Incoming) \cup Permutations(Admins)
=============================================================================
