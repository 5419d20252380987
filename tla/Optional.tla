------------------------------ MODULE Optional ------------------------------
(***************************************************************************)
(* The value of an Option that is None, shared by the modules that a run   *)
(* or a proof takes together.                                              *)
(***************************************************************************)
CONSTANT None
=============================================================================
