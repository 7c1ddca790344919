-------------------------- MODULE MCBasicSlabStorage --------------------------
(* Model-checking instance of BasicSlabStorage. *)
EXTENDS BasicSlabStorage
==============================================================================
