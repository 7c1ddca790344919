----------------------------- MODULE MCDigester -----------------------------
(* Model-checking instance of Digester. *)
EXTENDS Digester
==============================================================================
