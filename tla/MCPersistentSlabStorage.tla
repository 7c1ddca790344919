----------------------- MODULE MCPersistentSlabStorage -----------------------
(* Model-checking instance of PersistentSlabStorage. *)
EXTENDS PersistentSlabStorage

==============================================================================
