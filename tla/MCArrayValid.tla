----------------------------- MODULE MCArrayValid -----------------------------
(* Model-checking instance of ArrayValid: a root, one slab below it that   *)
(* may be a meta slab, and one leaf, so trees of up to three levels and a  *)
(* leaf shared by two headers can be built.                                *)
EXTENDS ArrayValid, TLC

CONSTANTS r, x, y

LOCAL SeqsOf(S, n) == UNION {[1..m -> S] : m \in 0..n}

MCChildSeqs == (r :> SeqsOf({x, y}, 2)) @@ (x :> SeqsOf({y}, 1)) @@ (y :> {})
==============================================================================
