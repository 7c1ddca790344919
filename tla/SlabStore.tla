------------------------------ MODULE SlabStore ------------------------------
(***************************************************************************)
(* What a SlabStorage promises its collections (spec.md 4.2, 3.3): a store *)
(* of slabs under freshly allocated handles with two layers.  The view is  *)
(* what Retrieve returns; persisted is what the base store holds.  Writes  *)
(* change the view (and, write-through, the persisted layer too); a commit *)
(* copies owned handles' view into persisted one handle at a time, which   *)
(* may stop after any prefix; dropping the pending writes, and the end of  *)
(* a commit, make the view the persisted layer again.                      *)
(***************************************************************************)
CONSTANTS
    Ids,            \* the handles that can be allocated
    OwnedIds,       \* the handles owned by an account (committed ones)
    SlabValues,
    NoSlab          \* no slab under this handle

VARIABLES
    view, persisted, allocated,
    writeThrough    \* writes go straight to the persisted layer (fixed)
vars == <<view, persisted, allocated, writeThrough>>

TypeOK ==
    /\ view \in [Ids -> SlabValues \cup {NoSlab}]
    /\ persisted \in [Ids -> SlabValues \cup {NoSlab}]
    /\ allocated \subseteq Ids
    /\ writeThrough \in BOOLEAN

Init ==
    /\ view = [id \in Ids |-> NoSlab]
    /\ persisted = [id \in Ids |-> NoSlab]
    /\ allocated = {}
    /\ writeThrough \in BOOLEAN

\* Allocation hands out a handle never handed out before.
Allocate ==
    /\ \E id \in Ids \ allocated : allocated' = allocated \cup {id}
    /\ UNCHANGED <<view, persisted, writeThrough>>

Write(id, v) ==
    /\ id \in allocated
    /\ view' = [view EXCEPT ![id] = v]
    /\ persisted' = IF writeThrough THEN [persisted EXCEPT ![id] = v] ELSE persisted
    /\ UNCHANGED <<allocated, writeThrough>>

Put(id, s) == Write(id, s)
Delete(id) == Write(id, NoSlab)

\* One base-store call of a commit: an owned handle's view becomes persistent.
WriteBack(id) ==
    /\ id \in OwnedIds
    /\ persisted' = [persisted EXCEPT ![id] = view[id]]
    /\ UNCHANGED <<view, allocated, writeThrough>>

\* Dropping pending writes, or finishing a commit: the view is what persists.
Revert ==
    /\ view' = persisted
    /\ UNCHANGED <<persisted, allocated, writeThrough>>

Next ==
    \/ Allocate
    \/ \E id \in Ids, s \in SlabValues : Put(id, s)
    \/ \E id \in Ids : Delete(id) \/ WriteBack(id)
    \/ Revert

Spec == Init /\ [][Next]_vars
==============================================================================
