---------------------------- MODULE StorageHealth ----------------------------
(***************************************************************************)
(* BasicSlabStorage.CheckHealth of array_debug.go.  The slab map and the   *)
(* expected number of roots are inputs, chosen in Init; each loop          *)
(* iteration of the function is one step.  The first loop visits the slabs *)
(* (in Go's random map order) and records the parent of every referenced   *)
(* slab; the second starts at every leaf (in random order again) and       *)
(* follows parentOf up to a root; the last compares counts.                *)
(*                                                                         *)
(* A slab is a kind and the set of handles it references: the StorableSlab *)
(* elements of an ArrayDataSlab, the child headers of a meta slab, the     *)
(* StorageIDStorable keys and values of a MapDataSlab.                     *)
(***************************************************************************)
EXTENDS StorageID, FiniteSets

LOCAL G == INSTANCE Graphs

CONSTANTS
    SlabIds,        \* the handles a slab map may hold or reference
    MaxRefs,        \* references per slab
    ExpectedRoots,  \* values of expectedNumberOfRootSlabs
    NoSlab,         \* no slab under this handle
    NoParent        \* no entry in parentOf

DataKinds == {"arrayData", "mapData"}
MetaKinds == {"arrayMeta", "mapMeta"}

\* "unknown" is any other slab type (the default case).
Slabs ==
    [kind : {"storable", "unknown"}, refs : {{}}]
    \cup [kind : DataKinds \cup MetaKinds,
          refs : {R \in SUBSET SlabIds : Cardinality(R) <= MaxRefs}]

VARIABLES
    slabs,          \* s.Slabs
    expected,       \* expectedNumberOfRootSlabs
    pc,             \* "scan", "walk", "climb", "count" or "done"
    scanned,        \* slabs the first loop has visited
    parentOf,
    pending,        \* leafs not yet walked from
    cur,            \* id in the parent-following loop
    visited,
    rootsMap,
    err             \* CheckHealth returned an error

vars == <<slabs, expected, pc, scanned, parentOf, pending, cur, visited, rootsMap, err>>

Present == {id \in SlabIds : slabs[id] # NoSlab}

\* A storable slab, or a data slab with no external reference.
IsLeaf(id) ==
    \/ slabs[id].kind = "storable"
    \/ slabs[id].kind \in DataKinds /\ slabs[id].refs = {}

TypeOK ==
    /\ slabs \in [SlabIds -> Slabs \cup {NoSlab}]
    /\ expected \in ExpectedRoots
    /\ pc \in {"scan", "walk", "climb", "count", "done"}
    /\ scanned \subseteq Present
    /\ parentOf \in [SlabIds -> SlabIds \cup {NoParent}]
    /\ pending \subseteq Present
    /\ cur \in SlabIds \cup {NoSlab}
    /\ visited \subseteq SlabIds /\ rootsMap \subseteq SlabIds
    /\ err \in BOOLEAN

Init ==
    /\ slabs \in [SlabIds -> Slabs \cup {NoSlab}]
    /\ expected \in ExpectedRoots
    /\ pc = "scan"
    /\ scanned = {}
    /\ parentOf = [id \in SlabIds |-> NoParent]
    /\ pending = {}
    /\ cur = NoSlab
    /\ visited = {}
    /\ rootsMap = {}
    /\ err = FALSE

Return(e) == pc' = "done" /\ err' = e

-----------------------------------------------------------------------------
(* One slab of the first loop: an unknown type, or a reference to a slab   *)
(* that already has a parent, returns an error; otherwise the references   *)
(* are recorded and a slab without one is a leaf.                          *)
ScanSlab(id) ==
    LET s == slabs[id] IN
    /\ pc = "scan"
    /\ id \in Present \ scanned
    /\ \/ /\ s.kind = "unknown"
          /\ Return(TRUE)
          /\ UNCHANGED <<scanned, parentOf, pending>>
       \/ /\ s.kind # "unknown"
          /\ \E c \in s.refs : parentOf[c] # NoParent
          /\ Return(TRUE)
          /\ UNCHANGED <<scanned, parentOf, pending>>
       \/ /\ s.kind # "unknown"
          /\ \A c \in s.refs : parentOf[c] = NoParent
          /\ parentOf' = [c \in SlabIds |-> IF c \in s.refs THEN id ELSE parentOf[c]]
          /\ pending' = IF IsLeaf(id) THEN pending \cup {id} ELSE pending
          /\ scanned' = scanned \cup {id}
          /\ UNCHANGED <<pc, err>>
    /\ UNCHANGED <<slabs, expected, cur, visited, rootsMap>>

ScanDone ==
    /\ pc = "scan"
    /\ scanned = Present
    /\ pc' = "walk"
    /\ UNCHANGED <<slabs, expected, scanned, parentOf, pending, cur, visited, rootsMap, err>>

\* Start at a leaf: a leaf already visited is an error.
WalkLeaf(leaf) ==
    /\ pc = "walk"
    /\ leaf \in pending
    /\ pending' = pending \ {leaf}
    /\ \/ /\ leaf \in visited
          /\ Return(TRUE)
          /\ UNCHANGED <<cur, visited>>
       \/ /\ leaf \notin visited
          /\ visited' = visited \cup {leaf}
          /\ cur' = leaf
          /\ pc' = "climb"
          /\ UNCHANGED err
    /\ UNCHANGED <<slabs, expected, scanned, parentOf, rootsMap>>

\* Mutation: the loop does not move up to the parent.
ClimbStaysPut ==
    LET p == parentOf[cur] IN
    /\ pc = "climb"
    /\ \/ /\ p = NoParent
          /\ rootsMap' = rootsMap \cup {cur}
          /\ pc' = "walk"
          /\ UNCHANGED <<cur, visited, err>>
       \/ /\ p # NoParent
          /\ visited' = visited \cup {p}
          /\ \/ /\ StorageIDAddress(cur) # StorageIDAddress(p)
                /\ Return(TRUE)
                /\ UNCHANGED cur
             \/ /\ StorageIDAddress(cur) = StorageIDAddress(p)
                /\ UNCHANGED <<cur, pc, err>>
          /\ UNCHANGED rootsMap
    /\ UNCHANGED <<slabs, expected, scanned, parentOf, pending>>

(* One iteration of the inner for loop: at a slab without a parent record  *)
(* a root; otherwise mark the parent visited, and return an error if it    *)
(* has another address than the child.                                     *)
Climb ==
    LET p == parentOf[cur] IN
    /\ pc = "climb"
    /\ \/ /\ p = NoParent
          /\ rootsMap' = rootsMap \cup {cur}
          /\ pc' = "walk"
          /\ UNCHANGED <<cur, visited, err>>
       \/ /\ p # NoParent
          /\ visited' = visited \cup {p}
          /\ \/ /\ StorageIDAddress(cur) # StorageIDAddress(p)
                /\ Return(TRUE)
                /\ UNCHANGED cur
             \/ /\ StorageIDAddress(cur) = StorageIDAddress(p)
                /\ cur' = p
                /\ UNCHANGED <<pc, err>>
          /\ UNCHANGED rootsMap
    /\ UNCHANGED <<slabs, expected, scanned, parentOf, pending>>

WalkDone ==
    /\ pc = "walk"
    /\ pending = {}
    /\ pc' = "count"
    /\ UNCHANGED <<slabs, expected, scanned, parentOf, pending, cur, visited, rootsMap, err>>

\* Mutation: the check that every slab was visited is missing.
CountRootsOnly ==
    /\ pc = "count"
    /\ Return(Cardinality(rootsMap) # expected)
    /\ UNCHANGED <<slabs, expected, scanned, parentOf, pending, cur, visited, rootsMap>>

\* Every slab visited, and as many roots as expected.
Count ==
    /\ pc = "count"
    /\ Return(Cardinality(visited) # Cardinality(Present) \/ Cardinality(rootsMap) # expected)
    /\ UNCHANGED <<slabs, expected, scanned, parentOf, pending, cur, visited, rootsMap>>

Next ==
    \/ \E id \in SlabIds : ScanSlab(id) \/ WalkLeaf(id)
    \/ ScanDone
    \/ Climb
    \/ WalkDone
    \/ Count

\* A running function keeps running.
Spec == Init /\ [][Next]_vars /\ WF_vars(Next)

-----------------------------------------------------------------------------
(* Properties.                                                             *)

\* The references between present slabs as a graph (edges parent -> child).
RefGraph ==
    [node |-> Present,
     edge |-> {<<p, c>> \in Present \X Present : c \in slabs[p].refs}]

(* The healthy slab maps, defined on the whole map rather than by a walk:  *)
(* known slab types; no handle referenced twice; no reference cycle;      *)
(* parents and children owned by one address; every slab above a leaf;    *)
(* as many parentless slabs as expected.                                  *)
Forest ==
    /\ \A id \in Present : slabs[id].kind # "unknown"
    /\ \A c \in SlabIds : Cardinality({p \in Present : c \in slabs[p].refs}) <= 1
    /\ ~G!HasCycle(RefGraph)
    /\ \A e \in RefGraph.edge : StorageIDAddress(e[1]) = StorageIDAddress(e[2])
    /\ \A n \in Present : \E l \in Present : IsLeaf(l) /\ (l = n \/ l \in G!Descendants(RefGraph, n))
    /\ Cardinality(G!Roots(RefGraph)) = expected

(* When CheckHealth returns, whatever order Go's map iteration gave the    *)
(* slabs and the leafs, it returns nil exactly for the healthy slab maps.  *)
CheckHealthDecidesForest == pc = "done" => (err = ~Forest)

(* CheckHealth returns, unless the references have a cycle.                *)
ReturnsWhenAcyclic == <>(pc = "done" \/ G!HasCycle(RefGraph))

(* CheckHealth returns on every slab map.                                  *)
CheckHealthReturns == <>(pc = "done")

(* A slab map CheckHealth accepts references no missing slab: every slab   *)
(* of the tree it reports healthy is in storage.                           *)
NilMeansNoDanglingReference ==
    pc = "done" /\ ~err => \A id \in Present : slabs[id].refs \subseteq Present
==============================================================================
