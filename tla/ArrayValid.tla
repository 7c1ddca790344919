------------------------------ MODULE ArrayValid ------------------------------
(***************************************************************************)
(* The array debug helpers of array_debug.go: Array.valid / _valid, the    *)
(* recursive validator the array tests call after every mutation, and      *)
(* ArrayStats, the level-by-level walk that counts slabs.  Both are pure   *)
(* functions of the slabs in storage, so they are operators here and the   *)
(* slab map is the input, chosen in Init and never changed.                *)
(*                                                                         *)
(* A slab is abstracted to what the two functions read: its kind, its      *)
(* elements (their ByteSize), its child headers (handle and element        *)
(* count), its header count and size, whether IsFull or IsUnderflow holds  *)
(* (fillOK is neither), and its extra data (NoExtra, or the type info).    *)
(* getArraySlab fails for a handle with no slab.                           *)
(***************************************************************************)
EXTENDS Naturals, Sequences
LOCAL SX == INSTANCE SequencesExt

CONSTANTS
    Ids,            \* slab handles
    Root,           \* a.root.Header().id
    ChildSeqs,      \* ChildSeqs[id]: the child-handle sequences a meta slab at id may list
    MaxElems,       \* elements per data slab
    ElemSizes,      \* values of Storable.ByteSize
    Counts,         \* values of a meta slab's header count
    HeaderCounts,   \* values of the count in a child header
    Sizes,          \* values of a header size
    TypeInfos,      \* values of the root's extra-data type info
    TypeInfo,       \* the typeInfo argument of valid
    DataPrefix,     \* arrayDataSlabPrefixSize
    MetaPrefix,     \* arrayMetaDataSlabPrefixSize
    HeaderSize,     \* arraySlabHeaderSize
    NoSlab,         \* getArraySlab returns an error
    NoExtra         \* ExtraData() is nil

ASSUME Root \in Ids /\ TypeInfo \in TypeInfos

Extras(id) == IF id = Root THEN {NoExtra} \cup TypeInfos ELSE {NoExtra, TypeInfo}

DataSlabs(id) ==
    [kind : {"data"}, elems : SX!SeqOf(ElemSizes, MaxElems), children : {<<>>},
     count : 0..MaxElems, size : Sizes, fillOK : BOOLEAN, extra : Extras(id)]

\* A child header: the child's handle and the element count it records.
Headers(hs) == {[j \in DOMAIN hs |-> [id |-> hs[j], count |-> c[j]]] : c \in [DOMAIN hs -> HeaderCounts]}

MetaSlabs(id) ==
    [kind : {"meta"}, elems : {<<>>}, children : UNION {Headers(hs) : hs \in ChildSeqs[id]},
     count : Counts, size : Sizes, fillOK : BOOLEAN, extra : Extras(id)]

SlabsAt(id) == DataSlabs(id) \cup (IF ChildSeqs[id] = {} THEN {} ELSE MetaSlabs(id)) \cup {NoSlab}

\* The slab maps over the handles D, built handle by handle.
RECURSIVE SlabMaps(_)
SlabMaps(D) ==
    IF D = {} THEN {[id \in {} |-> NoSlab]}
    ELSE LET i == CHOOSE i \in D : TRUE IN
         {[id \in D |-> IF id = i THEN s ELSE m[id]] :
             m \in SlabMaps(D \ {i}),
             s \in SlabsAt(i)}

VARIABLE slabs

TypeOK == slabs \in [Ids -> UNION {SlabsAt(id) : id \in Ids}] /\ \A id \in Ids : slabs[id] \in SlabsAt(id)

\* Every slab map: the root's slab chosen apart from the rest's map.
Init ==
    \E rest \in SlabMaps(Ids \ {Root}), s \in SlabsAt(Root) :
        slabs = [id \in Ids |-> IF id = Root THEN s ELSE rest[id]]

\* The slab map does not change: both functions only read it.
Next == UNCHANGED slabs

Spec == Init /\ [][Next]_slabs

-----------------------------------------------------------------------------
SumSeq(s) == SX!FoldSeq(+, 0, s)

(* _valid(id, level) as <<verified, count, err>>: a missing slab, or extra *)
(* data below the root, is an error; a data slab checks fill (not at the   *)
(* root), count and size; a meta slab validates its children in order,     *)
(* returning at the first one that fails, then checks its own fill, count  *)
(* against the children's sum and size against its header count.          *)
RECURSIVE ValidSlabFillAtRoot(_, _), ValidSlab(_, _), ValidChildren(_, _, _, _)

\* Mutation: the root is held to the fill bounds too.
ValidSlabFillAtRoot(id, level) ==
    LET s == slabs[id] IN
    IF s = NoSlab THEN <<FALSE, 0, TRUE>>
    ELSE IF level > 0 /\ s.extra # NoExtra THEN <<FALSE, 0, TRUE>>
    ELSE IF s.kind = "data"
    THEN <<s.fillOK /\ Len(s.elems) = s.count /\ DataPrefix + SumSeq(s.elems) = s.size,
           Len(s.elems), FALSE>>
    ELSE LET r == ValidChildren(s.children, 1, level + 1, 0) IN
         IF ~r[1] THEN <<FALSE, 0, r[3]>>
         ELSE <<s.fillOK /\ r[2] = s.count /\ Len(s.children) * HeaderSize + MetaPrefix = s.size,
                r[2], FALSE>>

ValidSlab(id, level) ==
    LET s == slabs[id] IN
    IF s = NoSlab THEN <<FALSE, 0, TRUE>>
    ELSE IF level > 0 /\ s.extra # NoExtra THEN <<FALSE, 0, TRUE>>
    ELSE IF s.kind = "data"
    THEN <<(level = 0 \/ s.fillOK)
             /\ Len(s.elems) = s.count
             /\ DataPrefix + SumSeq(s.elems) = s.size,
           Len(s.elems), FALSE>>
    ELSE LET r == ValidChildren(s.children, 1, level + 1, 0) IN
         IF ~r[1] THEN <<FALSE, 0, r[3]>>
         ELSE <<(level = 0 \/ s.fillOK)
                  /\ r[2] = s.count
                  /\ Len(s.children) * HeaderSize + MetaPrefix = s.size,
                r[2], FALSE>>

\* The loop over meta.childrenHeaders from position i, with the sum so far.
ValidChildren(hs, i, level, sum) ==
    IF i > Len(hs) THEN <<TRUE, sum, FALSE>>
    ELSE LET r == ValidSlab(hs[i].id, level) IN
         IF ~r[1] \/ r[3] THEN <<FALSE, 0, r[3]>>
         ELSE ValidChildren(hs, i + 1, level, sum + r[2])

\* Array.valid(typeInfo) as <<verified, err>>: the root must carry extra
\* data with the expected type info.
Valid ==
    LET root == slabs[Root] IN
    IF root = NoSlab THEN <<FALSE, TRUE>>
    ELSE IF root.extra = NoExtra \/ root.extra # TypeInfo THEN <<FALSE, TRUE>>
    ELSE LET r == ValidSlab(Root, 0) IN <<r[1], r[3]>>

(* ArrayStats: the handles of one level in order; a missing slab is an     *)
(* error, a data slab is counted, a meta slab is counted and its children  *)
(* form the next level.  Levels is the number of levels walked.            *)
RECURSIVE StatsFromCountsAll(_, _, _, _), StatsFrom(_, _, _, _)

\* Mutation: every slab of a level is counted as a data slab.
StatsFromCountsAll(ids, level, metaCount, dataCount) ==
    IF ids = <<>>
    THEN [err |-> FALSE, levels |-> level, meta |-> metaCount, data |-> dataCount]
    ELSE IF \E j \in DOMAIN ids : slabs[ids[j]] = NoSlab
    THEN [err |-> TRUE, levels |-> 0, meta |-> 0, data |-> 0]
    ELSE LET IsMeta(id) == slabs[id].kind = "meta"
             metas == SelectSeq(ids, IsMeta)
             next == SX!FlattenSeq([j \in DOMAIN metas |->
                         [k \in DOMAIN slabs[metas[j]].children |-> slabs[metas[j]].children[k].id]])
         IN StatsFrom(next, level + 1, metaCount + Len(metas), dataCount + Len(ids))

StatsFrom(ids, level, metaCount, dataCount) ==
    IF ids = <<>>
    THEN [err |-> FALSE, levels |-> level, meta |-> metaCount, data |-> dataCount]
    ELSE IF \E j \in DOMAIN ids : slabs[ids[j]] = NoSlab
    THEN [err |-> TRUE, levels |-> 0, meta |-> 0, data |-> 0]
    ELSE LET IsMeta(id) == slabs[id].kind = "meta"
             metas == SelectSeq(ids, IsMeta)
             next == SX!FlattenSeq([j \in DOMAIN metas |->
                         [k \in DOMAIN slabs[metas[j]].children |-> slabs[metas[j]].children[k].id]])
         IN StatsFrom(next, level + 1, metaCount + Len(metas), dataCount + Len(ids) - Len(metas))

ArrayStats == StatsFrom(<<Root>>, 0, 0, 0)

-----------------------------------------------------------------------------
(* Reference definitions, over the tree below the root rather than by the  *)
(* functions' loops and early returns.                                     *)

ChildIds(id) == {h.id : h \in SX!ToSet(slabs[id].children)}

RECURSIVE Below(_)
Below(id) == {id} \cup (IF slabs[id] = NoSlab THEN {} ELSE UNION {Below(c) : c \in ChildIds(id)})

\* Elements in the subtree of id, a shared child counted once per header.
RECURSIVE Elements(_)
Elements(id) ==
    IF slabs[id].kind = "data" THEN Len(slabs[id].elems)
    ELSE SumSeq([j \in DOMAIN slabs[id].children |-> Elements(slabs[id].children[j].id)])

EncodedSize(id) ==
    IF slabs[id].kind = "data" THEN DataPrefix + SumSeq(slabs[id].elems)
    ELSE MetaPrefix + HeaderSize * Len(slabs[id].children)

Missing == \E id \in Below(Root) : slabs[id] = NoSlab

\* The tree is broken: a slab missing, or extra data where it must not be.
Broken ==
    \/ Missing
    \/ slabs[Root].extra # TypeInfo
    \/ \E id \in Below(Root) \ {Root} : slabs[id].extra # NoExtra

\* Every slab of the tree has its header count and size right, and every
\* slab but the root is neither full nor underflowing.
WellFormed ==
    /\ ~Broken
    /\ \A id \in Below(Root) :
          /\ slabs[id].count = Elements(id)
          /\ slabs[id].size = EncodedSize(id)
          /\ id # Root => slabs[id].fillOK

\* Levels of the tree, and its slabs counted once per path from the root.
RECURSIVE Height(_), Occurrences(_, _)
Height(id) ==
    1 + SX!FoldSeq(LAMBDA h, m : IF h > m THEN h ELSE m, 0,
                   [j \in DOMAIN slabs[id].children |-> Height(slabs[id].children[j].id)])
Occurrences(id, kind) ==
    (IF slabs[id].kind = kind THEN 1 ELSE 0)
    + SumSeq([j \in DOMAIN slabs[id].children |-> Occurrences(slabs[id].children[j].id, kind)])

-----------------------------------------------------------------------------
(* Properties.                                                             *)

(* Whatever the order of the children, valid reports true exactly for the  *)
(* well-formed trees, the recursion's early return on the first failing    *)
(* child included, and it reports an error only for a broken tree (an      *)
(* error on a later child may be hidden by an earlier invalid one).        *)
ValidDecidesWellFormed ==
    /\ Valid[1] = WellFormed
    /\ Valid[2] => Broken

(* ArrayStats fails exactly when a slab of the tree is missing, and        *)
(* otherwise counts as many levels as the tree is high and every meta and  *)
(* data slab once per path from the root.                                  *)
StatsCountTree ==
    LET st == ArrayStats IN
    /\ st.err = Missing
    /\ ~Missing => /\ st.levels = Height(Root)
                   /\ st.meta = Occurrences(Root, "meta")
                   /\ st.data = Occurrences(Root, "data")

(* A tree valid accepts has child headers that agree with their children:  *)
(* each header's element count is the child's own header count (spec.md    *)
(* 3.1: a meta slab lists its children's headers).                         *)
ValidMeansChildHeadersAgree ==
    Valid[1] =>
        \A id \in Below(Root) : \A h \in SX!ToSet(slabs[id].children) :
            h.count = slabs[h.id].count
==============================================================================
