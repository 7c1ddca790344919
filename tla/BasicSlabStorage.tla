--------------------------- MODULE BasicSlabStorage ---------------------------
(***************************************************************************)
(* BasicSlabStorage of storage.go: the in-memory SlabStorage the tests    *)
(* use.  Slabs maps a StorageID to a slab, storageIndex holds one         *)
(* allocation counter per address (AddressUndefined included).  There is  *)
(* no commit: every write is immediately what the storage holds.  Load    *)
(* fills the map from encoded slabs, as the tests do to reopen a storage. *)
(***************************************************************************)
EXTENDS StorageID, SlabCodec

CONSTANT NoSlab

VARIABLES
    slabs,          \* the Slabs map
    storageIndex,
    allocated       \* handles GenerateStorageID has returned to callers

vars == <<slabs, storageIndex, allocated>>

TypeOK ==
    /\ slabs \in [StorageIDs -> SlabValues \cup {NoSlab}]
    /\ storageIndex \in [Addresses -> 0..MaxIndex]
    /\ allocated \subseteq StorageIDs

Init ==
    /\ slabs = [id \in StorageIDs |-> NoSlab]
    /\ storageIndex = [a \in Addresses |-> 0]
    /\ allocated = {}

GenerateStorageID(address) ==
    /\ storageIndex[address] < MaxIndex
    /\ storageIndex' = [storageIndex EXCEPT ![address] = StorageIndexNext(@)]
    /\ allocated' = allocated \cup
                      {NewStorageID(address, StorageIndexNext(storageIndex[address]))}
    /\ UNCHANGED slabs

\* Retrieve: the slab under id, and whether the map holds one.
Retrieve(id) == [slab |-> slabs[id], found |-> slabs[id] # NoSlab]

\* Callers write the handles they were given or found in the storage.
Known(id) == id \in allocated \/ Retrieve(id).found

Store(id, slab) ==
    /\ Known(id)
    /\ slabs' = [slabs EXCEPT ![id] = slab]
    /\ UNCHANGED <<storageIndex, allocated>>

Remove(id) ==
    /\ Known(id)
    /\ slabs' = [slabs EXCEPT ![id] = NoSlab]
    /\ UNCHANGED <<storageIndex, allocated>>

\* The encoded slab maps Load is given, some entries possibly corrupt.
LoadInputs ==
    UNION {[D -> EncodedData \cup {CorruptData}] : D \in SUBSET StorageIDs}

(* Load: decode every entry, in map order, into Slabs.  The first entry   *)
(* that fails to decode ends the call with an error; the entries decoded *)
(* before it, any subset of the good ones, are already in Slabs.         *)
(* storageIndex is left as it is.                                         *)
Load(m) ==
    LET good == {id \in DOMAIN m : ~DecodeFails(m[id])}
    IN /\ \E done \in SUBSET good :
             /\ done # good => good # DOMAIN m
             /\ slabs' = [id \in StorageIDs |->
                            IF id \in done THEN DecodeSlab(id, m[id]) ELSE slabs[id]]
       /\ UNCHANGED <<storageIndex, allocated>>

Next ==
    \/ \E a \in Addresses : GenerateStorageID(a)
    \/ \E id \in StorageIDs :
          \/ \E s \in SlabValues : Store(id, s)
          \/ Remove(id)
    \/ \E m \in LoadInputs : Load(m)

Spec == Init /\ [][Next]_vars

-----------------------------------------------------------------------------
(* GenerateStorageID returns a fresh handle (spec.md 4.1: "allocate must  *)
(* return a fresh handle per address"): the handle it returns never holds *)
(* a slab, so a caller that stores under it overwrites nothing.  Load     *)
(* writes handles without advancing storageIndex.                         *)
GenerateStorageIDFresh ==
    [][\A a \in Addresses :
          storageIndex'[a] # storageIndex[a] =>
             ~Retrieve(NewStorageID(a, storageIndex'[a])).found]_vars
==============================================================================
