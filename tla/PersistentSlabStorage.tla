------------------------- MODULE PersistentSlabStorage -------------------------
(***************************************************************************)
(* PersistentSlabStorage of storage.go: a write-back map of pending slab   *)
(* writes (deltas, where a nil slab marks a removal) and a read cache in   *)
(* front of a BaseStorage.  Commit encodes the owned deltas and hands them *)
(* to the base store in ascending StorageID order, one call per step; any  *)
(* call may fail and end the commit with an error.  With AutoCommit,       *)
(* Store and Remove call the base store directly.                          *)
(*                                                                         *)
(* The storage is used by one goroutine: no operation starts while a      *)
(* commit is running.  Calls that fail without changing state (a failed   *)
(* write-through Store, a failed base Retrieve, a Retrieve served from     *)
(* deltas or the cache) are stuttering steps and not written as actions.   *)
(***************************************************************************)
EXTENDS BaseStorage
LOCAL SX == INSTANCE SequencesExt

CONSTANTS
    AutoCommitModes,  \* values of the WithAutoCommit option
    EncodeMayFail,  \* Encode can return an error for a slab
    NoEntry,        \* no entry for this id in deltas or cache
    Tombstone,      \* the nil slab Remove records in deltas
    NoSlab          \* Retrieve finds no slab

VARIABLES
    cache,              \* read cache: StorageID -> slab
    deltas,             \* pending writes: StorageID -> slab or Tombstone
    tempStorageIndex,   \* counter for AddressUndefined handles
    autoCommit,         \* s.autoCommit, set by NewPersistentSlabStorage
    allocated,          \* handles GenerateStorageID has returned to callers
    committing,         \* a Commit call is in progress
    commitKeys          \* the sorted keys the running Commit has still to write

vars == <<segments, storageIndex, cache, deltas, tempStorageIndex, autoCommit, allocated,
          committing, commitKeys>>

TypeOK ==
    /\ BaseTypeOK
    /\ cache \in [StorageIDs -> SlabValues \cup {NoEntry}]
    /\ deltas \in [StorageIDs -> SlabValues \cup {Tombstone, NoEntry}]
    /\ tempStorageIndex \in 0..MaxIndex
    /\ autoCommit \in BOOLEAN
    /\ allocated \subseteq StorageIDs
    /\ committing \in BOOLEAN
    /\ commitKeys \in Seq(OwnedStorageIDs)

\* NewPersistentSlabStorage over an empty base store.
Init ==
    /\ BaseInit
    /\ cache = [id \in StorageIDs |-> NoEntry]
    /\ deltas = [id \in StorageIDs |-> NoEntry]
    /\ tempStorageIndex = 0
    /\ autoCommit \in AutoCommitModes
    /\ allocated = {}
    /\ committing = FALSE
    /\ commitKeys = <<>>

-----------------------------------------------------------------------------
(* The slab Retrieve returns for id: deltas first (a tombstone hides the    *)
(* slab), then the read cache, then the decoded base segment.               *)
View(id) ==
    CASE deltas[id] = Tombstone -> NoSlab
      [] deltas[id] # NoEntry   -> deltas[id]
      [] cache[id] # NoEntry    -> cache[id]
      [] segments[id] = NoData  -> NoSlab
      [] OTHER                  -> DecodeSlab(id, segments[id])

\* What the base store holds, decoded.
Persisted(id) == IF segments[id] = NoData THEN NoSlab ELSE DecodeSlab(id, segments[id])

\* Mutation: the AddressUndefined filter is missing.
sortedDeltaKeysUnfiltered ==
    SX!SetToSortSeq({id \in StorageIDs : deltas[id] # NoEntry}, LessStorageID)

\* sortedOwnedDeltaKeys: the delta keys of defined addresses, sorted.
sortedOwnedDeltaKeys ==
    SX!SetToSortSeq({id \in StorageIDs : deltas[id] # NoEntry
                                      /\ StorageIDAddress(id) # AddressUndefined},
                 LessStorageID)

Idle == ~committing

-----------------------------------------------------------------------------
(* GenerateStorageID: a temporary handle from the in-memory counter, or an *)
(* owned one from the base store's allocator.                              *)
GenerateStorageID(address) ==
    /\ Idle
    /\ \/ /\ address = AddressUndefined
          /\ tempStorageIndex < MaxIndex
          /\ tempStorageIndex' = tempStorageIndex + 1
          /\ allocated' = allocated \cup {NewStorageID(address, tempStorageIndex + 1)}
          /\ UNCHANGED storageIndex
       \/ /\ address # AddressUndefined
          /\ BaseGenerateStorageID(address)
          /\ allocated' = allocated \cup {BaseGeneratedStorageID(address)}
          /\ UNCHANGED tempStorageIndex
    /\ UNCHANGED <<segments, cache, deltas, autoCommit, committing, commitKeys>>

(* Store: record the slab in deltas, or with AutoCommit encode it, store   *)
(* it in the base and put it in the read cache (deltas are left alone).    *)
Store(id, slab) ==
    /\ Idle
    /\ id \in allocated
    /\ \/ /\ ~autoCommit
          /\ deltas' = [deltas EXCEPT ![id] = slab]
          /\ UNCHANGED <<segments, cache>>
       \/ /\ autoCommit
          /\ BaseStore(id, Encode(slab))
          /\ cache' = [cache EXCEPT ![id] = slab]
          /\ UNCHANGED deltas
    /\ UNCHANGED <<storageIndex, tempStorageIndex, autoCommit, allocated, committing,
                   commitKeys>>

(* Remove: with AutoCommit first remove from the base; in both modes then  *)
(* record the nil slab in deltas.                                          *)
Remove(id) ==
    /\ Idle
    /\ id \in allocated
    /\ IF autoCommit THEN BaseRemove(id) ELSE UNCHANGED segments
    /\ deltas' = [deltas EXCEPT ![id] = Tombstone]
    /\ UNCHANGED <<storageIndex, cache, tempStorageIndex, autoCommit, allocated, committing,
                   commitKeys>>

(* Retrieve, on a miss in deltas and cache: fetch from the base store and  *)
(* cache the decoded slab.  An absent segment fails to decode and nothing  *)
(* is cached.                                                              *)
Retrieve(id) ==
    /\ Idle
    /\ id \in allocated
    /\ deltas[id] = NoEntry
    /\ cache[id] = NoEntry
    /\ segments[id] # NoData
    /\ cache' = [cache EXCEPT ![id] = DecodeSlab(id, segments[id])]
    /\ UNCHANGED <<segments, storageIndex, deltas, tempStorageIndex, autoCommit, allocated,
                   committing, commitKeys>>

DropDeltas ==
    /\ Idle
    /\ deltas' = [id \in StorageIDs |-> NoEntry]
    /\ UNCHANGED <<segments, storageIndex, cache, tempStorageIndex, autoCommit, allocated,
                   committing, commitKeys>>

DropCache ==
    /\ Idle
    /\ cache' = [id \in StorageIDs |-> NoEntry]
    /\ UNCHANGED <<segments, storageIndex, deltas, tempStorageIndex, autoCommit, allocated,
                   committing, commitKeys>>

-----------------------------------------------------------------------------
(* Commit, one step per loop iteration.                                    *)
CommitBegin ==
    /\ Idle
    /\ committing' = TRUE
    /\ commitKeys' = sortedOwnedDeltaKeys
    /\ UNCHANGED <<segments, storageIndex, cache, deltas, tempStorageIndex, autoCommit, allocated>>

\* Mutation: a nil slab is skipped instead of removed from the base.
CommitStepSkipsRemove ==
    LET id == Head(commitKeys) IN
    /\ committing
    /\ commitKeys # <<>>
    /\ \/ /\ deltas[id] = Tombstone
          /\ UNCHANGED <<segments, cache>>
       \/ /\ deltas[id] # Tombstone
          /\ BaseStore(id, Encode(deltas[id]))
          /\ cache' = [cache EXCEPT ![id] = deltas[id]]
    /\ commitKeys' = Tail(commitKeys)
    /\ UNCHANGED <<storageIndex, deltas, tempStorageIndex, autoCommit, allocated, committing>>

(* One key: a nil slab is removed from the base; any other is encoded,     *)
(* stored, and added to the read cache.                                    *)
CommitStep ==
    LET id == Head(commitKeys) IN
    /\ committing
    /\ commitKeys # <<>>
    /\ \/ /\ deltas[id] = Tombstone
          /\ BaseRemove(id)
          /\ UNCHANGED cache
       \/ /\ deltas[id] # Tombstone
          /\ BaseStore(id, Encode(deltas[id]))
          /\ cache' = [cache EXCEPT ![id] = deltas[id]]
    /\ commitKeys' = Tail(commitKeys)
    /\ UNCHANGED <<storageIndex, deltas, tempStorageIndex, autoCommit, allocated, committing>>

\* Mutation: the error return also drops the pending writes.
CommitFailDropsDeltas ==
    /\ committing
    /\ commitKeys # <<>>
    /\ \/ BaseMayFail
       \/ EncodeMayFail /\ deltas[Head(commitKeys)] # Tombstone
    /\ committing' = FALSE
    /\ commitKeys' = <<>>
    /\ deltas' = [id \in StorageIDs |-> NoEntry]
    /\ UNCHANGED <<segments, storageIndex, cache, tempStorageIndex, autoCommit,
                   allocated>>

(* The base Remove or Store, or the Encode, of the next key returns an     *)
(* error: Commit returns it, deltas untouched, earlier writes kept.        *)
CommitFail ==
    /\ committing
    /\ commitKeys # <<>>
    /\ \/ BaseMayFail
       \/ EncodeMayFail /\ deltas[Head(commitKeys)] # Tombstone
    /\ committing' = FALSE
    /\ commitKeys' = <<>>
    /\ UNCHANGED <<segments, storageIndex, cache, deltas, tempStorageIndex, autoCommit,
                   allocated>>

\* Every key written: reset deltas.
CommitEnd ==
    /\ committing
    /\ commitKeys = <<>>
    /\ committing' = FALSE
    /\ deltas' = [id \in StorageIDs |-> NoEntry]
    /\ UNCHANGED <<segments, storageIndex, cache, tempStorageIndex, autoCommit, allocated,
                   commitKeys>>

Next ==
    \/ \E a \in Addresses : GenerateStorageID(a)
    \/ \E id \in StorageIDs :
          \/ \E s \in SlabValues : Store(id, s)
          \/ Remove(id)
          \/ Retrieve(id)
    \/ DropDeltas
    \/ DropCache
    \/ CommitBegin
    \/ CommitStep
    \/ CommitFail
    \/ CommitEnd

Spec == Init /\ [][Next]_vars

-----------------------------------------------------------------------------
(* Properties.                                                             *)

(* Every handle GenerateStorageID returns, written with ToRawBytes into   *)
(* any buffer of at least 16 bytes and read back with                     *)
(* NewStorageIDFromRawBytes, is the same handle, the bytes past the 16th  *)
(* are untouched, and a shorter buffer is refused by both conversions:    *)
(* the 16-byte handle tag of spec.md survives serialisation unchanged.    *)
RawBytesRoundTrip ==
    [][\A id \in allocated' \ allocated, b \in RawBuffers : RawBytesRoundTrips(id, b)]_vars

ViewMap == [id \in StorageIDs |-> View(id)]
OwnedDeltaKeys == {id \in OwnedStorageIDs : deltas[id] # NoEntry}

(* While Commit works through its keys, neither a successful base write    *)
(* nor the error that aborts it (Commit's early returns) changes what      *)
(* Retrieve returns for any handle: deltas are only dropped at the end,    *)
(* so a failed commit can be retried with the same pending writes.         *)
CommitWritesKeepView ==
    [][committing /\ commitKeys # <<>> => ViewMap' = ViewMap]_vars

(* When Commit reaches its last step, the base store holds every owned     *)
(* pending write, including those an earlier, failed Commit already wrote  *)
(* and those it never reached: a nil slab as an absent segment, any other  *)
(* slab encoded.                                                           *)
CommittedDeltasPersisted ==
    committing /\ commitKeys = <<>> =>
        \A id \in OwnedDeltaKeys : Persisted(id) = View(id)

(* Read-cache consistency: for every handle with no pending write, a slab  *)
(* in the read cache is the slab the base store holds.  Retrieve serves    *)
(* the cache before the base (lines 1004-1010), so a stale entry is        *)
(* returned as the stored slab; spec.md 4.2 says a committed removal makes *)
(* the handle absent.                                                      *)
CacheMatchesBase ==
    \A id \in StorageIDs :
        deltas[id] = NoEntry /\ cache[id] # NoEntry => cache[id] = Persisted(id)

(* The storage implements the SlabStore contract: Retrieve sees the last   *)
(* Store or Remove, a commit only writes back pending values, and after a  *)
(* commit or DropDeltas Retrieve returns what the base store holds.        *)
SlabStoreAbs == INSTANCE SlabStore WITH
    Ids <- StorageIDs, OwnedIds <- OwnedStorageIDs, writeThrough <- autoCommit,
    view <- ViewMap, persisted <- [id \in StorageIDs |-> Persisted(id)]

ImplementsSlabStore == SlabStoreAbs!Spec
========================================================================================================================================================
