----------------------------- MODULE BaseStorage -----------------------------
(***************************************************************************)
(* The byte-level BaseStorage of storage.go as InMemBaseStorage implements *)
(* it: segments maps a StorageID to encoded bytes, storageIndex holds the  *)
(* per-address allocation counter.  LedgerBaseStorage behaves the same way *)
(* over a Ledger (its key "$"||index, an empty value meaning absent) but   *)
(* its calls may fail with the ledger's error; BaseMayFail selects that.   *)
(* The usage reporter counters are metrics and are left out.               *)
(***************************************************************************)
EXTENDS StorageID, SlabCodec

CONSTANTS
    NoData,         \* an absent segment (Retrieve's ok = false)
    BaseMayFail     \* TRUE for a ledger whose calls can return an error

VARIABLES segments, storageIndex
baseVars == <<segments, storageIndex>>

BaseTypeOK ==
    /\ segments \in [StorageIDs -> EncodedData \cup {NoData}]
    /\ storageIndex \in [OwnedAddresses -> 0..MaxIndex]

BaseInit ==
    /\ segments = [id \in StorageIDs |-> NoData]
    /\ storageIndex = [a \in OwnedAddresses |-> 0]

\* Store and Remove: the map write and the map delete.
BaseStore(id, data) == segments' = [segments EXCEPT ![id] = data]
BaseRemove(id) == segments' = [segments EXCEPT ![id] = NoData]

\* GenerateStorageID: bump the address's counter and return the new index.
BaseGenerateStorageID(address) ==
    /\ storageIndex[address] < MaxIndex
    /\ storageIndex' = [storageIndex EXCEPT ![address] = StorageIndexNext(@)]

BaseGeneratedStorageID(address) == NewStorageID(address, StorageIndexNext(storageIndex[address]))
==============================================================================
