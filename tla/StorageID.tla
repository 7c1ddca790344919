------------------------------ MODULE StorageID ------------------------------
(***************************************************************************)
(* Slab handles of storage.go: a StorageID is an (Address, StorageIndex)   *)
(* pair.  Both are 8-byte big-endian words in the code; here an address is *)
(* a natural (0 is AddressUndefined, the owner of temporary slabs) and an  *)
(* index a natural below the bound MaxIndex (0 is StorageIndexUndefined).  *)
(***************************************************************************)
EXTENDS Naturals, Sequences

LOCAL SX == INSTANCE SequencesExt


CONSTANTS
    NumAddresses,   \* number of account addresses besides AddressUndefined
    MaxIndex        \* bound on every per-address index counter (uint64 in the code)

ASSUME NumAddresses \in Nat /\ MaxIndex \in Nat \ {0}

AddressUndefined == 0
StorageIndexUndefined == 0
OwnedAddresses == 1..NumAddresses
Addresses == {AddressUndefined} \cup OwnedAddresses

NewStorageID(address, index) == <<address, index>>
StorageIDAddress(id) == id[1]
StorageIDIndex(id) == id[2]

\* Every handle the allocators can produce within the bound.
StorageIDs == {NewStorageID(a, i) : a \in Addresses, i \in 1..MaxIndex}
OwnedStorageIDs == {id \in StorageIDs : StorageIDAddress(id) # AddressUndefined}

\* StorageIndex.Next: the big-endian counter plus one.
StorageIndexNext(index) == index + 1

\* StorageID.Valid: neither the undefined id nor an undefined index.
Valid(id) ==
    /\ id # NewStorageID(AddressUndefined, StorageIndexUndefined)
    /\ StorageIDIndex(id) # StorageIndexUndefined

\* The comparator of sortedOwnedDeltaKeys: by address, then by index.
LessStorageID(a, b) ==
    IF StorageIDAddress(a) = StorageIDAddress(b)
    THEN StorageIDIndex(a) < StorageIDIndex(b)
    ELSE StorageIDAddress(a) < StorageIDAddress(b)
-----------------------------------------------------------------------------
(* Raw bytes of a handle: storageIDSize = 16 bytes, the 8-byte address    *)
(* followed by the 8-byte index, each in binary.BigEndian order.          *)
WordSize == 8
StorageIDSize == 2 * WordSize
ByteBase == 256

\* binary.BigEndian.PutUint64: the n low bytes of x, most significant first.
RECURSIVE PutBigEndian(_, _)
PutBigEndian(x, n) ==
    IF n = 0 THEN <<>> ELSE PutBigEndian(x \div ByteBase, n - 1) \o <<x % ByteBase>>

\* binary.BigEndian.Uint64: the bytes read back as a number.
BigEndianValue(bs) == SX!FoldLeft(LAMBDA acc, byte : acc * ByteBase + byte, 0, bs)

\* Mutation: the index is copied from b[7:] instead of b[8:].
NewStorageIDFromRawBytesOffByOne(b) ==
    IF Len(b) < StorageIDSize
    THEN [err |-> TRUE, id |-> NewStorageID(AddressUndefined, StorageIndexUndefined)]
    ELSE [err |-> FALSE,
          id  |-> NewStorageID(BigEndianValue(SubSeq(b, 1, WordSize)),
                               BigEndianValue(SubSeq(b, WordSize, 2 * WordSize - 1)))]

\* NewStorageIDFromRawBytes: a buffer shorter than storageIDSize is an
\* error with the undefined id; otherwise the first 8 bytes are the address
\* and the next 8 the index.
NewStorageIDFromRawBytes(b) ==
    IF Len(b) < StorageIDSize
    THEN [err |-> TRUE, id |-> NewStorageID(AddressUndefined, StorageIndexUndefined)]
    ELSE [err |-> FALSE,
          id  |-> NewStorageID(BigEndianValue(SubSeq(b, 1, WordSize)),
                               BigEndianValue(SubSeq(b, WordSize + 1, StorageIDSize)))]

\* StorageID.ToRawBytes: a buffer too short is an error and left alone;
\* otherwise its first 16 bytes are overwritten and 16 is returned.
ToRawBytes(id, b) ==
    IF Len(b) < StorageIDSize
    THEN [err |-> TRUE, n |-> 0, buf |-> b]
    ELSE LET raw == PutBigEndian(StorageIDAddress(id), WordSize)
                      \o PutBigEndian(StorageIDIndex(id), WordSize)
         IN [err |-> FALSE, n |-> StorageIDSize,
             buf |-> raw \o SubSeq(b, StorageIDSize + 1, Len(b))]

\* Buffers around storageIDSize, holding bytes the conversion must not keep.
RawBuffers == {[i \in 1..len |-> (7 * i) % ByteBase] :
                  len \in StorageIDSize - 1 .. StorageIDSize + 1}

\* What ToRawBytes followed by NewStorageIDFromRawBytes must do to a handle
\* and a buffer: the same handle back, bytes past the 16th untouched, and a
\* short buffer refused by both conversions.
RawBytesRoundTrips(id, b) ==
    LET w == ToRawBytes(id, b)
        r == NewStorageIDFromRawBytes(w.buf)
    IN IF Len(b) < StorageIDSize
       THEN w.err /\ w.buf = b /\ r.err
       ELSE /\ ~w.err /\ w.n = StorageIDSize /\ Len(w.buf) = Len(b)
            /\ ~r.err /\ r.id = id
            /\ \A i \in StorageIDSize + 1 .. Len(b) : w.buf[i] = b[i]
==============================================================================
