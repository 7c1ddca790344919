CONSTANTS
    NumAddresses = 1
    MaxIndex = 1
    SlabValues = {s1}
    NoData = NoData
    NoEntry = NoEntry
    Tombstone = Tombstone
    NoSlab = NoSlab
    CorruptData = CorruptData
    BaseMayFail = FALSE
    EncodeMayFail = FALSE
    AutoCommitModes = {FALSE}

SPECIFICATION Spec
INVARIANT CacheMatchesBase
