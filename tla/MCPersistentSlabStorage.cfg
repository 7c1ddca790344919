CONSTANTS
    NumAddresses = 2
    MaxIndex = 2
    SlabValues = {s1}
    NoData = NoData
    NoEntry = NoEntry
    Tombstone = Tombstone
    NoSlab = NoSlab
    CorruptData = CorruptData
    BaseMayFail = TRUE
    EncodeMayFail = TRUE
    AutoCommitModes = {FALSE, TRUE}

SPECIFICATION Spec
INVARIANT TypeOK
INVARIANT CommittedDeltasPersisted
PROPERTY RawBytesRoundTrip
PROPERTY CommitWritesKeepView
