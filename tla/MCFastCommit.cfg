CONSTANTS
    NumAddresses = 2
    MaxIndex = 1
    SlabValues = {s1}
    NoData = NoData
    NoEntry = NoEntry
    Tombstone = Tombstone
    NoSlab = NoSlab
    CorruptData = CorruptData
    Nil = Nil
    Workers = {w1, w2}
    BaseMayFail = TRUE
    EncodeMayFail = TRUE
    AutoCommitModes = {FALSE}

SPECIFICATION FastCommitSpec
INVARIANT FastCommitDeltasPersisted
PROPERTY EncodersTerminate
CONSTRAINT MCConstraint
