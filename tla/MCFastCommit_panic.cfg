CONSTANTS
    NumAddresses = 2
    MaxIndex = 1
    SlabValues = {s1}
    NoData = NoData
    NoEntry = NoEntry
    Tombstone = Tombstone
    NoSlab = NoSlab
    CorruptData = CorruptData
    Nil = Nil
    Workers = {w1, w2}
    BaseMayFail = FALSE
    EncodeMayFail = TRUE
    AutoCommitModes = {FALSE}

SPECIFICATION FastCommitSpec
INVARIANT NoSendOnClosedChannel
CONSTRAINT MCConstraint
