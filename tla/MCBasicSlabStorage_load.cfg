CONSTANTS
    NumAddresses = 1
    MaxIndex = 2
    SlabValues = {s1}
    NoSlab = NoSlab
    CorruptData = CorruptData

SPECIFICATION Spec
PROPERTY GenerateStorageIDFresh
