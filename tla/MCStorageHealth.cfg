CONSTANTS
    NumAddresses = 2
    MaxIndex = 2
    SlabIds <- MCSlabIds
    MaxRefs = 2
    ExpectedRoots = {1, 2}
    NoSlab = NoSlab
    NoParent = NoParent

SPECIFICATION Spec
INVARIANT CheckHealthDecidesForest
PROPERTY ReturnsWhenAcyclic
CHECK_DEADLOCK FALSE
