CONSTANTS
    NumAddresses = 2
    MaxIndex = 2
    SlabIds <- MCSlabIds
    MaxRefs = 2
    ExpectedRoots = {1, 2}
    NoSlab = NoSlab
    NoParent = NoParent

SPECIFICATION Spec
PROPERTY CheckHealthReturns
CHECK_DEADLOCK FALSE
