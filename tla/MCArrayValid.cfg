CONSTANTS
    r = r
    x = x
    y = y
    Ids = {r, x, y}
    Root = r
    ChildSeqs <- MCChildSeqs
    MaxElems = 1
    ElemSizes = {1}
    Counts = {0, 1, 2}
    HeaderCounts = {0, 1}
    Sizes = {1, 2}
    TypeInfos = {t1, t2}
    TypeInfo = t1
    DataPrefix = 1
    MetaPrefix = 0
    HeaderSize = 1
    NoSlab = NoSlab
    NoExtra = NoExtra

SPECIFICATION Spec
INVARIANT ValidDecidesWellFormed
INVARIANT StatsCountTree
