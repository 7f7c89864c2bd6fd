\* The code's numbers scaled down: a table of 8 descriptors, tables 1
\* apart, 10 descriptors cleared.
CONSTANTS
    NPages = 20
    PageSize = 4
    TableEntries = 8
    Stride = 1
    ClearedSlots = 10
    MaxMap = 5
    Sizes = {3, 5, 9, 24}
SPECIFICATION Spec
INVARIANT EveryRegionHasItsTable
