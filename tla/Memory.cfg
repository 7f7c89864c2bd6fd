\* The real constants except for NPages, 131088 in the code, which here lets a
\* run exhaust the pool.
CONSTANTS
    NPages = 44
    PageSize = 4096
    TableEntries = 512
    Stride = 64
    ClearedSlots = 640
    MaxMap = 20
    TextPages = 10
    LibraryPages = {1, 14}
    EntryPages = {0, 9}
    VirtioRegs = {40960, 40963}
    Sizes = {8192, 20000, 81920, 86016}
SPECIFICATION MemSpec
INVARIANTS TypeOK DistinctOwners MappedIsMarked FailsOnlyWhenFull AddressIsPhysical
INVARIANTS ProgramsAreMapped PoolReach WindowsReachTheirDevices
PROPERTY TranslationsStable
