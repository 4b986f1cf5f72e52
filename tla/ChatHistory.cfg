SPECIFICATION FairSpec
CONSTANTS
    TextChannels = {A, B}
    A = A
    B = B
    NoChannel = NoChannel
    PageSize = 1
    MemoryLimit = 9
    OldMessages <- ThreeOld
    MaxMessages = 4
    MaxSwitches = 3
    DistinctStamps = TRUE
INVARIANTS
    LastPageIsCurrent
    RowsOfLoaded
PROPERTIES
    PagingFinishes
    PageLoads
