SPECIFICATION Spec
CONSTANTS
    TextChannels = {A}
    A = A
    B = B
    NoChannel = NoChannel
    PageSize = 2
    MemoryLimit = 2
    OldMessages <- PagedOld
    MaxMessages = 5
    MaxSwitches = 0
    DistinctStamps = FALSE
INVARIANTS
    NoHoles
    NoDuplicateRows
