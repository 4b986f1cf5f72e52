SPECIFICATION FairSpec
CONSTANTS
    TextChannels = {A, B}
    A = A
    B = B
    NoChannel = NoChannel
    PageSize = 2
    MemoryLimit = 9
    OldMessages <- ThreeOld
    MaxMessages = 3
    MaxSwitches = 2
    DistinctStamps = TRUE
PROPERTY
    SelectedPageLoads
