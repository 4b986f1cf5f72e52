SPECIFICATION FairSpec
CONSTANTS
    MaxSubmits = 2
    MaxChanges = 1
    MaxLogouts = 2
    MaxSignals = 1
    MayDrop = TRUE
INVARIANTS
    WindowAgrees
    OneAuthAtATime
    SignedInHasToken
PROPERTIES
    LogoutSticks
    SignedInIsShown
    IdleShowsForm
