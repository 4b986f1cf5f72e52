SPECIFICATION Spec
CONSTANTS
    ann = ann
    bob = bob
    Users <- MCUsers
    Channels = {lobby}
    None = None
    MaxSignIns <- MCMaxSignIns
    Watchers = {ann}
    MaxClicks = 2
    MayDrop = TRUE
INVARIANTS
    TypeOK
    ServerKnows
    ShownIsCurrent
CHECK_DEADLOCK FALSE
