SPECIFICATION FairSpec
CONSTANTS
    Sessions = {s1, s2}
    Users = {u1, u2}
    None = None
INVARIANTS
    TypeOK
    TrackedIsLive
    NewestIsTracked
PROPERTY
    VanishedIsPurged
CHECK_DEADLOCK FALSE
