SPECIFICATION FairVoiceSpec
CONSTANTS
    QueueSize = 1
    BufferSlots = 1
    StaleTimeoutFrames = 3
    MaxFrames = 2
    MaxStays = 2
    MaxToggles = 1
INVARIANTS
    VoiceTypeOK
    DeafnessIsBounded
    
CHECK_DEADLOCK FALSE
PROPERTY
    FramesLeave
