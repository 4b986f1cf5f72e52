SPECIFICATION HeartbeatSpec
CONSTANTS
    Period = 11
    Interval = 6
    MinNap = 1
    MaxNap = 3
    Lag = 1
    Delay = 1
INVARIANTS
    LiveIsKept
    SilentIsPurged
