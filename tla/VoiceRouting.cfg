SPECIFICATION FairSpec
CONSTANTS
    Users = {u1, u2}
    Channels = {c1}
    NoChannel = NoChannel
    Absent = Absent
    NoSender = NoSender
    NoEndpoint = NoEndpoint
    QueueCapacity = 2
    MaxPort = 1
    Restarting = {u1}
INVARIANTS
    TypeOK
    RoutingAgreement
PROPERTIES
    ForwardBySnapshot
    AudioFlows
