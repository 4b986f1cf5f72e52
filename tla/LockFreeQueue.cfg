SPECIFICATION Spec
CONSTANTS
    Capacity = 3
    Consumers = {outgoing, control}
    MaxPushes = 5
INVARIANT
    RingHoldsNewest
PROPERTY
    ImplementsDropOldest
