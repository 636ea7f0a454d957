SPECIFICATION Spec
CONSTANTS
    Owners = {o1}
    Inputs = {i1, i2}
    OwnerOf <- OneOwner
    Watched = o1
    MaxActive = 1
    Capacity = 2
    Buffer = 1
    MaxSessions = 0
    MaxRetries = 1
    MaxFaults = 1
    MaxExpired = 1
CHECK_DEADLOCK FALSE
PROPERTIES
    EveryInputClaimed
INVARIANTS
    OneLoopServes
    ActiveIsExact
