SPECIFICATION Spec
CONSTANTS
    Owners = {o1, o2}
    Inputs = {i1, i2}
    OwnerOf <- Spread
    Watched = o1
    MaxActive = 1
    Capacity = 1
    Buffer = 1
    MaxSessions = 1
    MaxRetries = 0
    MaxFaults = 0
    MaxExpired = 0
CHECK_DEADLOCK FALSE
PROPERTIES
    CompleteIsHonest
