SPECIFICATION Spec
CONSTANTS
    Owners = {o1}
    Inputs = {i1}
    OwnerOf <- OneOwner
    Watched = o1
    MaxActive = 1
    Capacity = 1
    Buffer = 1
    MaxSessions = 1
    MaxRetries = 0
    MaxFaults = 0
    MaxExpired = 1
CHECK_DEADLOCK FALSE
PROPERTIES
    DiscardIsNoSuccess
