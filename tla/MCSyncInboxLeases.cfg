SPECIFICATION Spec
CONSTANTS
    Ordinary = {}
    NumBaselines = 0
    Secure = {s1, s2}
    OwnEcho = {s1}
    Scopes <- OneScope
    Processes = {p1, p2}
    Tokens = {t1, t2}
    NoToken = NoToken
    Maintenance = Maintenance
    MaxActive = 1
    MaxRecords = 2
    ClaimSeconds = 1
    Retention = 2
    CleanupBatch = 1
    RetryDelay = 1
    MaxTime = 2
    MaxBinding = 1
SYMMETRY Symmetry
CHECK_DEADLOCK FALSE
INVARIANTS
    NoRowStranded
    LeasesBounded
    ParkedNeverApplies
