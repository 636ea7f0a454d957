SPECIFICATION Spec
CONSTANTS
    Ordinary = {e1}
    NumBaselines = 1
    Secure = {}
    OwnEcho = {}
    Scopes <- OneScope
    Processes = {p1}
    Tokens = {t1, t2}
    NoToken = NoToken
    Maintenance = Maintenance
    MaxActive = 2
    MaxRecords = 2
    ClaimSeconds = 2
    Retention = 1
    CleanupBatch = 1
    RetryDelay = 1
    MaxTime = 2
    MaxBinding = 1
SYMMETRY Symmetry
CHECK_DEADLOCK FALSE
INVARIANTS
    BaselineNotOvertaken
