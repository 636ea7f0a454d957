SPECIFICATION Spec
CONSTANTS
    Ordinary = {e1}
    NumBaselines = 2
    Secure = {}
    OwnEcho = {}
    Scopes <- OneScope
    Processes = {p1, p2}
    Tokens = {t1, t2}
    NoToken = NoToken
    Maintenance = Maintenance
    MaxActive = 2
    MaxRecords = 2
    ClaimSeconds = 1
    Retention = 9
    CleanupBatch = 1
    RetryDelay = 1
    MaxTime = 2
    MaxBinding = 0
SYMMETRY Symmetry
CHECK_DEADLOCK FALSE
INVARIANTS
    InboxBounded
    NothingLost
    AppliedAtMostOnce
    NoFalseDiscard
    BaselineNotOvertaken
    OneLeasedWorker
