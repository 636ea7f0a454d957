SPECIFICATION Spec
CONSTANTS
    Requests = {r1, r2, r3}
    LimitValues = {1}
    MaxRunId = 2
CHECK_DEADLOCK FALSE
INVARIANTS
    SingleFlight
    WaitersCovered
    NoInternalError
    DirtySeenByItsRun
    DirtyLimitHonoured
PROPERTIES
    EveryWaiterAnswered
    ImplementsService
