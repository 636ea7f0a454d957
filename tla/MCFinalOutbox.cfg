SPECIFICATION Spec
CONSTANTS
    Runs = {r1, r2}
    Workers = {w1}
    Scheduler = scheduler
    MaxAttempts = 2
    MaxFaults = 1
INVARIANTS
    SendsBounded
    SentIsHonest
    NoLostWakeup
PROPERTIES
    ImplementsDelivery
