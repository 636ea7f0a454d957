SPECIFICATION Spec
CONSTANTS
    Processes = {p1, p2}
    NoProcess = NoProcess
    MaxSeq = 1
    MaxEpoch = 2
    MaxAuth = 2
    MaxRuns = 2
SYMMETRY Symmetry
CHECK_DEADLOCK FALSE
INVARIANTS NoGap PendingHonest
PROPERTY CursorMonotone
