SPECIFICATION Spec
CONSTANTS
    Processes = {p1, p2}
    NoProcess = NoProcess
    MaxSeq = 1
    MaxEpoch = 1
    MaxAuth = 2
    MaxRuns = 2
SYMMETRY Symmetry
INVARIANT RecoveryAccepted
CHECK_DEADLOCK FALSE
