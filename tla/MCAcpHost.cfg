SPECIFICATION Spec
CONSTANTS
    Runs = {r1, r2}
    None = None
    Kinds = {"private", "group", "delegated"}
    MaxRestarts = 1
    MaxFaults = 1
    MaxQuestions = 1
CHECK_DEADLOCK FALSE
INVARIANTS
    StopDiscardsFinal
    NeverExecutedTwice
    OneExecutor
    ProbeIsAlone
    RecordsAgree
    NoDanglingRun
PROPERTIES
    AnswerKept
    StopsTakeEffect
