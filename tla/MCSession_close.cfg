SPECIFICATION Spec
CONSTANTS
    Callers = {c1}
    Loops = {l1, l2}
    Readers = {r1}
    Addrs = {a, b}
    NoAddr = NoAddr
    NoLoop = NoLoop
    ApiOps <- CoreOps
    Faults = FALSE
    InitialDelay = 1
    MaxDelay = 3
    MaxCalls = 3
    MaxBreaks = 2
SYMMETRY ThreadSymmetry
INVARIANT CloseIsFinal
CHECK_DEADLOCK FALSE
