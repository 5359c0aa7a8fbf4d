SPECIFICATION Spec
CONSTANTS
    Callers = {c1}
    Loops = {l1, l2}
    Readers = {r1, r2}
    Addrs = {a, b}
    NoAddr = NoAddr
    NoLoop = NoLoop
    ApiOps <- AllOps
    Faults = TRUE
    InitialDelay = 1
    MaxDelay = 3
    MaxCalls = 3
    MaxBreaks = 2
SYMMETRY ThreadSymmetry
INVARIANTS TypeOK AtMostOneLoop LoopIsRegistered CloseIsFinalWithoutIntent 
PROPERTIES StepsWindDown
CHECK_DEADLOCK FALSE
