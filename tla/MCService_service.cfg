SPECIFICATION Spec
CONSTANTS
    w1 = w1
    w2 = w2
    Workers = {w1, w2}
    MaxRuntimes = 2
    MaxCommands = 3
    MaxKills = 1
    MaxLosses = 1
SYMMETRY WorkerSymmetry
INVARIANTS TypeOK   AskedIsKept
CHECK_DEADLOCK FALSE
