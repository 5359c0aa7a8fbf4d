SPECIFICATION Spec
CONSTANTS
    w1 = w1
    w2 = w2
    Workers = {w1, w2}
    MaxRuntimes = 2
    MaxCommands = 2
    MaxKills = 0
    MaxLosses = 0
SYMMETRY WorkerSymmetry
INVARIANTS StopSticks
CHECK_DEADLOCK FALSE
