SPECIFICATION FairSpec
CONSTANTS
    Receivers = {r1, r2}
    Workers = {w1, w2}
    NoWorker = NoWorker
    Commands <- CommandSet
    NoValue = NoValue
    DeviceFaults = TRUE
    ComFaults = TRUE
    MaxCommands = 2
    MaxStarts = 2
INVARIANTS TypeOK NoLostWakeup EndpointReleased NewestWins
PROPERTIES ImplementsMailbox StoppedWorkersEnd
CHECK_DEADLOCK FALSE
