SPECIFICATION Spec
CONSTANTS
    volume = volume
    battery = battery
    v = v
    b = b
    topic = topic
    None = None
    Bad = Bad
    Empty = Empty
    Torn = Torn
    NoTopics = NoTopics
    Threads = {t1, t2}
    Metrics = {volume, battery}
    Controllable = {volume}
    Vars = {v, b}
    DefaultVar <- OwnVar
    Legacy <- LegacyBindings
    Topics = {NoTopics, topic}
    Requests <- CallSet
    InitFiles <- FileSet
    MaxCalls = 3
    MaxFaults = 1
    MaxCrashes = 2
SYMMETRY ThreadSymmetry
INVARIANTS TypeOK LoneCallSettles
PROPERTIES SetIsAtomic
CHECK_DEADLOCK FALSE
