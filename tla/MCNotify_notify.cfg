SPECIFICATION FairSpec
CONSTANTS
    a = a
    b = b
    None = None
    Blank = Blank
    Topics = {a, b}
    Lists <- ListSet
    Hosts = {h1}
    Readers = {r1}
    Recovery = recovery
    Capacity = 1
    MaxCalls = 3
    MaxPublishes = 2
    MaxLosses = 1
    MaxEvents = 4
INVARIANTS TypeOK  Subscribed OnlyEnabledHeard
PROPERTIES LoopReturns
CHECK_DEADLOCK FALSE
