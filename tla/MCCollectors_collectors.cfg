SPECIFICATION FairSpec
CONSTANTS
    None = None
    Readings <- ReadingSets
    Selections <- Choices
    Backoff = 1
    MaxStarts = 2
    MaxSets = 2
    MaxChanges = 2
    MaxEvents = 3
INVARIANTS TypeOK NoLostChange
PROPERTIES StoppedLoopsEnd Follows
CHECK_DEADLOCK FALSE
