SPECIFICATION FairSpec
CONSTANTS
    volume = volume
    battery = battery
    absent = absent
    low = low
    high = high
    unknown = unknown
    public = public
    private = private
    c1 = c1
    c2 = c2
    None = None
    Absent = absent
    Battery = battery
    Recovery = recovery
    Hosts = {h1}
    Readers = {r1}
    Metrics = {volume}
    Controllable = {volume}
    Raw = {low, high}
    Texts = {absent}
    Visibilities = {public, private}
    Collectors = {c1}
    Feeds <- FeedVolume
    OnChange = {}
    Configs <- VolumeConfigs
    InitConfig <- VolumeOpen
    Limit <- TwoOfEach
    MaxEvents = 2
INVARIANTS TypeOK CacheIsHub
PROPERTIES CacheSettles
CHECK_DEADLOCK FALSE
