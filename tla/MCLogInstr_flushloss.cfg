\* Buffered tracing flushed by the target while logging is off.
CONSTANTS
    CPUs = {c1}
    Addrs = {a1}
    ResetPC = a1
    ResetMode = "USER"
    NoRegions = NoRegions
    Regions = NoRegions
    StartupFilters <- MCNoStartupFilters
    RingSize = 3
    BootFlags = {{}}
    RequestLevels = {"NONE", "ALL"}
    Features = {"monitor", "buffered", "flush"}
    BufferedArgs = {TRUE, FALSE}
    MaxCommits = 4
    MaxRequests = 2
    MaxQueue = 2
    MaxRecords = 0
    MaxEvents = 1
    MaxModeSwitches = 0
CHECK_DEADLOCK FALSE
SPECIFICATION Spec
INVARIANT NoSilentLoss
