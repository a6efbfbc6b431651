\* The monitor resizes the trace ring right after starting tracing, before
\* the first commit emits the deferred START.
CONSTANTS
    CPUs = {c1}
    Addrs = {a1}
    ResetPC = a1
    ResetMode = "USER"
    NoRegions = NoRegions
    Regions = NoRegions
    StartupFilters <- MCNoStartupFilters
    RingSize = 3
    BootFlags = {{}}
    RequestLevels = {"NONE", "ALL"}
    Features = {"monitor", "resize"}
    BufferedArgs = {TRUE, FALSE}
    MaxCommits = 3
    MaxRequests = 2
    MaxQueue = 2
    MaxRecords = 0
    MaxEvents = 0
    MaxModeSwitches = 0
CHECK_DEADLOCK FALSE
SPECIFICATION Spec
INVARIANT NoInstrOutsideSlice
