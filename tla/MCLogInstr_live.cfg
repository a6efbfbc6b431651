\* The monitor switches the level of a CPU that runs its queued work (weak
\* fairness) while the target stamps entry data, traced or not: every level
\* asked for is reached unless replaced.
CONSTANTS
    CPUs = {c1}
    Addrs = {a1}
    ResetPC = a1
    ResetMode = "USER"
    NoRegions = NoRegions
    Regions = NoRegions
    StartupFilters <- MCNoStartupFilters
    RingSize = 2
    BootFlags = {{}, {"INSTR"}, {"INSTR", "INSTR_U"}}
    RequestLevels = {"NONE", "USER", "ALL"}
    Features = {"monitor", "resize", "entrydata"}
    BufferedArgs = {TRUE, FALSE}
    MaxCommits = 2
    MaxRequests = 4
    MaxQueue = 3
    MaxRecords = 0
    MaxEvents = 0
    MaxModeSwitches = 0
CHECK_DEADLOCK FALSE
SPECIFICATION FairSpec
PROPERTY LevelReachesRequest
INVARIANT UntracedDataOnlyAtSliceStartOrFlush
