\* Guest start and stop helpers on a CPU booted with -d instr: a start issued
\* while a stop is still queued is skipped, and the level never follows it.
CONSTANTS
    CPUs = {c1}
    Addrs = {a1}
    ResetPC = a1
    ResetMode = "USER"
    NoRegions = NoRegions
    Regions = NoRegions
    StartupFilters <- MCNoStartupFilters
    RingSize = 2
    BootFlags = {{"INSTR"}}
    RequestLevels = {"NONE", "ALL"}
    Features = {"helpers"}
    BufferedArgs = {TRUE, FALSE}
    MaxCommits = 2
    MaxRequests = 2
    MaxQueue = 2
    MaxRecords = 0
    MaxEvents = 0
    MaxModeSwitches = 0
CHECK_DEADLOCK FALSE
SPECIFICATION FairSpec
PROPERTY LevelReachesRequest
