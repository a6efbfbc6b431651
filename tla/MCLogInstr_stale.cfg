\* A monitor request racing a mode switch queued from the old level.
CONSTANTS
    CPUs = {c1}
    Addrs = {a1}
    ResetPC = a1
    ResetMode = "USER"
    NoRegions = NoRegions
    Regions = NoRegions
    StartupFilters <- MCNoStartupFilters
    RingSize = 2
    BootFlags = {{}, {"INSTR", "INSTR_U"}}
    RequestLevels = {"NONE", "USER"}
    Features = {"monitor", "modeswitch"}
    BufferedArgs = {TRUE, FALSE}
    MaxCommits = 3
    MaxRequests = 3
    MaxQueue = 2
    MaxRecords = 0
    MaxEvents = 0
    MaxModeSwitches = 4
CHECK_DEADLOCK FALSE
SPECIFICATION Spec
INVARIANT LevelFollowsRequests
