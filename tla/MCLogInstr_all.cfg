\* Logging of all instructions started and stopped by the monitor and the
\* guest helpers, streaming to the backend, CPUs booted with or without -d instr,
\* while the target adds and removes filters (debug_regions NULL).
CONSTANTS
    CPUs = {c1}
    Addrs = {a1}
    ResetPC = a1
    ResetMode = "USER"
    NoRegions = NoRegions
    Regions = NoRegions
    StartupFilters <- MCNoStartupFilters
    RingSize = 2
    BootFlags = {{}, {"INSTR"}}
    RequestLevels = {"NONE", "ALL"}
    Features = {"monitor", "helpers", "flush", "filters"}
    BufferedArgs = {TRUE, FALSE}
    MaxCommits = 3
    MaxRequests = 3
    MaxQueue = 2
    MaxRecords = 1
    MaxEvents = 1
    MaxModeSwitches = 0
CHECK_DEADLOCK FALSE
SPECIFICATION Spec
INVARIANT SlicesWellBracketed
INVARIANT NoInstrOutsideSlice
INVARIANT StartingHoldsStart
