\* A CPU booted with -d instr keeps tracing on while the target commits,
\* drops, switches buffering on and flushes: the ring refines TraceBuffer.
CONSTANTS
    CPUs = {c1}
    Addrs = {a1}
    ResetPC = a1
    ResetMode = "USER"
    NoRegions = NoRegions
    Regions = NoRegions
    StartupFilters <- MCNoStartupFilters
    RingSize = 3
    BootFlags = {{"INSTR"}}
    RequestLevels = {"NONE", "ALL"}
    Features = {"buffered", "flush", "drop"}
    BufferedArgs = {TRUE}
    MaxCommits = 5
    MaxRequests = 2
    MaxQueue = 2
    MaxRecords = 0
    MaxEvents = 1
    MaxModeSwitches = 0
CHECK_DEADLOCK FALSE
SPECIFICATION Spec
INVARIANT TypeOK
INVARIANT EmissionInCommitOrder
PROPERTY TraceBufferRefined
