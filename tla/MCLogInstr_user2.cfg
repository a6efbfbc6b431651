\* Two CPUs with user-only logging: one CPU's start sets the process-wide
\* CPU_LOG_INSTR bit that the other CPU's mode switches read.
CONSTANTS
    CPUs = {c1, c2}
    Addrs = {a1}
    ResetPC = a1
    ResetMode = "USER"
    NoRegions = NoRegions
    Regions = NoRegions
    StartupFilters <- MCNoStartupFilters
    RingSize = 2
    BootFlags = {{}, {"INSTR", "INSTR_U"}}
    RequestLevels = {"NONE", "USER"}
    Features = {"helpers", "modeswitch"}
    BufferedArgs = {TRUE, FALSE}
    MaxCommits = 2
    MaxRequests = 2
    MaxQueue = 2
    MaxRecords = 0
    MaxEvents = 0
    MaxModeSwitches = 3
CHECK_DEADLOCK FALSE
SPECIFICATION Spec
INVARIANT SlicesWellBracketed
INVARIANT NoInstrOutsideSlice
INVARIANT ActiveMatchesLevel
INVARIANT StartingHoldsStart
PROPERTY SwitchIsSilent
SYMMETRY CPUSymmetry
