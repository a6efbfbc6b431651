\* A TB that fills all 32 slots of a staging area of depth 32 before its
\* dump: slot 31 is cleared with the int shift 1 << 31.
CONSTANTS
    Depth = 32
    FlushBarrier = 32
    MaxGen = 32
    MaxInsns = 0
    MaxRuns = 1
    MaxToggles = 0
    MaxCode = 33
CONSTRAINT FlushOnlyWhenFull
CHECK_DEADLOCK FALSE
SPECIFICATION Spec
INVARIANT DumpRendersValidOnce
