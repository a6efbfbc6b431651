\* TBs with staged printfs, guest instructions that may fault, flushes at
\* the translator's choice and logging switched on and off.
CONSTANTS
    Depth = 4
    FlushBarrier = 3
    MaxGen = 5
    MaxInsns = 3
    MaxRuns = 4
    MaxToggles = 2
    MaxCode = 5
CHECK_DEADLOCK FALSE
SPECIFICATION Spec
INVARIANT TypeOK
INVARIANT DumpRendersValidOnce
