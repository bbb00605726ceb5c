CONSTANTS
    MaxCalls = 1
    MaxFaults = 2
    MaxRestarts = 1
SPECIFICATION FairSpec
INVARIANT RestartGetsThrough
CHECK_DEADLOCK FALSE
