CONSTANTS
    MaxCalls = 4
    MaxFaults = 2
    MaxRestarts = 1
SPECIFICATION FairSpec
INVARIANTS AgreesAtRest CompletedOnce EventOfItsScan
PROPERTIES TimeoutOfItsScan ComesToRest
CHECK_DEADLOCK FALSE
