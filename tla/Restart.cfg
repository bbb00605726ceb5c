CONSTANTS
    Callers = {c1, c2}
    MaxEvents = 2
    MaxFaults = 2
SPECIFICATION FairSpec
INVARIANTS WatchdogTicks DumpHasRestart CompletionAlive RequestPending
PROPERTIES WaitsForReload Recovers
CHECK_DEADLOCK FALSE
