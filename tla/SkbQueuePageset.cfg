\* A data queue of the page-set interface, a station VIF.
CONSTANTS
    MaxPkts = 3
    IdMod = 16
    QueueLimit = 2
    MaxTxqLen = 0
    StopSpace = 0
    WakeSpace = 2
    Burst = 2
    ChipIf = "pageset"
    Queue = "data"
    PsFilter = "station"
    NoReport <- MCNoReport
    MaxFiltered = 1
    MaxRestarts = 1
    Callers = 2
SPECIFICATION FairSpec
INVARIANTS Ownership Ordered NotSentTwice OnlyPutBackWait
PROPERTIES PendingKept Released QueuesWake
CHECK_DEADLOCK FALSE
