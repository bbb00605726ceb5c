\* A management queue of the YAPS interface: requeued and aged packets.
CONSTANTS
    MaxPkts = 4
    IdMod = 16
    QueueLimit = 3
    MaxTxqLen = 0
    StopSpace = 0
    WakeSpace = 2
    Burst = 2
    ChipIf = "yaps"
    Queue = "mgmt"
    PsFilter = "unsupported"
    NoReport <- MCNoReport
    MaxFiltered = 0
    MaxRestarts = 1
    Callers = 2
SPECIFICATION Spec
INVARIANTS Ordered
CHECK_DEADLOCK FALSE
