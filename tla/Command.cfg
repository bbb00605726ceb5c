\* Both chip interfaces; no timeout strikes during a send.
CONSTANTS
    NumCmds = 3
    SeqMax = 8
    MaxRetry = 2
    SlowSend = FALSE
    LongCmds <- MCLongCmds
SPECIFICATION FairSpec
INVARIANTS CountsMatch HeldPacketLives
PROPERTIES Implements CallsReturn
CHECK_DEADLOCK FALSE
