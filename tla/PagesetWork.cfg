CONSTANTS
    NumPages = 3
    CmdRsvedPagesMax = 2
    CachedPagesMax = 2
    TxTxn = 1
    RxTxn = 2
    NotifyInt = 1
    RxCap = 1
    MaxInputs = 3
    MaxErrors = 2
    MaxOversize = 1
SPECIFICATION FairSpec
INVARIANTS PagesKept PageForEachPacket NoLostWakeup
PROPERTIES ComesToRest
CHECK_DEADLOCK FALSE
