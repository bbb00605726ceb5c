CONSTANTS
    Window = 4
    PageWords = 2
    PoolPages = 7
    QSize = 3
    TxMax = 3
    PktLens = {1, 3}
    Ages = TRUE
    MaxPkts = 4
    MaxErrors = 0
SPECIFICATION TxSpec
INVARIANTS MetadataLeft
CHECK_DEADLOCK FALSE
