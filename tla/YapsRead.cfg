CONSTANTS
    Window = 6
    Lens = {1, 2, 7}
    RxMax = 3
    ChipPkts = 3
    MaxPkts = 4
    MaxErrors = 2
SPECIFICATION FairSpec
INVARIANTS NotGarbled
PROPERTIES Implements AllArrive
CHECK_DEADLOCK FALSE
