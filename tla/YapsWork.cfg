\* Two data queues that compete for the chip's queue, a full chip, bus errors, a
\* pause and a resume that come one at a time.
CONSTANTS
    DataQs <- MCDataQs
    Supply <- MCSupply
    Burst = 2
    RxBurst = 1
    ChipSize = 1
    MaxInputs = 2
    PromptFlow = TRUE
SPECIFICATION FairSpec
INVARIANTS NoLostWakeup
PROPERTIES NoDataWhilePaused Drained FlowFollows
CHECK_DEADLOCK FALSE
