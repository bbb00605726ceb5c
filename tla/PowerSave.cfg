CONSTANTS
    Dynamic = TRUE
    MaxInputs = 2
    MaxFaults = 1
SPECIFICATION FairSpec
INVARIANTS WakersPaired UsedAwake
PROPERTIES ComesToRest
CHECK_DEADLOCK FALSE
