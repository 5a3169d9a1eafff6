SPECIFICATION MapSpec
CONSTANTS
    NULL = NULL
    Pids <- ThreePids
    Size <- PowerSize
    Snapshots <- NoSnapshots
    MaxRows = 2
CHECK_DEADLOCK FALSE
INVARIANT IdleIsSwitched
