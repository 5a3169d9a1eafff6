SPECIFICATION FairSpec
CONSTANTS
    NULL = NULL
    TORN = TORN
    boot = boot
    again = again
    third = third
    csv = csv
    Calls <- TwoCalls
    Boot <- boot
    Kinds <- AllKinds
    Csvs <- OneCsv
    Choices <- NoChoice
    Default <- DefaultChoice
    MaxClock = 2
    HostFails = TRUE
CHECK_DEADLOCK FALSE
PROPERTIES
    NotOlderThanClick
    CallEnds
    SpinnerEnds
