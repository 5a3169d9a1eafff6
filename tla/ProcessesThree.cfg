SPECIFICATION Spec
CONSTANTS
    NULL = NULL
    TORN = TORN
    boot = boot
    again = again
    third = third
    csv = csv
    Calls <- ThreeCalls
    Boot <- boot
    Kinds <- PageKinds
    Csvs <- NoCsv
    Choices <- NoChoice
    Default <- DefaultChoice
    MaxClock = 2
    HostFails = FALSE
CHECK_DEADLOCK FALSE
PROPERTY NeverBackInTime
