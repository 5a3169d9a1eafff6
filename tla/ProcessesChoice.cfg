SPECIFICATION Spec
CONSTANTS
    NULL = NULL
    TORN = TORN
    boot = boot
    again = again
    third = third
    csv = csv
    Calls <- TwoCalls
    Boot <- boot
    Kinds <- PageKinds
    Csvs <- NoCsv
    Choices <- OneChoice
    Default <- DefaultChoice
    MaxClock = 1
    HostFails = FALSE
CHECK_DEADLOCK FALSE
PROPERTY ChoiceIsTheUsers
