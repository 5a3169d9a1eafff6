SPECIFICATION Spec
CONSTANTS
    NULL = NULL
    TORN = TORN
    boot = boot
    again = again
    third = third
    csv = csv
    Calls <- ThreeCalls
    Boot <- boot
    Kinds <- PageKinds
    Csvs <- OneCsv
    Choices <- OneChoice
    Default <- DefaultChoice
    MaxClock = 1
    HostFails = TRUE
CHECK_DEADLOCK FALSE
INVARIANTS
    TypeOK
    RootTileSafe
    CsvTile
    AloneReadsWhole

