SPECIFICATION FairSpec
CONSTANTS
    NULL = NULL
    FREE = FREE
    ERROR = ERROR
    GARBLED = GARBLED
    load = load
    again = again
    icon = icon
    none = none
    client = client
    chrome = chrome
    notepad = notepad
    a1 = a1
    a2 = a2
    h1 = h1
    h2 = h2
    h3 = h3
    h4 = h4
    launch = launch
    showDebug = showDebug
    level = level
    Loads <- TwoLoads
    Keys <- TwoIcons
    Large <- TwoIcons
    Iconless <- NoIcon
    Entries = 2
    Clients <- OneClient
    Processes <- TwoProcesses
    Addresses <- TwoAddresses
    Handles <- FourHandles
    Mixes <- OneAtATime
    Place <- SomePlace
    MaxSessions = 2
    MaxEdits = 1
    HostFails = TRUE
    Declared <- Strings
    Numbers <- IntegerNames
    Names <- AllNames
    Length <- NameLength
    Texts <- SomeTexts
CHECK_DEADLOCK FALSE
INVARIANTS
    TypeOK
    LoggerReady
    CacheTells
    IconLostOnlyByFailure
    SettingsRead
PROPERTIES
    ImplementsHostObjects
    NeverFetchedAgain
    GoesBackOnlyPastAHit
    TaskEnds
