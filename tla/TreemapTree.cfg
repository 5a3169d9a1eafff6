SPECIFICATION MapSpec
CONSTANTS
    NULL = NULL
    Pids <- ThreePids
    Size <- PowerSize
    Snapshots <- AnyParents
    MaxRows = 4
CHECK_DEADLOCK FALSE
INVARIANTS
    TypeOK
    OnePlace
    PlaceholdersFilled
    TreeOfParents
    TilesShowAll
    TilesFillTheirParent
    CsvTypeOK
    ParentIsIndentation
    CsvForest
PROPERTIES
    BuildProgresses
    BuildEnds
