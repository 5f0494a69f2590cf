\* Three flows, two or three lines, two keys; a chart may fail.
CONSTANTS
    DATA <- Recording
    HEADLINE = HEADLINE
    PipeSize = 2
    MaxLines = 3
    Level0Until = 3
    AdditionalCount <- Additional
    MinimumFlowLength <- Minimum
    Enough = 2
    Starts <- AllStarts
    Graphs = 1
    ChartsMayFail = TRUE
    MaxOld = 1
    MaxKeys = 2
SPECIFICATION Spec
INVARIANTS
    TypeOK
    NothingLost
    PanicsOffSelection
    DetailsFollow
PROPERTIES
    NeighbourSelected
    LinesReachScreen
CHECK_DEADLOCK FALSE
