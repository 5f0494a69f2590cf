\* Four records of two flows, any batching, exit at any time.
CONSTANTS
    Flows = {f1, f2}
    Csv = FALSE
    AggCapacity = 3
    PerCapacity = 2
    MaxRecords = 4
    ReadFaults = {}
    FlowFaults = 1
    StoreFaults = 1
    MayExit = TRUE
SYMMETRY FlowSymmetry
SPECIFICATION SafetySpec
INVARIANTS
    TypeOK
    PacketsCountOnce
    SamplesAreSound
    SamplesInOrder
    NoSendOnClosed
    StartReturnsLast
CHECK_DEADLOCK FALSE
