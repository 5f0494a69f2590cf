\* The claim of the comment on Run, when a sample cannot be stored.
CONSTANTS
    Flows = {f1}
    Csv = FALSE
    AggCapacity = 3
    PerCapacity = 3
    MaxRecords = 2
    ReadFaults = {}
    FlowFaults = 0
    StoreFaults = 1
    MayExit = TRUE
SPECIFICATION Spec
PROPERTY PersistorReleases
CHECK_DEADLOCK FALSE
