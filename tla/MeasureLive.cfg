\* Channels of one place that do fill up, two wrong records, an exit at any
\* time.  A session that is stuck in a full channel is a deadlock.
CONSTANTS
    Flows = {f1}
    Csv = TRUE
    AggCapacity = 1
    PerCapacity = 1
    MaxRecords = 3
    ReadFaults = {"open", "short", "type"}
    FlowFaults = 0
    StoreFaults = 0
    MayExit = TRUE
SPECIFICATION Spec
PROPERTIES
    
    PipelineFlows
CHECK_DEADLOCK FALSE
