\* Three sessions, two signals at any time, two things going wrong.  A session
\* may hang: that is no deadlock of the model's making.
CONSTANTS
    Unset = Unset
    Config <- Defaults
    Int32Half = 32768
    Definitions <- AllDefinitions
    Faults = {"persist", "add", "open", "stats", "warn", "fatal", "store"}
    MaxFaults = 2
    MaxSignals = 2
SPECIFICATION Spec
INVARIANTS
    TypeOK
    
    RefusedLate
    SkipsSpentOnce
    SuccessIsWhole
    QdiscStays
    EndsClean

    
CHECK_DEADLOCK FALSE
