\* Either program, overlapping Commits, two sessions, one failure of the
\* database anywhere.
CONSTANTS
    Flows = {f1}
    Programs = {"drplay", "drbenchmark"}
    MaxSamples = 2
    MaxCommits = 2
    MaxSessions = 2
    MaxFaults = 1
SPECIFICATION Spec
INVARIANTS
    TypeOK
    
PROPERTIES
    StoresSamples
    CommitMakesDurable
