\* Endless and one-shot sessions, two signals at any time, two things going
\* wrong.  A one-shot session that is stuck is a deadlock.
CONSTANTS
    Sessions <- AllSessions
    Faults = {"write", "info", "warn", "fatal", "persist"}
    MaxFaults = 2
    MaxSignals = 2
SPECIFICATION Spec
INVARIANTS
    TypeOK
    WaitGroupCounts
    MainCleansUpLast
    EndsClean
    

    
    
CHECK_DEADLOCK FALSE
