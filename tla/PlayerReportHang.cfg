\* One-shot sessions and one report that is not fatal.
CONSTANTS
    Sessions <- OneShot
    Faults = {"info"}
    MaxFaults = 1
    MaxSignals = 0
SPECIFICATION Spec
PROPERTY OneShotAlwaysEnds
CHECK_DEADLOCK FALSE
