\* One accepted definition, nothing goes wrong.
CONSTANTS
    Unset = Unset
    Config <- Defaults
    Int32Half = 32768
    Definitions <- OneDefinition
    Faults = {}
    MaxFaults = 0
    MaxSignals = 0
SPECIFICATION Spec
INVARIANTS
    ConfigIsFallback
CHECK_DEADLOCK FALSE
