SPECIFICATION Spec
CONSTANTS
    W = 3
    LastHigh = 2
    Bases <- MCBases
    MaxCalls = 2
CHECK_DEADLOCK FALSE
INVARIANTS
    ReadsAreTimes
    RetriesAreCarries
    CompareIsArmed
PROPERTIES
    NoEarlyInterrupt
