SPECIFICATION Spec
CONSTANTS
    W = 2
    LastHigh = 10
    Bases <- OneTick
    MaxCalls = 2
CHECK_DEADLOCK FALSE
PROPERTIES
    ElapsedIsACount
