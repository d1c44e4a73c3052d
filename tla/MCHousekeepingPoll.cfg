SPECIFICATION Spec
CONSTANTS
    PerChain = 3
    Width = 3
    Default <- MCDefault
    Modes <- MCStdOutput
    StoredPads = 3
    LowBits = 2
    CSB = 1
    INP_DIS = 0
    Byte = {0, 1}
    DataStores = 1
INVARIANTS ConfiguredAfterPoll
