SPECIFICATION StreamSpec
CONSTANTS
    X = X
    TapNum = 3
    Word <- MCWord
    Sample = {a, b}
    Inputs <- MCInputs
    MaxLen = 4
    MaxTapA = 3
INVARIANTS OutputsDelivered OneOutputPerSample LastMarksEnd Invariant
PROPERTIES CoefficientsFrozen ImplementsFilter
SYMMETRY Samples
