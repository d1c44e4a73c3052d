SPECIFICATION FairStreamSpec
CONSTANTS
    X = X
    TapNum = 2
    Word <- MCWord
    Sample = {a, b}
    Inputs <- MCInputs
    MaxLen = 4
    MaxTapA = 2
PROPERTIES ImplementsFairFilter RoundsEnd
