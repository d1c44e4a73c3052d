SPECIFICATION MCSpec
CONSTANTS
    MaxCount = 9
    ElementSizes = {1, 2, 4, 8}
    LastCounter = 1
    W = 3
    Starts = {0, 2, 8}
    Depth = 2
    CharBits = 2
    NL <- MCNL
    CR <- MCCR
    Texts <- MCTexts
    N = 3
    CodeLen = 2
    Taps <- MCTaps
    Input <- MCInput
    Junk = {0, 7}
    GoldenN = 11
    GoldenTaps <- MCGoldenTaps
    DATALEN = 64
    Beyond <- MCBeyond
    Masters = 3
    Beats = 2
    Lanes = 2
    TimeOut = 7
    Asked <- MCAsked
    None = None
INVARIANTS
    ArraysAreCopied ResetMeansZero LineCarriesText ReportsAreGolden LinesAreSums AnswersBelong
PROPERTIES
    AllPrinted AllReported AccessesEnd
