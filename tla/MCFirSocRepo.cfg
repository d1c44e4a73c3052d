SPECIFICATION SocSpec
CONSTANTS
    X = X
    TapNum = 11
    Word <- RepoWord
    Inputs = {}
    MaxLen = 64
    MaxTapA = 11
    TAP_DONE = TAP_DONE
    DATA_DONE = DATA_DONE
    DELAYS = 10
    BramAddr = {0, 1}
    DATALEN = 64
    Rounds = 4
    CodeLen = 2
    Code <- MCCode
    Taps <- RepoTaps
    Data <- RepoData
    StreamGap = 13
    RestartGap = 14
    MaxFetches = 1
    MaxResets = 0
INVARIANT MatchesGolden
