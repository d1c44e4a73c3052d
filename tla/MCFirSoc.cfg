SPECIFICATION FairSocSpec
CONSTANTS
    X = X
    TapNum = 4
    Word <- MCWord
    Inputs = {}
    MaxLen = 7
    MaxTapA = 4
    TAP_DONE = TAP_DONE
    DATA_DONE = DATA_DONE
    DELAYS = 2
    BramAddr = {0, 1}
    DATALEN = 7
    Rounds = 3
    CodeLen = 2
    Code <- MCCode
    Taps <- MCTaps
    Data <- MCData
    StreamGap = 6
    RestartGap = 7
    MaxFetches = 2
    MaxResets = 1
INVARIANTS WordsArrive MasterObeyed RunComplete
    BridgeFollowsProgram FetchesReturnCode
PROPERTIES BridgeReleasedAfterRun AllRunsEnd
