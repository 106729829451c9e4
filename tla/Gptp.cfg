CONSTANTS
    SyncInterval = 14
    PdelayInterval = 7
    PdelayInitialOffsets <- MCPdelayInitialOffsets
    PDelayReqProcessingTime = 1
    PropagationDelay = 1
    MaxTxTime = 1
    IsBridge = TRUE
    SeqIds = 4
    InitialErrors <- MCInitialErrors
    MaxLost = 3
    Unset = Unset
SPECIFICATION GptpSpec
INVARIANTS PeerDelayExact RateRatioIsOne HoldoverBounded
PROPERTIES SyncsExactly Synchronises
