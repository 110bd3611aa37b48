SPECIFICATION FairSpec
CONSTANTS
    ByteMod = 3
    MaxFrame = 3
    PoolBuf = 2
    ClearReads = 4
    HighFirst = TRUE
    RxFrames <- MCRxFrames
    TxChains <- MCTxChains
    RxDepth = 2
    TxDepth = 6
INVARIANTS
    TypeOK
    FramesIntact
    TxIntact
PROPERTY Resyncs
