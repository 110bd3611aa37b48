SPECIFICATION FairSpec
CONSTANTS
    CntMod = 4
    AddrMod = 16
    RegMod = 8
    ETH_RX = 0
    ETH_TX = 1
    ByteMod = 3
    NoTx = NoTx
    WTxns <- MCWTxns
    RTxns <- MCRTxns
INVARIANTS
    TypeOK
    FlowControl
    WriteBeats
    ReadBeats
    RxInOrder
    TxPushed
PROPERTY Served
