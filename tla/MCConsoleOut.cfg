SPECIFICATION FairSpec
CONSTANTS
    p1 = p1
    p2 = p2
    Pcbs = {p1, p2}
    NoCon = NoCon
    BufLen = 2
    SndBuf = 4
    MaxText = 6
    MaxEchoes = 2
INVARIANTS
    TypeOK
    Conserved
    InOrder
PROPERTY Drains
