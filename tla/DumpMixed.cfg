SPECIFICATION Spec
CONSTANTS
    p1 = p1
    p2 = p2
    Pcbs = {p1, p2}
    NoCon = NoCon
    BufLen = 3
    SndBuf = 8
    MaxText = 5
    MaxEchoes = 2
INVARIANT DumpDisplays
