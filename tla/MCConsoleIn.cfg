SPECIFICATION MCSpec
CONSTANTS
    RxBufLen = 3
    a = a
    b = b
    Chars = {a, b}
    BS = BS
    CR = CR
    IAC = IAC
    NUL = NUL
    Segments <- MCSegments
    MaxTyped = 4
    MaxEchoes = 2
SYMMETRY MCSymmetry
INVARIANTS
    TypeOK
    LineTerminated
    ExecutesTyped
    TypeAheadReruns
