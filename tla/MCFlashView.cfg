SPECIFICATION Spec
CONSTANTS
    FlashSize = 12
    EraseSize = 2
    PageSize = 1
    Chunk = 4
    RowLen = 3
    WordMod = 32
    DumpArgs <- MCDumpArgs
INVARIANTS
    TypeOK
    MapExact
    DumpExact
