SPECIFICATION MCSpec
CONSTANTS
    MaxCmds = 2
    b0 = b0
    Bits = {b0}
    FlashSize = 12
    EraseSize = 4
    BlkSize = 2
    Adrs = {0, 3, 4, 11, 12, 13}
    Lens = {0, 3, 4}
    Files <- MCFiles
    Images <- MCImages
INVARIANT SaveOnlyReads
