SPECIFICATION FairSpec
CONSTANTS
    WordMod = 128
    Window = 10
    PageWords = 5
    BlockWords = 20
    BitAnd <- MCAnd
    Part <- MCPart
    Leftovers <- MCLeftovers
    MaxTears = 1
    TAG_AUTO_BOOT = 20
    TAG_AUTO_BOOT_ADR = 21
    TAG_TFTP_SRV = 22
    GOLDEN_IMAGE_ADR = 3
    Values = {0, 1}
    Peers = {2}
    AfterTemp = {108}
    Images <- MCImages
INVARIANTS
    TypeOK
    Durable
PROPERTIES
    Implements
    AppendOnly
    
