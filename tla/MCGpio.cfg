SPECIFICATION GpioSpec
CONSTANTS
    RegMod = 64
    b0 = b0
    Bits <- MCBits
    RebootBit = b0
    AdrBits <- MCBits
    Addrs <- MCAddrs
PROPERTY Refines
