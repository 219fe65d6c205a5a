CONSTANTS
    CHUNK = 4
    DEFAULT_NVRAM_SZ = 12
    NBytesSet = {0, 6, 12}
    DevSizes <- MCDevSizesLarge
    ShortReads = FALSE
    ReadErrors = FALSE
SPECIFICATION Spec
INVARIANT NoBufferOverrun
CHECK_DEADLOCK FALSE
