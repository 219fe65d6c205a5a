CONSTANTS
    CHUNK = 4
    DEFAULT_NVRAM_SZ = 12
    NBytesSet <- MCNBytesSet
    DevSizes <- MCDevSizes
    ShortReads = TRUE
    ReadErrors = TRUE
    NVRAM_DEFAULT <- MCNvramDefault
    Machines <- MCMachines
    Aliases <- MCAliases
    IOErrors = TRUE
    StSizes <- MCStSizes
SPECIFICATION Spec
INVARIANT TypeOK
INVARIANT OFSizeMatchesLookup
INVARIANT BufferInitialized
PROPERTY ReadTerminates
CHECK_DEADLOCK FALSE
