CONSTANTS
    BLOCK = 16
    NBYTES = 64
    NULL = NULL
    MaxParts = 6
    DevSet <- MCBadDevSet
SPECIFICATION Spec
INVARIANT HeadersValidated
CHECK_DEADLOCK FALSE
