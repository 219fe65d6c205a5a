CONSTANTS
    BLOCK = 16
    NBYTES = 64
    NULL = NULL
    MaxParts = 6
    DevSet <- MCDevSet
SPECIFICATION Spec
INVARIANT TypeOK
INVARIANT ParseRecoversLayout
INVARIANT FindResumesInOrder
PROPERTY ParseTerminates
CHECK_DEADLOCK FALSE
