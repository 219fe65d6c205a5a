CONSTANTS
    Images <- MCImages
    Known <- MCKnown
    NONE = NONE
    SLACK = 16
SPECIFICATION DecSpec
INVARIANT TypeOK
INVARIANT DecodesFields
INVARIANT ErrLogTypeOK
INVARIANT EventScanTypeOK
INVARIANT EventScanHeaderWithinPartition
PROPERTY MainExits
CHECK_DEADLOCK FALSE
