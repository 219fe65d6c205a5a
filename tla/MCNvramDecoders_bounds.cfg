CONSTANTS
    Images <- MCImagesCorrupt
    Known <- MCKnown
    NONE = NONE
    SLACK = 16
SPECIFICATION DecSpec
INVARIANT DecodersStayInPartitions
CHECK_DEADLOCK FALSE
