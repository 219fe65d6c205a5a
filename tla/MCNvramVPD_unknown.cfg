CONSTANTS
    Images <- MCUnknownTag
    Known <- MCKnown
    NONE = NONE
    SLACK = 16
SPECIFICATION Spec
PROPERTY VPDTerminates
CHECK_DEADLOCK FALSE
