CONSTANTS
    BLOCK = 16
    NONE = NONE
    ALL = ALL
    NUL <- Nul
    EQ <- Eq
    Layout <- MCLayout
    InitDatas <- MCInitDatasCorrupt
    NameBytes <- MCNameBytes
    NameWords <- MCNameWords
    Assignments <- MCAssignments
    PNames <- MCPNames
    ReadVars <- MCReadVars
    ShortWrites = {}
    MaxSessions = 2
SPECIFICATION Spec
INVARIANT ScanStaysInPartition
CHECK_DEADLOCK FALSE
