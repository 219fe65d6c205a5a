CONSTANTS
    BLOCK = 16
    NONE = NONE
    ALL = ALL
    NUL <- Nul
    EQ <- Eq
    Layout <- MCLayout
    InitDatas <- MCInitDatas
    NameBytes <- MCNameBytes
    NameWords <- MCNameWords
    Assignments <- MCAssignments
    PNames <- MCPNames
    ReadVars <- MCReadVars
    ShortWrites <- MCShortWrites
    MaxSessions = 2
SPECIFICATION Spec
INVARIANT SuccessMeansWritten
CHECK_DEADLOCK FALSE
