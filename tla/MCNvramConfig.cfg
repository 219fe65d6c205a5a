CONSTANTS
    BLOCK = 16
    NONE = NONE
    ALL = ALL
    NUL <- Nul
    EQ <- Eq
    Layout <- MCLayout
    InitDatas <- MCInitDatas
    NameBytes <- MCNameBytes
    NameWords <- MCNameWords
    Assignments <- MCAssignments
    PNames <- MCPNames
    ReadVars <- MCReadVars
    ShortWrites = {}
    MaxSessions = 2
SPECIFICATION Spec
INVARIANT TypeOK
INVARIANT NoImageOverflow
PROPERTY ConfigRefinement
CHECK_DEADLOCK FALSE
