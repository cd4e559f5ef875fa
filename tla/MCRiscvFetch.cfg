SPECIFICATION FairSpec
CONSTANTS
    Pcs <- MCPcs
    NextPc <- MCNextPc
    Privs <- MCPrivs
    Faults <- MCFaults
    None = None
    ResetPc = 0
    ResetPriv = "M"
    EXTRA_DECODE_STAGE = TRUE
INVARIANTS TypeOK NoAnswerLost AnswerIsLabelled PrivilegeAgrees
PROPERTIES ImplementsStream StreamProgresses
