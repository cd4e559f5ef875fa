SPECIFICATION FairSpec
CONSTANTS
    Regs = {0, 1}
    Vals = {0}
    Pcs <- MCPcs
    NextPc <- MCNextPc
    ResetPc = 0
    HandlerPc = 1
    Instrs <- TrapInstrs
    IdleBus <- TrapIdle
    Result <- NoData
    None = None
    Junk = Junk
    MemFaults = {TRUE, FALSE}
    SUPPORT_LOAD_BYPASS = TRUE
    SUPPORT_MUL_BYPASS = FALSE
INVARIANTS SystemAlone PendingHasOwner
PROPERTIES ImplementsCoreIsa KeepsRetiring
