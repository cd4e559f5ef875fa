SPECIFICATION Spec
CONSTANTS
    Regs = {0, 1, 2}
    Vals = {0, 1}
    Pcs <- TwoPcs
    NextPc <- TwoNextPc
    ResetPc = 0
    HandlerPc = 1
    Instrs <- DivInstrs
    IdleBus <- DataIdle
    Result <- MCResult
    None = None
    Junk = Junk
    MemFaults = {TRUE, FALSE}
    SUPPORT_LOAD_BYPASS = FALSE
    SUPPORT_MUL_BYPASS = TRUE
INVARIANT DivisionStalls
