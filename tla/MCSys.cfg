SPECIFICATION Spec
CONSTANTS
    Tags <- MCTags
    Kinds = {"load", "store"}
    DEPTH = 2
    None = None
    Ram = {"ram0", "ram1"}
    Display = {"disp"}
    PutChar = "putc"
    Clear = "clear"
    Beyond = {}
    ZeroAddr = "ram0"
    Word <- MCWord
    Vals = {0, 1}
    CHARS = 2
INVARIANTS TypeOK AnsweredAtOnce StoresOnce LoadIsCurrent
