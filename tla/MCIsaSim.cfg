SPECIFICATION Spec
CONSTANTS
    Byte = 4
    MaxRegions = 5
    Entries = 4
    PfnScale = 32
    Programs <- MCPrograms
    TimeValues = 3
    None = None
    Width = 5
    Half = 16
INVARIANTS TypeOK
PROPERTIES AccessesAreMapped ReturnsToContext TrapsNest TimerFires
CHECK_DEADLOCK FALSE
