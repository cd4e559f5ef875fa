SPECIFICATION FairSpec
CONSTANTS
    Size = 4
    Contents = {0, 1}
    QueueMax = 2
    LineWords = 3
    Lines = {0}
    Singles = {3}
    None = None
INVARIANTS TypeOK NoOrphanData
PROPERTIES ImplementsPort TransferAnswered
