SPECIFICATION FairSpec
CONSTANTS
    Tags = {t1, t2}
    Kinds = {"load", "store", "cache"}
    DEPTH = 2
    None = None
INVARIANTS TypeOK FifoTracksPort AnswerIsOwn OnlyLiveRequests OneAccessAtATime
PROPERTIES AccessAnswered
