SPECIFICATION FairSpec
CONSTANTS
    t1 = t1
    t2 = t2
    Threads = {t1, t2}
    Settings <- Files
    Direct = {"single", "blind", "pipe", "wpipe", "rloop"}
    MaxWords = 2
    DmaMax = 1
    SizeLimit = 4
    FifoLen = 2
    MaxStray = 0
    MaxLosses = 1
    Timeouts = TRUE
    AbortCanFail = FALSE
INVARIANTS
    TypeOK
    Settled
    Counted
    ErrorTold
PROPERTIES
    ReadEnds
