SPECIFICATION Spec
CONSTANTS
    t1 = t1
    t2 = t2
    Threads = {t1, t2}
    Settings <- Files
    Direct = {"single"}
    MaxWords = 2
    DmaMax = 1
    SizeLimit = 4
    FifoLen = 1
    MaxStray = 0
    MaxLosses = 1
    Timeouts = TRUE
    AbortCanFail = FALSE
INVARIANTS
    Listening
