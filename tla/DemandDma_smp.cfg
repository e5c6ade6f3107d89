SPECIFICATION Spec
CONSTANTS
    t1 = t1
    t2 = t2
    f1 = f1
    f2 = f2
    NoFd = NoFd
    Threads = {t1, t2}
    Fds = {f1}
    FdOf <- SharedFile
    Owned <- OneOwner
    Autoack <- AutoDdma
    BlockCounts = {2}
    Doorbells = FALSE
    Smp = TRUE
    AbortCanFail = TRUE
    MaxFills = 4
    MaxStarts = 1
INVARIANTS
    EngineInOwnBlock
    IInv
PROPERTIES
    HandsOutInOrder
    FifoSpec
