SPECIFICATION PagesSpec
CONSTANTS
    t1 = t1
    t2 = t2
    f1 = f1
    f2 = f2
    NoFd = NoFd
    Threads = {t1, t2}
    Fds = {f1, f2}
    FdOf <- TwoFiles
    Owned <- FirstOwner
    Autoack <- NoAuto
    BlockCounts = {1, 2}
    Doorbells = FALSE
    Smp = FALSE
    AbortCanFail = TRUE
    MaxFills = 1
    MaxStarts = 1
    Pages = 2
    PerPage = 1
CHECK_DEADLOCK FALSE
INVARIANTS
    EngineInv
    EngineInUserPages
    Returned
