SPECIFICATION FairSpec
CONSTANTS
    t1 = t1
    t2 = t2
    f1 = f1
    f2 = f2
    NoFd = NoFd
    Threads = {t1}
    Fds = {f1}
    FdOf <- OneFile
    Owned <- OneOwner
    Autoack <- AutoDdma
    BlockCounts = {2}
    Doorbells = FALSE
    Smp = TRUE
    AbortCanFail = FALSE
    MaxFills = 4
    MaxStarts = 1
PROPERTIES
    DmaResumes
