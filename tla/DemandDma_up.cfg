SPECIFICATION FairSpec
CONSTANTS
    t1 = t1
    t2 = t2
    f1 = f1
    f2 = f2
    NoFd = NoFd
    Threads = {t1}
    Fds = {f1}
    FdOf <- OneFile
    Owned <- OneOwner
    Autoack <- AutoDdma
    BlockCounts = {1, 3}
    Doorbells = TRUE
    Smp = FALSE
    AbortCanFail = FALSE
    MaxFills = 3
    MaxStarts = 2
INVARIANTS
    TypeOK
    RingOrder
    DataInOrder
    StoppedIsIdle
    NoForeignWrite
    BlockedWaits
    OwnerIsOpen
PROPERTIES
    Announced
    SleeperWakes
    UserBlockKept
    FifoSpec
