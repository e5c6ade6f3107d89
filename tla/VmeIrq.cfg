SPECIFICATION Spec
CONSTANTS
    f1 = f1
    f2 = f2
    t1 = t1
    t2 = t2
    Levels = {1, 2}
    Files = {f1, f2}
    Threads = {t1, t2}
    FileOf <- OneEach
    GetMasks <- AllLevels
    Automasks <- Top
    MaxRequests = 2
    MaxCtls = 2
SYMMETRY Exchange
INVARIANTS
    TypeOK
    HeldIsEnabled
    GivenOnce
    NobodySleeps
PROPERTIES
    VectorKept
