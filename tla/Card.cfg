SPECIFICATION FairSpec
CONSTANTS
    t1 = t1
    f1 = f1
    handler = handler
    prober = prober
    Threads = {t1}
    Handler = handler
    Prober = prober
    Files = {f1}
    Requests <- Wishes
    FrontEnds = {"vme", "lvd"}
    Closed = Closed
    MaxLoads = 2
    MaxLinkChanges = 1
CHECK_DEADLOCK FALSE
INVARIANTS
    TypeOK
    KnownOopses
    AllReleased
    
PROPERTIES
    StopHeard
