SPECIFICATION FairSpec
CONSTANTS
    f1 = f1
    vme = vme
    lvd = lvd
    other = other
    NoHw = NoHw
    Files = {f1}
    Remotes = {vme, lvd}
    Supported = {vme, lvd}
    MaxChanges = 3
    Smp = FALSE
    Glitches = TRUE
    DropsInInit = FALSE
    Transfers = TRUE
    InitCanFail = FALSE
INVARIANTS
    UpIsKnown
PROPERTIES
    SleeperWakes
    SignalSent
