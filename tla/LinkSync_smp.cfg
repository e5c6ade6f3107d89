SPECIFICATION Spec
CONSTANTS
    f1 = f1
    vme = vme
    lvd = lvd
    other = other
    NoHw = NoHw
    Files = {f1}
    Remotes = {vme, lvd, other}
    Supported = {vme, lvd}
    MaxChanges = 4
    Smp = TRUE
    Glitches = TRUE
    DropsInInit = TRUE
    Transfers = FALSE
    InitCanFail = FALSE
INVARIANTS
    TypeOK
    Watched
    UpIsKnown
