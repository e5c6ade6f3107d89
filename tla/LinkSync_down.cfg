SPECIFICATION Spec
CONSTANTS
    f1 = f1
    vme = vme
    lvd = lvd
    other = other
    NoHw = NoHw
    Files = {f1}
    Remotes = {vme, lvd}
    Supported = {vme, lvd}
    MaxChanges = 4
    Smp = FALSE
    Glitches = FALSE
    DropsInInit = FALSE
    Transfers = FALSE
    InitCanFail = FALSE
INVARIANTS
    DownIsKnown
