SPECIFICATION CoreFairSpec
CONSTANTS
    Warps = {"w1", "w2"}
    CtaOf <- OneCta
    Lanes = {1, 2}
    Regs = {1, 2}
    is_SC = TRUE
    MemWarpParts = 1
    Collectors = 2
    MaxCtas = 1
    Code <- Guarded
PROPERTY EveryWarpExits
CHECK_DEADLOCK FALSE
