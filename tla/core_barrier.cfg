SPECIFICATION CoreFairSpec
CONSTANTS
    Warps = {"w1", "w2", "w3"}
    CtaOf <- OneCta3
    Lanes = {1, 2}
    Regs = {1, 2}
    is_SC = FALSE
    MemWarpParts = 1
    Collectors = 2
    MaxCtas = 1
    Code <- Barriers
INVARIANTS RegistersHeld BarrierHolds
PROPERTY EveryWarpExits
CHECK_DEADLOCK FALSE
