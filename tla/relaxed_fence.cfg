SPECIFICATION RelaxedSpec
CONSTANTS
    Cores = {"c1", "c2"}
    Threads = {"t1", "t2"}
    Warps <- StoredFetches
    CoreOf <- StoredCores
    Addrs = {"x", "y", "z"}
    Banks = {"b1", "b2"}
    BankOf <- TwoBanks
    Lease = 1
    L1Ways = 2
    L2Ways = 2
    Collectors = 1
    MSHRs = 2
    MaxMerged = 2
    MaxOutstanding = 4
    Prog <- Stored
INVARIANT FencesOrder
