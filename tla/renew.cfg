SPECIFICATION PredSpec
CONSTANTS
    Cores = {"c1", "c2"}
    Warps = {"w1", "w2"}
    CoreOf <- OneWarp
    Addrs = {"x", "y", "z"}
    Banks = {"b1"}
    BankOf <- OneBank3
    Lease = 1
    L1Ways = 2
    L2Ways = 2
    MSHRs = 2
    MaxMerged = 1
    MaxOutstanding = 2
    PredMin = 1
    PredMax = 3
    PredShift = 1
    Prog <- Again
INVARIANTS RenewSound LeaseRespected
