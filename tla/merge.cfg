SPECIFICATION FairSpec
CONSTANTS
    Cores = {"c1", "c2"}
    Warps = {"w1", "w2", "w3"}
    CoreOf <- TwoWarps
    Addrs = {"x", "y"}
    Banks = {"b1"}
    BankOf <- OneBank
    Lease = 1
    L1Ways = 1
    L2Ways = 1
    MSHRs = 1
    MaxMerged = 2
    MaxOutstanding = 2
    Prog <- Shared
INVARIANTS PendingCounted Assertions CoherentPerWarp
PROPERTY EveryAccessDone
CHECK_DEADLOCK FALSE
