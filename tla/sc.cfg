SPECIFICATION SerialSpec
CONSTANTS
    Cores = {"c1", "c2"}
    Warps = {"w1", "w2", "w3"}
    CoreOf <- TwoWarps
    Addrs = {"x", "y"}
    Banks = {"b1", "b2"}
    BankOf <- TwoBanks
    Lease = 1
    L1Ways = 2
    L2Ways = 1
    MSHRs = 2
    MaxMerged = 1
    MaxOutstanding = 2
    Gap = 1
    Prog <- Buffered
INVARIANTS SequentialConsistency StrictLease RenewalExpired WarpsSeeMemory
PROPERTY ImplementsMemory
