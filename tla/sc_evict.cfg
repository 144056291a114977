SPECIFICATION Spec
CONSTANTS
    Cores = {"c1", "c2"}
    Warps = {"w1", "w2"}
    CoreOf <- OneWarp
    Addrs = {"x", "y"}
    Banks = {"b1"}
    BankOf <- OneBank
    Lease = 1
    L1Ways = 2
    L2Ways = 1
    MSHRs = 1
    MaxMerged = 1
    MaxOutstanding = 1
    Prog <- Passing
INVARIANTS SequentialConsistency
