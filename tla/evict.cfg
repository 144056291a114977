SPECIFICATION SerialSpec
CONSTANTS
    Cores = {"c1", "c2"}
    Warps = {"w1", "w2"}
    CoreOf <- OneWarp
    Addrs = {"x", "y"}
    Banks = {"b1"}
    BankOf <- OneBank
    Lease = 1
    L1Ways = 1
    L2Ways = 1
    MSHRs = 2
    MaxMerged = 2
    MaxOutstanding = 2
    Gap = 0
    Prog <- Every22
INVARIANTS TypeOK LeaseRespected NoLostWrites WritesInOrder ClockCoversAccesses ClockGrowth
PROPERTY ImplementsMemory
