SPECIFICATION FairSpec
CONSTANTS
    Workers = {w1, w2}
    Users = {u1}
    Free = Free
    Orphan = Orphan
    OtherHold = 1
    MaxRetries = 2
    MaxFaults = 3
    Faults = {"ledger", "row", "queue", "provider", "gap", "death"}
PROPERTY HoldIsResolved
