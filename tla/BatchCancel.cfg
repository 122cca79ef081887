SPECIFICATION Spec
CONSTANTS
    Workers = {w1}
    Users = {u1}
    Free = Free
    Orphan = Orphan
    OtherHold = 0
    MaxRetries = 1
    MaxFaults = 0
    Faults = {}
INVARIANT RefundIsStopped
