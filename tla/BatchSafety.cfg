SPECIFICATION Spec
CONSTANTS
    Workers = {w1, w2}
    Users = {u1, u2}
    Free = Free
    Orphan = Orphan
    OtherHold = 1
    MaxRetries = 2
    MaxFaults = 3
    Faults = {"ledger", "lost", "row", "enqueue", "queue", "provider", "stale", "crash",
              "death"}
SYMMETRY Symmetry
INVARIANTS
    TypeOK
    OneProcessor
    HoldResolvedOnce
    OtherHoldsIntact
    CompletedIsCharged
    FailedIsStopped
    NotForgotten
PROPERTY EndIsFinal
PROPERTY ImplementsContract
