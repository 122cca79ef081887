CONSTANTS
  a1 = a1
  a2 = a2
  Admins = {a1, a2}
  Amount = 2
  Amounts = {1, 2}
  MaxPurse = 3
  PendingGw = FALSE
  FaultKinds = {"charge", "undo", "write", "audit", "lost_read", "crash"}
  MaxFaults = 3
SPECIFICATION Spec
INVARIANT TypeOK
INVARIANT OneRefunder
INVARIANT TakenOnce
INVARIANT RefundedMeansReturned
INVARIANT ReturnedIsRecorded
PROPERTY RefundIsFinal
PROPERTY ImplementsContract
SYMMETRY AdminSymmetry
CHECK_DEADLOCK FALSE
