CONSTANTS
  a1 = a1
  a2 = a2
  Admins = {a1}
  Amount = 2
  Amounts = {2}
  MaxPurse = 3
  PendingGw = TRUE
  FaultKinds = {"timeout", "charge", "write", "audit", "lost_read", "crash"}
  MaxFaults = 3
SPECIFICATION FairSpec
INVARIANT TakenOnce
INVARIANT UndoneMeansReturned
INVARIANT RefundedMeansReturned
PROPERTY LockReleased
CHECK_DEADLOCK FALSE
