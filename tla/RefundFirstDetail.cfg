CONSTANTS
  a1 = a1
  a2 = a2
  Admins = {a1}
  Amount = 3
  Amounts = {1, 2}
  MaxPurse = 3
  PendingGw = TRUE
  FaultKinds = {}
  MaxFaults = 0
SPECIFICATION Spec
INVARIANT RefundedMeansReturned
CHECK_DEADLOCK FALSE
