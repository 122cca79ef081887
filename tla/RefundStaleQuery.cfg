CONSTANTS
  a1 = a1
  a2 = a2
  Admins = {a1, a2}
  Amount = 2
  Amounts = {2}
  MaxPurse = 4
  PendingGw = TRUE
  FaultKinds = {}
  MaxFaults = 0
SPECIFICATION Spec
INVARIANT TakenOnce
CHECK_DEADLOCK FALSE
