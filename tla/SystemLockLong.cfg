CONSTANTS
  o1 = o1
  o2 = o2
  o3 = o3
  None = None
  Operations = {o1, o2, o3}
  Lease = 3
  Ttl = 6
  Prompt = TRUE
  MaxClock = 5
  MaxFaults = 0
SPECIFICATION Spec
INVARIANT OneSystemOperation
SYMMETRY OperationSymmetry
CHECK_DEADLOCK FALSE
