CONSTANTS
  o1 = o1
  o2 = o2
  o3 = o3
  None = None
  Operations = {o1, o2, o3}
  Lease = 3
  Ttl = 4
  Prompt = FALSE
  MaxClock = 7
  MaxFaults = 2
SPECIFICATION Spec
INVARIANT TypeOK
INVARIANT LeasesExclude
INVARIANT HolderIsLocked
SYMMETRY OperationSymmetry
CHECK_DEADLOCK FALSE
